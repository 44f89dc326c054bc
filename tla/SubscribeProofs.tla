-------------------------- MODULE SubscribeProofs --------------------------
(***************************************************************************)
(* Theorems about SubscribeSystem.                                         *)
(*                                                                         *)
(* For every fault and every restart: type correctness, with the count of  *)
(* the PUBLISHes the gateway keeps, and why an Awake client has a reason   *)
(* to be.                                                                  *)
(*                                                                         *)
(* What holds for a program that is not killed: when no message of the     *)
(* handshake comes twice, it acknowledges to the broker only what it has   *)
(* shown (AckedIsShown); when the SUBSCRIBE and its SUBACK do not either,  *)
(* it has the gateway's topic id for its subscription, once                *)
(* (SubscriptionAgrees).  Four invariants, each resting on those before:   *)
(*                                                                         *)
(*   JoinsClean, NoOtherSession    the session is the only one             *)
(*   WantedAgrees                  one name, one topic id                  *)
(*   OneSubscribe                  one SUBSCRIBE, in one place             *)
(*   ShownFirst, NothingSaved      shown before acknowledged               *)
(*                                                                         *)
(* On a network that loses nothing, as long as no queue is full, what was  *)
(* acknowledged for a client has reached it or is still held for it        *)
(* (AckedIsKept); on top of ShownFirst that needs                          *)
(*                                                                         *)
(*   NothingPublished              until the broker accepts the session    *)
(*   NamesKnown                    so that no PUBLISH is cancelled         *)
(*   FinishedIsKept                acknowledged, or on its way to be       *)
(***************************************************************************)
EXTENDS SubscribeSystem, TLAPS, FiniteSetTheorems

\* A send adds nothing but its message to a channel, a receipt adds nothing.
LEMMA SendAdds ==
    ASSUME NEW channel, NEW m, NEW after \in AfterSend(channel, m)
    PROVE  after \subseteq channel \cup {m}
BY DEF AfterSend

LEMMA ReceiveAdds ==
    ASSUME NEW channel, NEW m, NEW after \in AfterReceive(channel, m)
    PROVE  after \subseteq channel
BY DEF AfterReceive

\* A reader changes the entry arrays, the wildcard and the event within their types.
LEMMA ReadMsgTyped ==
    ASSUME NEW m \in DeliveryMessages, NEW c \in SubscriberClients, NEW e \in SubscriberEvents
    PROVE  /\ readMsg(m, c, e).client \in SubscriberClients
           /\ readMsg(m, c, e).event \in SubscriberEvents
           /\ readMsg(m, c, e).event.qos = e.qos
           /\ readMsg(m, c, e).event.send_msgID = e.send_msgID
<1> DEFINE r == readMsg(m, c, e)
<1> DEFINE both == [e EXCEPT !.msgID = m.msgID, !.topicID = m.topicID]
<1>1. m.type \in {"REGISTER", "SUBACK", "REGACK", "PUBACK"} => m.topicID \in Word /\ m.msgID \in Word
  BY DEF DeliveryMessages
<1>2. m.type = "PUBLISH" => m.topicID \in Word /\ m.msgID \in Word
  BY SubscribeGatewayAssumption, MessagesAssumption DEF DeliveryMessages, Word
<1>3. m.type \in {"REGISTER", "PUBLISH"} =>
         /\ both \in SubscriberEvents /\ both.qos = e.qos /\ both.send_msgID = e.send_msgID
         /\ [e EXCEPT !.msgID = m.msgID] \in SubscriberEvents
  BY <1>1, <1>2 DEF SubscriberEvents
<1>4. CASE m.type = "SUBACK"
  <2>1. Append(c.sub_topicID, m.topicID) \in Seq(Word)
    BY <1>1, <1>4 DEF SubscriberClients
  <2>2. [c EXCEPT !.sub_topicID = Append(c.sub_topicID, m.topicID)] \in SubscriberClients
    BY <2>1 DEF SubscriberClients
  <2>3. [c EXCEPT !.wildcard_Sub = TRUE] \in SubscriberClients
    BY DEF SubscriberClients
  <2>4. r = readSubAck(m, c, e)
    BY <1>4 DEF readMsg
  <2> QED
    BY <2>2, <2>3, <2>4 DEF readSubAck, Outcome
<1>5. CASE m.type = "REGISTER"
  <2>1. [c EXCEPT !.wild_topicID = m.topicID] \in SubscriberClients
    BY <1>1, <1>5 DEF SubscriberClients
  <2>2. r = readReg(m, c, e)
    BY <1>5 DEF readMsg
  <2> QED
    BY <1>3, <1>5, <2>1, <2>2 DEF readReg, Outcome
<1>6. CASE m.type = "REGACK"
  <2>1. Append(c.pub_topicID, m.topicID) \in Seq(Word)
    BY <1>1, <1>6 DEF SubscriberClients
  <2>2. [c EXCEPT !.pub_topicID = Append(c.pub_topicID, m.topicID)] \in SubscriberClients
    BY <2>1 DEF SubscriberClients
  <2>3. r = readRegAck(m, c, e)
    BY <1>6 DEF readMsg
  <2> QED
    BY <2>2, <2>3 DEF readRegAck, Outcome
<1>7. CASE m.type = "PUBLISH"
  <2>1. r = readPub(m, c, e)
    BY <1>7 DEF readMsg
  <2>2. r.client = c /\ r.event \in {e, both, [e EXCEPT !.msgID = m.msgID]}
    BY <2>1 DEF readPub, Outcome
  <2> QED
    BY <1>3, <1>7, <2>2 DEF SubscriberEvents
<1>8. CASE m.type \notin {"SUBACK", "REGISTER", "REGACK", "PUBLISH"}
  <2>1. m.type \in {"CONNACK", "WILLTOPICREQ", "WILLMSGREQ", "PINGRESP", "DISCONNECT",
                    "PUBACK", "PUBREL"}
    BY <1>8 DEF DeliveryMessages
  <2>2. r.client = c /\ r.event = e
    BY <2>1 DEF readMsg, readConnack, readPubAck, readRecRelComp, Outcome
  <2> QED
    BY <2>2
<1> QED
  BY <1>4, <1>5, <1>6, <1>7, <1>8

----------------------------------------------------------------------------
(* Initial states, and those of a program that is started again. *)

LEMMA WordsTyped ==
    /\ 0 \in Word /\ 1 \in Word
    /\ 0..MaxTopicID \subseteq Word
    /\ 0..MaxPublishes \subseteq Word
BY MessagesAssumption, SubscribeAssumption, GatewayAssumption, SubscribeGatewayAssumption
   DEF Word

LEMMA ConnectTyped ==
    ASSUME NEW will \in WillFlags
    PROVE  Connect(will) \in SubscriberMessages
BY SubscribeAssumption DEF Connect, SubscriberMessages

LEMMA InitialsTyped ==
    /\ InitialClients \subseteq SubscriberClients
    /\ InitialEvents \subseteq SubscriberEvents
    /\ \A started \in Programs :
          InitialFlags(started) \in [register : BOOLEAN, publish : BOOLEAN, subscribe : BOOLEAN,
                                     sleep : BOOLEAN, sleepReturn : BOOLEAN]
<1>1. <<>> \in Seq(Word) /\ \A u \in Uninit : u \in Word
  BY MachineAssumption
<1>2. InitialClients \subseteq SubscriberClients
  BY <1>1 DEF InitialClients, SubscriberClients
<1>3. InitialEvents \subseteq SubscriberEvents
  BY <1>1, WordsTyped DEF InitialEvents, SubscriberEvents
<1> QED
  BY <1>2, <1>3 DEF InitialFlags

LEMMA TypeInit == Init => TypeOK
<1> SUFFICES ASSUME Init
             PROVE  TypeOK
  OBVIOUS
<1>1. SubscriberTypeOK
  <2>1. toGateway \subseteq SubscriberMessages
    BY SendAdds, ConnectTyped DEF Init, SubscriberInit
  <2>2. client \in SubscriberClients /\ event \in SubscriberEvents
    BY InitialsTyped DEF Init, SubscriberInit, MachineInit
  <2>3. retries \in 0..(MaxRetry + 1)
    BY MachineAssumption DEF Init, SubscriberInit, MachineInit
  <2>4. flags \in [register : BOOLEAN, publish : BOOLEAN, subscribe : BOOLEAN,
                   sleep : BOOLEAN, sleepReturn : BOOLEAN]
    BY InitialsTyped DEF Init, SubscriberInit
  <2>5. /\ history \in [read : SUBSET Word, shown : SUBSET Word, lost : SUBSET Word]
        /\ history.shown \subseteq history.read
    BY DEF Init, SubscriberInit
  <2>6. /\ loopFlag \in BOOLEAN /\ eventID \in SubscriberStates /\ due \subseteq ProgramTimers
        /\ program \in Programs /\ wildcard \in BOOLEAN
    BY SubscribeAssumption DEF Init, SubscriberInit, MachineInit, SubscriberStates
  <2> QED
    BY <2>1, <2>2, <2>3, <2>4, <2>5, <2>6 DEF SubscriberTypeOK
<1>2. SubscribeGatewayTypeOK
  <2> USE DEF Init, SubscribeGatewayInit, GatewayInit
  <2>1. 0 \in 0..MaxTopicID
    BY GatewayAssumption
  <2>2. topics \in [TopicNames -> 0..MaxTopicID] /\ nextTopicId \in 0..MaxTopicID
    BY <2>1 DEF NoTopics
  <2>3. /\ brokerSendQue \in Seq(SubscribeRequests) /\ brokerLink \in Seq(SubscribeRequests)
        /\ sleepQue \in Seq(BrokerPackets) /\ Len(sleepQue) <= MaxSaved
        /\ stored \in Seq(BrokerPackets) /\ parked \in Seq(ParkedPackets)
    BY SubscribeGatewayAssumption
  <2>4. published \in 0..MaxPublishes /\ earlier \in 0..published /\ Accounted /\ snMsgId \in Nat
    BY SubscribeGatewayAssumption DEF Accounted
  <2>5. toClient \subseteq DeliveryMessages
    BY DEF SubscriberInit
  <2>6. waitedPub \cup waitedSub \subseteq [msgID : Word, topicID : Word]
    OBVIOUS
  <2>7. /\ known \in BOOLEAN /\ waitWillMsg \in BOOLEAN /\ sendingConnect \in BOOLEAN
        /\ status \in {"Disconnected", "Connecting", "Active", "Asleep", "Awake"}
        /\ link \in {"none", "open", "closed"} /\ holdPing \in BOOLEAN
        /\ brokerSub \in TopicNames \cup {0} /\ acknowledged \subseteq 1..published
    OBVIOUS
  <2> QED
    BY <2>2, <2>3, <2>4, <2>5, <2>6, <2>7 DEF SubscribeGatewayTypeOK
<1> QED
  BY <1>1, <1>2 DEF TypeOK
----------------------------------------------------------------------------
(* The program's steps. *)

LEMMA MessagesTyped ==
    /\ WillTopic \in SubscriberMessages /\ WillMsg \in SubscriberMessages
    /\ PingReq \in SubscriberMessages
    /\ \A duration \in {0, SleepTimeout} : Disconnect(duration) \in SubscriberMessages
    /\ \A msgID \in Word : Register(0, msgID, Checking) \in SubscriberMessages
    /\ \A qos \in 1..2, msgID \in Word, name \in {Topic1, Topic2, Checking, Filter} :
          Subscribe(qos, msgID, name) \in SubscriberMessages
    /\ \A topicID, msgID \in Word :
          /\ Publish(1, topicID, msgID) \in SubscriberMessages
          /\ \A rc \in {"accepted", "rejected"} :
                /\ PubAck(topicID, msgID, rc) \in SubscriberMessages
                /\ RegAck(topicID, msgID, rc) \in SubscriberMessages
    /\ \A type \in {"PUBREC", "PUBCOMP"}, msgID \in Word : Ack(type, msgID) \in SubscriberMessages
BY DEF WillTopic, WillMsg, PingReq, Disconnect, Register, Subscribe, Publish, PubAck, RegAck,
       Ack, SubscriberMessages

LEMMA SendTyped ==
    ASSUME TypeOK, NEW m \in SubscriberMessages, ClientSends(m)
    PROVE  toGateway' \subseteq SubscriberMessages
BY SendAdds DEF TypeOK, SubscriberTypeOK, ClientSends

LEMMA QuitTyped ==
    ASSUME TypeOK, Quit
    PROVE  toGateway' \subseteq SubscriberMessages /\ eventID' \in SubscriberStates
<1>1. toGateway' \subseteq toGateway \cup {Disconnect(0)}
  BY SendAdds DEF Quit
<1> QED
  BY <1>1, MessagesTyped DEF Quit, TypeOK, SubscriberTypeOK, SubscriberStates

LEMMA SendOrQuitTyped ==
    ASSUME TypeOK, NEW m \in SubscriberMessages, NEW next \in SubscriberStates,
           SendOrQuit(m, next)
    PROVE  toGateway' \subseteq SubscriberMessages /\ eventID' \in SubscriberStates
BY SendTyped, QuitTyped DEF SendOrQuit

\* The types that a step of the program may disturb.
ProgramTyped == SubscriberTypeOK /\ toClient \subseteq DeliveryMessages

LEMMA ResultTyped ==
    ASSUME TypeOK, NEW m \in toClient
    PROVE  /\ m \in DeliveryMessages
           /\ Result(m).client \in SubscriberClients
           /\ Result(m).event \in SubscriberEvents
BY ReadMsgTyped DEF Result, TypeOK, SubscriberTypeOK, SubscribeGatewayTypeOK

LEMMA ReadsTyped ==
    ASSUME TypeOK, NEW m \in toClient, Reads(m) \/ ReadsAndAdvances(m), Remember(m)
    PROVE  /\ client' \in SubscriberClients
           /\ event' \in SubscriberEvents
           /\ history' \in [read : SUBSET Word, shown : SUBSET Word, lost : SUBSET Word]
           /\ history'.shown \subseteq history'.read
           /\ toClient' \subseteq DeliveryMessages
<1>1. /\ m \in DeliveryMessages
      /\ Result(m).client \in SubscriberClients /\ Result(m).event \in SubscriberEvents
  BY ResultTyped
<1>2. NextMsgID(Result(m).event.send_msgID) \in Word
  BY <1>1, MessagesAssumption DEF NextMsgID, SubscriberEvents, Word
<1>3. event' \in SubscriberEvents
  <2>1. CASE Reads(m)
    BY <1>1, <2>1 DEF Reads
  <2>2. CASE ReadsAndAdvances(m)
    BY <1>1, <1>2, <2>2 DEF ReadsAndAdvances, SubscriberEvents
  <2> QED
    BY <2>1, <2>2
<1>4. client' \in SubscriberClients
  BY <1>1 DEF Reads, ReadsAndAdvances
<1>5. toClient' \subseteq DeliveryMessages
  BY ReceiveAdds DEF Reads, ReadsAndAdvances, ClientReceives, TypeOK, SubscribeGatewayTypeOK
<1>6. m.type = "PUBLISH" => m.msgID \in Word
  BY <1>1, WordsTyped, SubscribeGatewayAssumption DEF DeliveryMessages
<1>7. /\ history' \in [read : SUBSET Word, shown : SUBSET Word, lost : SUBSET Word]
      /\ history'.shown \subseteq history'.read
  <2>1. /\ history \in [read : SUBSET Word, shown : SUBSET Word, lost : SUBSET Word]
        /\ history.shown \subseteq history.read
    BY DEF TypeOK, SubscriberTypeOK
  <2>2. CASE m.type = "PUBLISH" /\ m.msgID # 0
    <3>1. PICK shown \in {history.shown, history.shown \cup {m.msgID}} :
             history' = [history EXCEPT !.read = history.read \cup {m.msgID}, !.shown = shown]
      BY <2>2 DEF Remember
    <3> QED
      BY <1>6, <2>1, <2>2, <3>1
  <2>3. CASE ~(m.type = "PUBLISH" /\ m.msgID # 0)
    BY <2>1, <2>3 DEF Remember
  <2> QED
    BY <2>2, <2>3
<1> QED
  BY <1>3, <1>4, <1>5, <1>7

\* The states of ClientMachine: the turns that read nothing, and those that read.
LEMMA SilentTyped ==
    ASSUME TypeOK, UNCHANGED ownVars,
           ConnectingNoMsg \/ WillNoMsg \/ PublishNoMsg \/ PingRetry \/ PingGiveUp \/ Close
    PROVE  ProgramTyped'
<1> USE DEF TypeOK, SubscriberTypeOK, SubscribeGatewayTypeOK, ProgramTyped, ownVars, netVars,
            ProgramTimers
<1>1. CASE ConnectingNoMsg
  <2>1. retries' \in 0..(MaxRetry + 1)
    BY <1>1, MachineAssumption DEF ConnectingNoMsg
  <2>2. eventID' \in SubscriberStates
    BY <1>1 DEF ConnectingNoMsg, SubscriberStates
  <2> QED
    BY <1>1, <2>1, <2>2 DEF ConnectingNoMsg
<1>2. CASE WillNoMsg
  BY <1>2, QuitTyped DEF WillNoMsg
<1>3. CASE PublishNoMsg
  BY <1>3 DEF PublishNoMsg, SubscriberStates
<1>4. CASE PingRetry
  <2>1. toGateway' \subseteq SubscriberMessages /\ eventID' \in SubscriberStates
    BY <1>4, MessagesTyped, SendOrQuitTyped DEF PingRetry, SubscriberStates
  <2>2. retries' \in 0..(MaxRetry + 1)
    BY <1>4, MachineAssumption DEF PingRetry
  <2> QED
    BY <1>4, <2>1, <2>2 DEF PingRetry
<1>5. CASE PingGiveUp
  BY <1>5 DEF PingGiveUp, SubscriberStates
<1>6. CASE Close
  BY <1>6 DEF Close
<1> QED
  BY <1>1, <1>2, <1>3, <1>4, <1>5, <1>6

LEMMA ReadingTyped ==
    ASSUME TypeOK, NEW m \in toClient, Reading(m),
           \/ ConnectingRead(m) \/ WillTopReqRead(m) \/ WillMsgReqRead(m)
           \/ PublishAcked(m) \/ PublishUnexpected(m)
           \/ PingAnswered(m) \/ PingUnexpected(m)
    PROVE  ProgramTyped'
<1>1. Reads(m) \/ ReadsAndAdvances(m)
  BY DEF ConnectingRead, WillTopReqRead, WillMsgReqRead, PublishAcked, PublishUnexpected,
         PingAnswered, PingUnexpected
<1>2. /\ client' \in SubscriberClients
      /\ event' \in SubscriberEvents
      /\ history' \in [read : SUBSET Word, shown : SUBSET Word, lost : SUBSET Word]
      /\ history'.shown \subseteq history'.read
      /\ toClient' \subseteq DeliveryMessages
  BY <1>1, ReadsTyped DEF Reading
<1>3. /\ retries' \in 0..(MaxRetry + 1)
      /\ loopFlag' \in BOOLEAN
      /\ due' \subseteq due
  BY MachineAssumption
     DEF TypeOK, SubscriberTypeOK, ConnectingRead, WillTopReqRead, WillMsgReqRead, PublishAcked,
         PublishUnexpected, PingAnswered, PingUnexpected
<1>4. toGateway' \subseteq SubscriberMessages /\ eventID' \in SubscriberStates
  <2>1. CASE ConnectingRead(m)
    BY <2>1, MessagesTyped, SendOrQuitTyped
       DEF ConnectingRead, TypeOK, SubscriberTypeOK, SubscriberStates
  <2>2. CASE WillTopReqRead(m)
    BY <2>2, MessagesTyped, SendOrQuitTyped, QuitTyped DEF WillTopReqRead, SubscriberStates
  <2>3. CASE WillMsgReqRead(m)
    BY <2>3, QuitTyped DEF WillMsgReqRead, SubscriberStates, TypeOK, SubscriberTypeOK
  <2>4. CASE \/ PublishAcked(m) \/ PublishUnexpected(m)
             \/ PingAnswered(m) \/ PingUnexpected(m)
    BY <2>4 DEF PublishAcked, PublishUnexpected, PingAnswered, PingUnexpected,
                SubscriberStates, TypeOK, SubscriberTypeOK
  <2> QED
    BY <2>1, <2>2, <2>3, <2>4
<1> QED
  BY <1>2, <1>3, <1>4 DEF TypeOK, SubscriberTypeOK, ProgramTyped, Reading, ProgramTimers

LEMMA PubTopicTyped ==
    ASSUME TypeOK
    PROVE  PubTopic(1) \in Word
BY DEF TypeOK, SubscriberTypeOK, SubscriberClients, PubTopic

\* Q_CONNECTED without a message.
LEMMA SendingTyped ==
    ASSUME TypeOK, \/ SendRegister \/ SendPublish \/ SendSubscribe \/ SendPing
                   \/ AnnounceSleep \/ FallAsleep
    PROVE  ProgramTyped'
<1>1. event \in SubscriberEvents /\ event.send_msgID \in Word /\ PubTopic(1) \in Word
  BY PubTopicTyped DEF TypeOK, SubscriberTypeOK, SubscriberEvents
<1> USE DEF TypeOK, SubscriberTypeOK, SubscribeGatewayTypeOK, ProgramTyped, ownVars,
            ProgramTimers
<1>2. CASE SendRegister
  <2>1. toGateway' \subseteq SubscriberMessages /\ eventID' \in SubscriberStates
    BY <1>1, <1>2, MessagesTyped, SendOrQuitTyped DEF SendRegister, SubscriberStates
  <2> QED
    BY <1>2, <2>1 DEF SendRegister, NotReading
<1>3. CASE SendPublish
  <2>1. toGateway' \subseteq SubscriberMessages /\ eventID' \in SubscriberStates
    BY <1>1, <1>3, MessagesTyped, SendOrQuitTyped DEF SendPublish, SubscriberStates
  <2>2. event' \in SubscriberEvents
    BY <1>1, <1>3 DEF SendPublish, SubscriberEvents
  <2> QED
    BY <1>3, <2>1, <2>2 DEF SendPublish
<1>4. CASE SendSubscribe
  <2>1. WantedQos \in 1..2 /\ WantedQos \in 0..2 /\ WantedName \in {Topic1, Topic2, Checking, Filter}
    BY SubscribeAssumption DEF WantedQos, WantedName
  <2>2. Subscribe(WantedQos, event.send_msgID, WantedName) \in SubscriberMessages
    BY <1>1, <2>1, MessagesTyped
  <2>3. toGateway' \subseteq SubscriberMessages /\ eventID' \in SubscriberStates
    BY <1>4, <2>2, SendTyped DEF SendSubscribe, SubscriberStates
  <2>4. event' \in SubscriberEvents
    BY <1>1, <1>4, <2>1 DEF SendSubscribe, SubscriberEvents
  <2>5. flags' \in [register : BOOLEAN, publish : BOOLEAN, subscribe : BOOLEAN,
                    sleep : BOOLEAN, sleepReturn : BOOLEAN]
    BY <1>4 DEF SendSubscribe
  <2> QED
    BY <1>4, <2>3, <2>4, <2>5 DEF SendSubscribe
<1>5. CASE SendPing
  <2>1. toGateway' \subseteq SubscriberMessages
    BY <1>5, MessagesTyped, SendTyped DEF SendPing
  <2> QED
    BY <1>5, <2>1 DEF SendPing, NotReading, SubscriberStates
<1>6. CASE AnnounceSleep
  <2>1. toGateway' \subseteq SubscriberMessages
    BY <1>6, MessagesTyped, SendTyped DEF AnnounceSleep
  <2> QED
    BY <1>6, <2>1 DEF AnnounceSleep, NotReading, SubscriberStates
<1>7. CASE FallAsleep
  BY <1>7 DEF FallAsleep, NotReading, SubscriberStates
<1> QED
  BY <1>2, <1>3, <1>4, <1>5, <1>6, <1>7

\* Q_CONNECTED with a message.
LEMMA ReadConnectedTyped ==
    ASSUME TypeOK, NEW m \in toClient, ReadConnected(m)
    PROVE  ProgramTyped'
<1>1. /\ client' \in SubscriberClients
      /\ event' \in SubscriberEvents
      /\ history' \in [read : SUBSET Word, shown : SUBSET Word, lost : SUBSET Word]
      /\ history'.shown \subseteq history'.read
      /\ toClient' \subseteq DeliveryMessages
  BY ReadsTyped DEF ReadConnected, Reading
<1>2. Result(m).event.topicID \in Word /\ Result(m).event.msgID \in Word
  BY ResultTyped DEF SubscriberEvents
<1>3. eventID = "Q_CONNECTED" \/ eventID \in SubscriberStates
  BY DEF TypeOK, SubscriberTypeOK
<1>4. /\ toGateway' \subseteq SubscriberMessages
      /\ eventID' \in SubscriberStates
      /\ due' \subseteq due
  <2> USE DEF TypeOK, SubscriberTypeOK, SubscriberStates
  <2>1. CASE TakePublishQos1(m)
    BY <2>1 DEF TakePublishQos1
  <2>2. CASE TakePublishQos2(m)
    BY <1>2, <2>2, MessagesTyped, SendTyped DEF TakePublishQos2
  <2>3. CASE RejectPublish(m)
    BY <1>2, <2>3, MessagesTyped, SendTyped DEF RejectPublish
  <2>4. CASE AnswerRegister(m)
    BY <1>2, <2>4, MessagesTyped, SendOrQuitTyped DEF AnswerRegister
  <2>5. CASE TakePingResp(m)
    BY <2>5 DEF TakePingResp
  <2>6. CASE Forget(m)
    BY <2>6 DEF Forget
  <2> QED
    BY <2>1, <2>2, <2>3, <2>4, <2>5, <2>6 DEF ReadConnected
<1> QED
  BY <1>1, <1>4
     DEF ReadConnected, Reading, ProgramTyped, TypeOK, SubscriberTypeOK, ProgramTimers

\* The other states of these programs.
LEMMA ReceivingTyped ==
    ASSUME TypeOK, Receiving
    PROVE  ProgramTyped'
<1> USE DEF TypeOK, SubscriberTypeOK, SubscribeGatewayTypeOK, ProgramTyped, ownVars,
            ProgramTimers, NotReading
<1>1. CASE SendPuback
  <2>1. PubAck(event.topicID, event.msgID, "accepted") \in SubscriberMessages
    BY MessagesTyped DEF SubscriberEvents
  <2>2. toGateway' \subseteq SubscriberMessages
    BY <1>1, <2>1, SendTyped DEF SendPuback
  <2> QED
    BY <1>1, <2>2 DEF SendPuback, SubscriberStates
<1>2. CASE ReleaseNoMsg
  BY <1>2 DEF ReleaseNoMsg, SubscriberStates
<1>3. ASSUME NEW m \in toClient, ReadRelease(m)
      PROVE  ProgramTyped'
  <2>1. /\ client' \in SubscriberClients
        /\ event' \in SubscriberEvents
        /\ history' \in [read : SUBSET Word, shown : SUBSET Word, lost : SUBSET Word]
        /\ history'.shown \subseteq history'.read
        /\ toClient' \subseteq DeliveryMessages
    BY <1>3, ReadsTyped DEF ReadRelease, Reading
  <2>2. Ack("PUBCOMP", Result(m).event.msgID) \in SubscriberMessages
    BY ResultTyped, MessagesTyped DEF SubscriberEvents
  <2>3. toGateway' \subseteq SubscriberMessages /\ eventID' \in SubscriberStates
    BY <1>3, <2>2, SendTyped DEF ReadRelease, ReleaseUnexpected, Release, SubscriberStates
  <2> QED
    BY <1>3, <2>1, <2>3 DEF ReadRelease, Reading
<1> QED
  BY <1>1, <1>2, <1>3 DEF Receiving

LEMMA AskingTyped ==
    ASSUME TypeOK, AskingTopic
    PROVE  ProgramTyped'
<1> USE DEF TypeOK, SubscriberTypeOK, SubscribeGatewayTypeOK, ProgramTyped, ownVars,
            ProgramTimers
<1>1. CASE JoiningNoMsg
  BY <1>1 DEF JoiningNoMsg, NotReading, SubscriberStates
<1>2. ASSUME NEW m \in toClient, RegisteringRead(m) \/ SubscribingRead(m)
      PROVE  ProgramTyped'
  <2>1. Reads(m) \/ ReadsAndAdvances(m)
    BY <1>2 DEF RegisteringRead, SubscribingRead
  <2>2. /\ client' \in SubscriberClients
        /\ event' \in SubscriberEvents
        /\ history' \in [read : SUBSET Word, shown : SUBSET Word, lost : SUBSET Word]
        /\ history'.shown \subseteq history'.read
        /\ toClient' \subseteq DeliveryMessages
    BY <1>2, <2>1, ReadsTyped DEF RegisteringRead, SubscribingRead
  <2>3. flags' \in [register : BOOLEAN, publish : BOOLEAN, subscribe : BOOLEAN,
                    sleep : BOOLEAN, sleepReturn : BOOLEAN]
    BY <1>2 DEF RegisteringRead, SubscribingRead
  <2> QED
    BY <1>2, <2>2, <2>3 DEF RegisteringRead, SubscribingRead, SubscriberStates
<1> QED
  BY <1>1, <1>2 DEF AskingTopic

LEMMA SleepingTyped ==
    ASSUME TypeOK, Sleeping
    PROVE  ProgramTyped'
<1> USE DEF TypeOK, SubscriberTypeOK, SubscribeGatewayTypeOK, ProgramTyped, ownVars,
            ProgramTimers
<1>1. CASE DisconnectingNoMsg
  BY <1>1 DEF DisconnectingNoMsg, NotReading, SubscriberStates
<1>2. CASE WakeUp
  <2>1. toGateway' \subseteq SubscriberMessages
    BY <1>2, MessagesTyped, SendTyped DEF WakeUp
  <2>2. flags' \in [register : BOOLEAN, publish : BOOLEAN, subscribe : BOOLEAN,
                    sleep : BOOLEAN, sleepReturn : BOOLEAN]
    BY <1>2 DEF WakeUp
  <2> QED
    BY <1>2, <2>1, <2>2 DEF WakeUp, SubscriberStates
<1>3. ASSUME NEW m \in toClient, DisconnectingRead(m)
      PROVE  ProgramTyped'
  <2>1. /\ client' \in SubscriberClients
        /\ event' \in SubscriberEvents
        /\ history' \in [read : SUBSET Word, shown : SUBSET Word, lost : SUBSET Word]
        /\ history'.shown \subseteq history'.read
        /\ toClient' \subseteq DeliveryMessages
    BY <1>3, ReadsTyped DEF DisconnectingRead, Reading
  <2> QED
    BY <1>3, <2>1 DEF DisconnectingRead, Reading, SubscriberStates
<1> QED
  BY <1>1, <1>2, <1>3 DEF Sleeping

\* A turn of the loop, and time.
LEMMA SubscriberTyped ==
    ASSUME TypeOK, SubscriberStep \/ TimePasses
    PROVE  ProgramTyped'
<1>1. CASE SubscriberStep
  <2>1. \/ Connecting \/ AskedForWill \/ Connected \/ Receiving \/ AskingTopic \/ Pinging
        \/ Publishing \/ Sleeping \/ Closing
    BY <1>1 DEF SubscriberStep,
       SubscribeV2Connecting, SubscribeV2Will, SubscribeV2Connected, SubscribeV2Receiving,
       SubscribeV2Subscribing, SubscribeV2Pinging,
       PubSubV2Connecting, PubSubV2Will, PubSubV2Connected, PubSubV2Receiving,
       PubSubV2Publishing, PubSubV2AskingTopic, PubSubV2Pinging,
       SleepV2Connecting, SleepV2Will, SleepV2Connected, SleepV2Receiving,
       SleepV2Subscribing, SleepV2Sleeping
  <2>2. CASE Connecting
    BY <2>2, SilentTyped, ReadingTyped DEF Connecting
  <2>3. CASE AskedForWill
    BY <2>3, SilentTyped, ReadingTyped DEF AskedForWill
  <2>4. CASE Publishing
    BY <2>4, SilentTyped, ReadingTyped DEF Publishing
  <2>5. CASE Pinging
    BY <2>5, SilentTyped, ReadingTyped DEF Pinging
  <2>6. CASE Closing
    BY <2>6, SilentTyped DEF Closing
  <2>7. CASE Connected
    BY <2>7, SendingTyped, ReadConnectedTyped DEF Connected
  <2> QED
    BY <2>1, <2>2, <2>3, <2>4, <2>5, <2>6, <2>7, ReceivingTyped, AskingTyped, SleepingTyped
<1>2. CASE TimePasses
  BY <1>2 DEF TimePasses, Tick, TypeOK, SubscriberTypeOK, SubscribeGatewayTypeOK, ProgramTyped,
              ProgramTimers, ownVars, netVars
<1> QED
  BY <1>1, <1>2
----------------------------------------------------------------------------
(* The gateway's steps. *)

LEMMA DeliveriesTyped ==
    /\ WillTopicReq \in DeliveryMessages /\ WillMsgReq \in DeliveryMessages
    /\ PingResp \in DeliveryMessages /\ Disconnect(0) \in DeliveryMessages
    /\ \A rc \in {"accepted", "rejected"} :
          /\ ConnAck(rc) \in DeliveryMessages
          /\ \A topicID, msgID \in Word :
                /\ PubAck(topicID, msgID, rc) \in DeliveryMessages
                /\ RegAck(topicID, msgID, rc) \in DeliveryMessages
                /\ \A qos \in 0..2 : SubAck(qos, topicID, msgID, rc) \in DeliveryMessages
    /\ \A topicID, msgID \in Word, name \in TopicNames :
          Register(topicID, msgID, name) \in DeliveryMessages
    /\ \A qos \in BrokerQos, topicID \in Word, msgID \in 1..MaxPublishes :
          Publish(qos, topicID, msgID) \in DeliveryMessages
    /\ \A msgID \in Word : Ack("PUBREL", msgID) \in DeliveryMessages
BY DEF WillTopicReq, WillMsgReq, PingResp, Disconnect, ConnAck, PubAck, RegAck, SubAck,
       Register, Publish, Ack, DeliveryMessages

LEMMA GatewaySendTyped ==
    ASSUME TypeOK, NEW m \in DeliveryMessages, GatewaySends(m)
    PROVE  toClient' \subseteq DeliveryMessages
BY SendAdds DEF TypeOK, SubscribeGatewayTypeOK, GatewaySends

LEMMA GatewayReceiveTyped ==
    ASSUME TypeOK, NEW m \in toGateway, GatewayReceives(m)
    PROVE  m \in SubscriberMessages /\ toGateway' \subseteq SubscriberMessages
BY ReceiveAdds DEF TypeOK, SubscriberTypeOK, GatewayReceives

LEMMA ToBrokerTyped ==
    ASSUME TypeOK, NEW request \in SubscribeRequests, ToBroker(request)
    PROVE  brokerSendQue' \in Seq(SubscribeRequests)
BY DEF TypeOK, SubscribeGatewayTypeOK, ToBroker

LEMMA RequestsTyped ==
    /\ \A type \in {"CONNECT", "DISCONNECT", "PINGREQ"} :
          Request(type, 0, 0) \in SubscribeRequests
    /\ \A id \in Word :
          /\ Request("PUBLISH", 1, id) \in SubscribeRequests
          /\ \A type \in {"PUBACK", "PUBREC", "PUBCOMP"} :
                Request(type, 0, id) \in SubscribeRequests
          /\ \A qos \in 0..2, name \in TopicNames :
                [type |-> "SUBSCRIBE", qos |-> qos, id |-> id, name |-> name] \in SubscribeRequests
BY WordsTyped DEF Request, SubscribeRequests

\* The types that a step of the gateway may disturb.
DeliveryTyped == SubscribeGatewayTypeOK /\ toGateway \subseteq SubscriberMessages

\* Topics::add gives out ids up to MaxTopicID.
LEMMA AddTopicTyped ==
    ASSUME TypeOK, NEW name \in TopicNames, AddTopic(name)
    PROVE  /\ topics' \in [TopicNames -> 0..MaxTopicID]
           /\ nextTopicId' \in 0..MaxTopicID
<1>1. topics \in [TopicNames -> 0..MaxTopicID] /\ nextTopicId \in 0..MaxTopicID
  BY DEF TypeOK, SubscribeGatewayTypeOK
<1>2. CASE topics[name] # 0
  BY <1>1, <1>2 DEF AddTopic
<1>3. CASE topics[name] = 0
  <2>1. nextTopicId' \in 0..MaxTopicID /\ topics' = [topics EXCEPT ![name] = nextTopicId']
    BY <1>1, <1>3, GatewayAssumption DEF AddTopic
  <2> QED
    BY <1>1, <2>1
<1> QED
  BY <1>2, <1>3

\* What the handlers of Gateway.tla do that this client's gateway shares.
LEMMA OtherPacketsTyped ==
    ASSUME TypeOK, NEW m \in toGateway, OtherPackets(m), UNCHANGED subscriptionVars
    PROVE  DeliveryTyped'
<1> USE DEF TypeOK, SubscriberTypeOK, SubscribeGatewayTypeOK, DeliveryTyped, Accounted, clientObject, brokerVars,
            subscriptionVars, deliveryVars, brokerSession
<1>1. CASE DiscardUnknown(m)
  BY <1>1, GatewayReceiveTyped DEF DiscardUnknown, gatewayVars
<1>2. CASE HandleWilltopic(m)
  BY <1>2, GatewayReceiveTyped, GatewaySendTyped, DeliveriesTyped DEF HandleWilltopic, FromClient
<1>3. CASE HandleWillmsg(m)
  <2>1. brokerSendQue' \in Seq(SubscribeRequests) /\ waitWillMsg' \in BOOLEAN
    BY <1>3, ToBrokerTyped, RequestsTyped DEF HandleWillmsg
  <2> QED
    BY <1>3, <2>1, GatewayReceiveTyped DEF HandleWillmsg, FromClient
<1>4. CASE HandleRegister(m)
  <2>1. m \in SubscriberMessages /\ toGateway' \subseteq SubscriberMessages
    BY <1>4, GatewayReceiveTyped DEF HandleRegister, FromClient
  <2>2. m.name \in TopicNames /\ m.msgID \in Word
    BY <1>4, <2>1, SubscribeGatewayAssumption DEF SubscriberMessages, HandleRegister
  <2>3. topics' \in [TopicNames -> 0..MaxTopicID] /\ nextTopicId' \in 0..MaxTopicID
    BY <1>4, <2>2, AddTopicTyped DEF HandleRegister
  <2>4. topics'[m.name] \in Word
    BY <2>2, <2>3, WordsTyped
  <2>5. toClient' \subseteq DeliveryMessages
    BY <1>4, <2>2, <2>4, GatewaySendTyped, DeliveriesTyped DEF HandleRegister
  <2> QED
    BY <1>4, <2>1, <2>3, <2>5 DEF HandleRegister
<1>5. CASE HandlePublishInvalidTopic(m)
  <2>1. m \in SubscriberMessages /\ toGateway' \subseteq SubscriberMessages
    BY <1>5, GatewayReceiveTyped DEF HandlePublishInvalidTopic, FromClient
  <2>2. m.topicID \in Word /\ m.msgID \in Word
    BY <1>5, <2>1 DEF SubscriberMessages, HandlePublishInvalidTopic
  <2>3. toClient' \subseteq DeliveryMessages
    BY <1>5, <2>2, GatewaySendTyped, DeliveriesTyped DEF HandlePublishInvalidTopic
  <2> QED
    BY <1>5, <2>1, <2>3 DEF HandlePublishInvalidTopic, gatewayVars
<1>6. CASE HandlePublish(m)
  <2>1. m \in SubscriberMessages /\ toGateway' \subseteq SubscriberMessages
    BY <1>6, GatewayReceiveTyped DEF HandlePublish, FromClient
  <2>2. m.topicID \in Word /\ m.msgID \in Word /\ m.qos = 1
    BY <1>6, <2>1 DEF SubscriberMessages, HandlePublish
  <2>3. brokerSendQue' \in Seq(SubscribeRequests)
    BY <1>6, <2>2, ToBrokerTyped, RequestsTyped DEF HandlePublish
  <2>4. waitedPub' \subseteq [msgID : Word, topicID : Word]
    BY <1>6, <2>2 DEF HandlePublish, SetWaited
  <2> QED
    BY <1>6, <2>1, <2>3, <2>4 DEF HandlePublish
<1> QED
  BY <1>1, <1>2, <1>3, <1>4, <1>5, <1>6 DEF OtherPackets

\* Joining two queues, and taking the head of one.
LEMMA PostedTyped ==
    ASSUME TypeOK
    PROVE  /\ stored \o sleepQue \in Seq(BrokerPackets)
           /\ Len(stored \o sleepQue) = Len(stored) + Len(sleepQue)
           /\ Len(stored) \in Nat /\ Len(sleepQue) \in Nat /\ Len(parked) \in Nat
BY DEF TypeOK, SubscribeGatewayTypeOK

LEMMA ConnectionHandlerTyped ==
    ASSUME TypeOK, NEW m \in toGateway,
           \/ HandleConnectResting(m) \/ HandleConnectClean(m)
           \/ HandleDisconnectOrSleep(m) \/ HandlePingreqOrWake(m)
    PROVE  DeliveryTyped'
<1>1. /\ <<>> \in Seq(BrokerPackets) /\ Len(<<>>) = 0
      /\ 0 <= MaxSaved
  BY SubscribeGatewayAssumption
<1> USE DEF TypeOK, SubscriberTypeOK, SubscribeGatewayTypeOK, DeliveryTyped, Accounted, clientObject, brokerVars,
            subscriptionVars, deliveryVars, brokerSession, disconnected
<1>2. CASE HandleConnectResting(m)
  <2>1. toGateway' \subseteq SubscriberMessages
    BY <1>2, GatewayReceiveTyped DEF HandleConnectResting, FromClient
  <2>2. toClient' \subseteq DeliveryMessages
    BY <1>2, GatewaySendTyped, DeliveriesTyped DEF HandleConnectResting
  <2>3. /\ sleepQue' \in Seq(BrokerPackets) /\ Len(sleepQue') <= MaxSaved
        /\ stored' \in Seq(BrokerPackets)
        /\ Accounted'
    BY <1>1, <1>2, PostedTyped DEF HandleConnectResting
  <2> QED
    BY <1>2, <2>1, <2>2, <2>3 DEF HandleConnectResting
<1>3. CASE HandleConnectClean(m)
  <2>1. toGateway' \subseteq SubscriberMessages
    BY <1>3, GatewayReceiveTyped DEF HandleConnectClean, HandleConnect
  <2>2. toClient' \subseteq DeliveryMessages /\ brokerSendQue' \in Seq(SubscribeRequests)
    BY <1>3, GatewaySendTyped, DeliveriesTyped, ToBrokerTyped, RequestsTyped
       DEF HandleConnectClean, HandleConnect
  <2>3. topics' \in [TopicNames -> 0..MaxTopicID]
    BY <1>3, GatewayAssumption DEF HandleConnectClean, HandleConnect, NoTopics
  <2>4. waitedPub' \cup waitedSub' \subseteq [msgID : Word, topicID : Word]
    BY <1>3 DEF HandleConnectClean, HandleConnect
  <2> QED
    BY <1>3, <2>1, <2>2, <2>3, <2>4 DEF HandleConnectClean, HandleConnect
<1>4. CASE HandleDisconnectOrSleep(m)
  <2>1. toGateway' \subseteq SubscriberMessages
    BY <1>4, GatewayReceiveTyped DEF HandleDisconnectOrSleep, FromClient
  <2>2. toClient' \subseteq DeliveryMessages /\ brokerSendQue' \in Seq(SubscribeRequests)
    BY <1>4, GatewaySendTyped, DeliveriesTyped, ToBrokerTyped, RequestsTyped
       DEF HandleDisconnectOrSleep
  <2>3. /\ status' \in {"Disconnected", "Connecting", "Active", "Asleep", "Awake"}
        /\ waitWillMsg' \in BOOLEAN
    BY <1>4 DEF HandleDisconnectOrSleep
  <2> QED
    BY <1>4, <2>1, <2>2, <2>3 DEF HandleDisconnectOrSleep
<1>5. CASE HandlePingreqOrWake(m)
  <2>1. toGateway' \subseteq SubscriberMessages
    BY <1>5, GatewayReceiveTyped DEF HandlePingreqOrWake, FromClient
  <2>2. brokerSendQue' \in Seq(SubscribeRequests)
    BY <1>5, ToBrokerTyped, RequestsTyped DEF HandlePingreqOrWake
  <2>3. /\ sleepQue' \in Seq(BrokerPackets) /\ Len(sleepQue') <= MaxSaved
        /\ stored' \in Seq(BrokerPackets)
        /\ holdPing' \in BOOLEAN
    BY <1>1, <1>5, PostedTyped DEF HandlePingreqOrWake
  <2>4. Accounted'
    <3>1. Len(sleepQue') + Len(stored') = Len(sleepQue) + Len(stored)
      BY <1>1, <1>5, PostedTyped DEF HandlePingreqOrWake
    <3>2. UNCHANGED <<parked, snMsgId, published>>
      BY <1>5 DEF HandlePingreqOrWake
    <3> QED
      BY <3>1, <3>2
  <2>5. status' \in {"Disconnected", "Connecting", "Active", "Asleep", "Awake"}
    BY <1>5 DEF HandlePingreqOrWake
  <2> QED
    BY <1>5, <2>1, <2>2, <2>3, <2>4, <2>5 DEF HandlePingreqOrWake
<1> QED
  BY <1>2, <1>3, <1>4, <1>5

\* Taking one element out leaves a sequence that is shorter by one.
LEMMA RemoveAtTyped ==
    ASSUME NEW S, NEW s \in Seq(S), NEW i \in 1..Len(s)
    PROVE  /\ RemoveAt(s, i) \in Seq(S)
           /\ Len(RemoveAt(s, i)) = Len(s) - 1
<1> DEFINE before == SubSeq(s, 1, i - 1)
           after == SubSeq(s, i + 1, Len(s))
<1>1. before \in Seq(S) /\ Len(before) = i - 1
  OBVIOUS
<1>2. after \in Seq(S) /\ Len(after) = Len(s) - i
  OBVIOUS
<1>3. RemoveAt(s, i) = before \o after
  BY DEF RemoveAt
<1> HIDE DEF before, after
<1>4. before \o after \in Seq(S) /\ Len(before \o after) = Len(before) + Len(after)
  BY <1>1, <1>2
<1> QED
  BY <1>1, <1>2, <1>3, <1>4

LEMMA SubscribeHandlerTyped ==
    ASSUME TypeOK, NEW m \in toGateway,
           \/ HandleSubscribe(m) \/ HandleClientAck(m) \/ HandleIgnoredAck(m) \/ HandleRegAck(m)
    PROVE  DeliveryTyped'
<1>1. m \in SubscriberMessages /\ toGateway' \subseteq SubscriberMessages
  BY GatewayReceiveTyped
     DEF HandleSubscribe, HandleClientAck, HandleIgnoredAck, HandleRegAck, FromClient
<1> USE DEF TypeOK, SubscriberTypeOK, SubscribeGatewayTypeOK, DeliveryTyped, Accounted, clientObject, brokerVars,
            subscriptionVars, deliveryVars, brokerSession
<1>2. CASE HandleSubscribe(m)
  <2>a. m \in SubscriberMessages /\ m.type = "SUBSCRIBE"
    BY ONLY <1>1, <1>2 DEF HandleSubscribe
  <2>b. m \in [type : {"SUBSCRIBE"}, qos : 1..2, msgID : Word,
               name : {Topic1, Topic2, Checking, Filter}]
    BY ONLY <2>a DEF SubscriberMessages
  <2>1. m.name \in TopicNames /\ m.msgID \in Word /\ m.qos \in 0..2
    BY ONLY <2>b, SubscribeGatewayAssumption
  <2>2. topics' \in [TopicNames -> 0..MaxTopicID] /\ nextTopicId' \in 0..MaxTopicID
    BY <1>2, <2>1, AddTopicTyped DEF HandleSubscribe
  <2>3. topics'[m.name] \in Word
    BY <2>1, <2>2, WordsTyped
  <2>4. waitedSub' \subseteq [msgID : Word, topicID : Word]
    BY <1>2, <2>1, <2>3 DEF HandleSubscribe, SetWaitedSub
  <2>5. brokerSendQue' \in Seq(SubscribeRequests)
    BY <1>2, <2>1, ToBrokerTyped, RequestsTyped DEF HandleSubscribe
  <2> QED
    BY <1>1, <1>2, <2>2, <2>4, <2>5 DEF HandleSubscribe
<1>3. CASE HandleClientAck(m)
  <2>1. m.msgID \in Word
    BY <1>1, <1>3 DEF SubscriberMessages, HandleClientAck
  <2>2. brokerSendQue' \in Seq(SubscribeRequests)
    BY <1>3, <2>1, ToBrokerTyped, RequestsTyped DEF HandleClientAck
  <2> QED
    BY <1>1, <1>3, <2>2 DEF HandleClientAck
<1>4. CASE HandleIgnoredAck(m)
  BY <1>1, <1>4 DEF HandleIgnoredAck, gatewayVars
<1>5. CASE HandleRegAck(m)
  <2>1. /\ parked' \in Seq(ParkedPackets)
        /\ Len(parked') <= Len(parked)
        /\ toClient' \subseteq DeliveryMessages
    <3>1. CASE UNCHANGED <<parked, toClient>>
      BY <3>1
    <3>2. ASSUME NEW i \in 1..Len(parked), GatewaySends(parked[i].publish),
                 parked' = RemoveAt(parked, i)
          PROVE  /\ parked' \in Seq(ParkedPackets)
                 /\ Len(parked') <= Len(parked)
                 /\ toClient' \subseteq DeliveryMessages
      <4>1. parked[i] \in ParkedPackets
        OBVIOUS
      <4>2. parked[i].publish \in DeliveryMessages
        BY <4>1 DEF ParkedPackets, DeliveryMessages
      <4>3. /\ RemoveAt(parked, i) \in Seq(ParkedPackets)
            /\ Len(RemoveAt(parked, i)) = Len(parked) - 1
        BY RemoveAtTyped
      <4>4. toClient' \subseteq DeliveryMessages
        BY <3>2, <4>2, GatewaySendTyped
      <4> QED
        BY <3>2, <4>3, <4>4, PostedTyped
    <3> QED
      BY <1>5, <3>1, <3>2 DEF HandleRegAck, SendParked
  <2>2. brokerSendQue' \in Seq(SubscribeRequests) /\ holdPing' \in BOOLEAN
    BY <1>5, ToBrokerTyped, RequestsTyped DEF HandleRegAck
  <2>3. Accounted'
    BY <1>5, <2>1 DEF HandleRegAck
  <2> QED
    BY <1>1, <1>5, <2>1, <2>2, <2>3 DEF HandleRegAck
<1> QED
  BY <1>2, <1>3, <1>4, <1>5

\* The types of what handlePublish changes.
DeliveredType ==
    /\ topics' \in [TopicNames -> 0..MaxTopicID] /\ nextTopicId' \in 0..MaxTopicID
    /\ toClient' \subseteq DeliveryMessages
    /\ brokerSendQue' \in Seq(SubscribeRequests)
    /\ sleepQue' \in Seq(BrokerPackets) /\ Len(sleepQue') <= MaxSaved
    /\ parked' \in Seq(ParkedPackets)
    /\ snMsgId' \in Nat

\* handlePublish: the gateway saves the PUBLISH, gives it a message id, or has done with it.
LEMMA DeliverTyped ==
    ASSUME TypeOK, NEW p \in BrokerPackets, DeliverPublish(p),
           Len(sleepQue) + snMsgId < MaxPublishes
    PROVE  /\ DeliveredType
           /\ Len(sleepQue') + snMsgId' <= Len(sleepQue) + snMsgId + 1
           /\ Len(parked') <= snMsgId'
<1>1. /\ p.qos \in BrokerQos /\ p.id \in 1..MaxPublishes /\ p.id \in Word
      /\ p.name \in TopicNames
  BY WordsTyped, SubscribeGatewayAssumption DEF BrokerPackets
<1>2. ASSUME ReplyACK(p)
      PROVE  brokerSendQue' \in Seq(SubscribeRequests)
  BY <1>1, <1>2, ToBrokerTyped, RequestsTyped DEF ReplyACK
<1> USE DEF TypeOK, SubscribeGatewayTypeOK, Accounted, DeliveredType
<1>3. CASE PublishIgnored
  BY <1>3, PostedTyped DEF PublishIgnored
<1>4. CASE PublishSaved(p)
  <2>1. /\ sleepQue' \in Seq(BrokerPackets) /\ Len(sleepQue') <= MaxSaved
        /\ Len(sleepQue') <= Len(sleepQue) + 1
    <3>1. sleepQue' = IF Len(sleepQue) < MaxSaved THEN Append(sleepQue, p) ELSE sleepQue
      BY <1>4 DEF PublishSaved
    <3>2. sleepQue \in Seq(BrokerPackets) /\ Len(sleepQue) \in Nat /\ Len(sleepQue) <= MaxSaved
      BY PostedTyped
    <3>3. Append(sleepQue, p) \in Seq(BrokerPackets) /\ Len(Append(sleepQue, p)) = Len(sleepQue) + 1
      BY <3>2
    <3>4. MaxSaved \in Nat
      BY SubscribeGatewayAssumption
    <3>5. CASE Len(sleepQue) < MaxSaved
      BY ONLY <3>1, <3>2, <3>3, <3>4, <3>5
    <3>6. CASE ~(Len(sleepQue) < MaxSaved)
      BY ONLY <3>1, <3>2, <3>6
    <3> QED
      BY <3>5, <3>6
  <2>2. UNCHANGED <<toClient, topics, nextTopicId, parked, snMsgId>> /\ ReplyACK(p)
    BY <1>4 DEF PublishSaved
  <2> QED
    BY <1>2, <2>1, <2>2, PostedTyped
<1>5. CASE PublishForwarded(p)
  <2>1. topics[p.name] \in Word
    BY <1>1, WordsTyped
  <2>2. toClient' \subseteq DeliveryMessages
    BY <1>1, <1>5, <2>1, GatewaySendTyped, DeliveriesTyped DEF PublishForwarded
  <2> QED
    BY <1>5, <2>2, PostedTyped DEF PublishForwarded
<1>6. CASE PublishCancelled(p)
  BY <1>2, <1>6, PostedTyped DEF PublishCancelled
<1>7. CASE PublishParked(p)
  <2>1. topics' \in [TopicNames -> 0..MaxTopicID] /\ nextTopicId' \in 0..MaxTopicID
    BY <1>1, <1>7, AddTopicTyped DEF PublishParked
  <2>2. nextTopicId' \in Word
    BY <2>1, WordsTyped
  <2>3. snMsgId' \in 1..MaxPublishes /\ snMsgId' \in Word
    BY <1>7, PostedTyped, WordsTyped, SubscribeGatewayAssumption DEF PublishParked
  <2>4. toClient' \subseteq DeliveryMessages
    BY <1>1, <1>7, <2>2, <2>3, GatewaySendTyped, DeliveriesTyped DEF PublishParked
  <2>5. [msgID |-> snMsgId', publish |-> Publish(p.qos, nextTopicId', p.id)] \in ParkedPackets
    BY <1>1, <2>2, <2>3 DEF ParkedPackets, Publish
  <2>6. parked' \in Seq(ParkedPackets) /\ Len(parked') = Len(parked) + 1
    BY <1>7, <2>5 DEF PublishParked
  <2> QED
    BY <1>7, <2>1, <2>3, <2>4, <2>6, PostedTyped DEF PublishParked
<1> QED
  BY <1>3, <1>4, <1>5, <1>6, <1>7 DEF DeliverPublish

LEMMA DeliveringTyped ==
    ASSUME TypeOK, HandleStored \/ \E qos \in BrokerQos : BrokerPublishes(qos)
    PROVE  DeliveryTyped'
<1> USE DEF TypeOK, SubscriberTypeOK, SubscribeGatewayTypeOK, DeliveryTyped
<1>1. CASE HandleStored
  <2>1. stored # <<>> /\ DeliverPublish(Head(stored)) /\ stored' = Tail(stored)
    BY <1>1 DEF HandleStored
  <2>2. /\ Head(stored) \in BrokerPackets
        /\ stored' \in Seq(BrokerPackets)
        /\ Len(stored') = Len(stored) - 1 /\ Len(stored) > 0
    BY <2>1
  <2>3. Len(sleepQue) + snMsgId < MaxPublishes
    BY <2>2, PostedTyped, SubscribeGatewayAssumption DEF Accounted
  <2>4. /\ Len(sleepQue') \in Nat /\ snMsgId' \in Nat
        /\ Len(sleepQue') + snMsgId' <= Len(sleepQue) + snMsgId + 1
        /\ Len(parked') <= snMsgId'
    BY <2>1, <2>2, <2>3, DeliverTyped DEF DeliveredType
  <2>5. /\ Len(sleepQue) + Len(stored) + snMsgId <= published
        /\ snMsgId \in Nat /\ published \in Nat /\ published' = published
    BY <1>1 DEF Accounted, HandleStored
  <2>6. Accounted'
    <3>1. Len(stored) \in Nat /\ Len(sleepQue) \in Nat /\ Len(stored') = Len(stored) - 1
      BY <2>2, PostedTyped
    <3>2. Len(sleepQue') + Len(stored') + snMsgId' <= published'
      BY ONLY <2>4, <2>5, <3>1
    <3> QED
      BY <2>4, <3>2 DEF Accounted
  <2>7. DeliveredType
    BY <2>1, <2>2, <2>3, DeliverTyped
  <2>8. UNCHANGED <<known, status, waitWillMsg, waitedPub, brokerLink, link, sendingConnect,
                    toGateway, waitedSub, holdPing, brokerSub, earlier, acknowledged>>
    BY <2>1 DEF DeliverPublish
  <2> QED
    BY <2>2, <2>5, <2>6, <2>7, <2>8 DEF DeliveredType
<1>2. ASSUME NEW qos \in BrokerQos, BrokerPublishes(qos)
      PROVE  DeliveryTyped'
  <2> DEFINE p == [qos |-> qos, id |-> published + 1,
                   name |-> IF brokerSub = Filter THEN Topic1 ELSE brokerSub]
  <2>1. p \in BrokerPackets
    BY <1>2, SubscribeGatewayAssumption DEF BrokerPublishes, BrokerPackets
  <2>2. /\ DeliverPublish(p) /\ UNCHANGED stored
        /\ published < MaxPublishes /\ published' = published + 1
    BY <1>2 DEF BrokerPublishes
  <2> HIDE DEF p
  <2>3. Len(sleepQue) + snMsgId < MaxPublishes
    BY <2>2, PostedTyped, SubscribeGatewayAssumption DEF Accounted
  <2>4. /\ Len(sleepQue') \in Nat /\ snMsgId' \in Nat
        /\ Len(sleepQue') + snMsgId' <= Len(sleepQue) + snMsgId + 1
        /\ Len(parked') <= snMsgId'
    BY <2>1, <2>2, <2>3, DeliverTyped DEF DeliveredType
  <2>5. /\ Len(sleepQue) + Len(stored) + snMsgId <= published
        /\ snMsgId \in Nat /\ published \in Nat
    BY DEF Accounted
  <2>6. Accounted'
    <3>1. Len(stored') = Len(stored) /\ published' = published + 1
      BY <2>2
    <3>2. Len(stored) \in Nat /\ Len(sleepQue) \in Nat
      BY PostedTyped
    <3>3. Len(sleepQue') + Len(stored') + snMsgId' <= published'
      BY ONLY <2>4, <2>5, <3>1, <3>2
    <3> QED
      BY <2>4, <3>3 DEF Accounted
  <2>7. /\ published' \in 0..MaxPublishes
        /\ earlier' \in 0..published' /\ acknowledged' \subseteq 1..published'
    BY <2>2, SubscribeGatewayAssumption DEF DeliverPublish
  <2>8. DeliveredType
    BY <2>1, <2>2, <2>3, DeliverTyped
  <2>9. UNCHANGED <<known, status, waitWillMsg, waitedPub, brokerLink, link, sendingConnect,
                    toGateway, waitedSub, holdPing, brokerSub>>
    BY <2>2 DEF DeliverPublish
  <2> QED
    BY <2>2, <2>6, <2>7, <2>8, <2>9 DEF DeliveredType
<1> QED
  BY <1>1, <1>2

\* What taking from a queue, or moving its head to the other, leaves.
LEMMA QueuesTyped ==
    ASSUME NEW queue \in Seq(SubscribeRequests), queue # <<>>
    PROVE  /\ Head(queue) \in SubscribeRequests
           /\ Tail(queue) \in Seq(SubscribeRequests)
           /\ <<Head(queue)>> \in Seq(SubscribeRequests)
           /\ \A other \in Seq(SubscribeRequests) :
                 Append(other, Head(queue)) \in Seq(SubscribeRequests)
OBVIOUS

\* A message id taken from the link is an id.
LEMMA AnsweredTyped ==
    ASSUME TypeOK, brokerLink # <<>>
    PROVE  /\ Head(brokerLink).id \in Word
           /\ Head(brokerLink).qos \in 0..2
           /\ Tail(brokerLink) \in Seq(SubscribeRequests)
<1>1. Head(brokerLink) \in SubscribeRequests /\ Tail(brokerLink) \in Seq(SubscribeRequests)
  BY QueuesTyped DEF TypeOK, SubscribeGatewayTypeOK
<1> QED
  BY <1>1 DEF SubscribeRequests

LEMMA BrokerSendTyped ==
    ASSUME TypeOK, \/ SendConnectClean
                   \/ (connectSended \/ SendRequest) /\ UNCHANGED subscriptionVars
    PROVE  DeliveryTyped'
<1> USE DEF TypeOK, SubscriberTypeOK, SubscribeGatewayTypeOK, DeliveryTyped, Accounted,
            clientObject, netVars, subscriptionVars, deliveryVars, brokerSession
<1>1. CASE SendConnectClean
  <2>1. brokerSendQue' \in Seq(SubscribeRequests) /\ brokerLink' \in Seq(SubscribeRequests)
    BY <1>1, QueuesTyped DEF SendConnectClean, SendConnect
  <2>2. earlier' \in 0..published' /\ acknowledged' \subseteq 1..published'
    BY <1>1 DEF SendConnectClean
  <2> QED
    BY <1>1, <2>1, <2>2 DEF SendConnectClean, SendConnect
<1>2. CASE connectSended /\ UNCHANGED subscriptionVars
  BY <1>2 DEF connectSended
<1>3. CASE SendRequest /\ UNCHANGED subscriptionVars
  <2>1. brokerSendQue' \in Seq(SubscribeRequests) /\ brokerLink' \in Seq(SubscribeRequests)
    BY <1>3, QueuesTyped DEF SendRequest
  <2> QED
    BY <1>3, <2>1 DEF SendRequest
<1> QED
  BY <1>1, <1>2, <1>3

LEMMA BrokerRecvTyped ==
    ASSUME TypeOK, \/ BrokerSubscribes \/ HandleSuback
                   \/ HandlePingrespOrSleep \/ BrokerAcknowledged
                   \/ OtherAnswers /\ UNCHANGED subscriptionVars
                   \/ EraseSubscriber
    PROVE  DeliveryTyped'
<1> USE DEF TypeOK, SubscriberTypeOK, SubscribeGatewayTypeOK, DeliveryTyped, Accounted,
            clientObject, brokerVars, subscriptionVars, deliveryVars, brokerSession, disconnected
<1>1. CASE BrokerSubscribes
  <2>1. Head(brokerLink) \in SubscribeRequests
    BY <1>1, QueuesTyped DEF BrokerSubscribes
  <2>2. brokerSub' \in TopicNames
    BY <1>1, <2>1 DEF BrokerSubscribes, SubscribeRequests
  <2> QED
    BY <1>1, <2>2 DEF BrokerSubscribes, gatewayVars, netVars
<1>2. CASE HandleSuback
  <2>1. /\ Head(brokerLink).id \in Word /\ Head(brokerLink).qos \in 0..2
        /\ brokerLink' \in Seq(SubscribeRequests)
    BY <1>2, AnsweredTyped DEF HandleSuback
  <2>2. waitedSub' \subseteq waitedSub
    BY <1>2 DEF HandleSuback
  <2>3. toClient' \subseteq DeliveryMessages
    <3> DEFINE rc == IF brokerSub # 0 THEN "accepted" ELSE "rejected"
               qos == IF brokerSub # 0 THEN Head(brokerLink).qos ELSE 0
    <3>1. rc \in {"accepted", "rejected"} /\ qos \in 0..2
      BY <2>1
    <3>2. \/ UNCHANGED toClient
          \/ \E w \in waitedSub : GatewaySends(SubAck(qos, w.topicID, Head(brokerLink).id, rc))
      BY <1>2 DEF HandleSuback
    <3> HIDE DEF rc, qos
    <3>3. ASSUME NEW w \in waitedSub
          PROVE  SubAck(qos, w.topicID, Head(brokerLink).id, rc) \in DeliveryMessages
      BY <2>1, <3>1, DeliveriesTyped
    <3> QED
      BY <3>2, <3>3, GatewaySendTyped
  <2> QED
    BY <1>2, <2>1, <2>2, <2>3 DEF HandleSuback
<1>3. CASE HandlePingrespOrSleep
  <2>1. brokerLink' \in Seq(SubscribeRequests)
    BY <1>3, AnsweredTyped DEF HandlePingrespOrSleep, Answers
  <2>2. toClient' \subseteq DeliveryMessages
    BY <1>3, GatewaySendTyped, DeliveriesTyped DEF HandlePingrespOrSleep
  <2> QED
    BY <1>3, <2>1, <2>2 DEF HandlePingrespOrSleep, Answers
<1>4. CASE BrokerAcknowledged
  <2>1. Head(brokerLink).id \in Word /\ brokerLink' \in Seq(SubscribeRequests)
    BY <1>4, AnsweredTyped DEF BrokerAcknowledged
  <2>2. toClient' \subseteq DeliveryMessages
    BY <1>4, <2>1, GatewaySendTyped, DeliveriesTyped DEF BrokerAcknowledged
  <2>3. brokerSendQue' \in Seq(SubscribeRequests)
    BY <1>4, <2>1, ToBrokerTyped, RequestsTyped DEF BrokerAcknowledged
  <2>4. acknowledged' \subseteq 1..published'
    BY <1>4 DEF BrokerAcknowledged
  <2> QED
    BY <1>4, <2>1, <2>2, <2>3, <2>4 DEF BrokerAcknowledged
<1>5. CASE ConnackAccepted /\ UNCHANGED subscriptionVars
  <2>1. brokerLink' \in Seq(SubscribeRequests)
    BY <1>5, AnsweredTyped DEF ConnackAccepted, Answers
  <2>2. toClient' \subseteq DeliveryMessages
    BY <1>5, GatewaySendTyped, DeliveriesTyped DEF ConnackAccepted
  <2> QED
    BY <1>5, <2>1, <2>2 DEF ConnackAccepted, Answers
<1>6. CASE ConnackRefused /\ UNCHANGED subscriptionVars
  <2>1. toClient' \subseteq DeliveryMessages
    BY <1>6, GatewaySendTyped, DeliveriesTyped DEF ConnackRefused
  <2>2. brokerLink' \in Seq(SubscribeRequests)
    BY <1>6 DEF ConnackRefused
  <2> QED
    BY <1>6, <2>1, <2>2 DEF ConnackRefused, Answers
<1>7. CASE HandlePuback /\ UNCHANGED subscriptionVars
  <2>1. Head(brokerLink).id \in Word /\ brokerLink' \in Seq(SubscribeRequests)
    BY <1>7, AnsweredTyped DEF HandlePuback, Answers
  <2>2. waitedPub' \subseteq waitedPub
    BY <1>7 DEF HandlePuback
  <2>3. toClient' \subseteq DeliveryMessages
    <3>1. \/ UNCHANGED toClient
          \/ \E w \in waitedPub : GatewaySends(PubAck(w.topicID, Head(brokerLink).id, "accepted"))
      BY <1>7 DEF HandlePuback
    <3>2. ASSUME NEW w \in waitedPub
          PROVE  PubAck(w.topicID, Head(brokerLink).id, "accepted") \in DeliveryMessages
      BY <2>1, DeliveriesTyped
    <3> QED
      BY <3>1, <3>2, GatewaySendTyped
  <2> QED
    BY <1>7, <2>1, <2>2, <2>3 DEF HandlePuback, Answers
<1>8. CASE BrokerCloses /\ UNCHANGED subscriptionVars
  BY <1>8 DEF BrokerCloses, Answers
<1>9. CASE EraseSubscriber
  <2>1. topics' \in [TopicNames -> 0..MaxTopicID] /\ nextTopicId' \in 0..MaxTopicID
    BY <1>9, GatewayAssumption DEF EraseSubscriber, EraseClient, NoTopics
  <2>2. /\ brokerSendQue' \in Seq(SubscribeRequests) /\ brokerLink' \in Seq(SubscribeRequests)
        /\ sleepQue' \in Seq(BrokerPackets) /\ Len(sleepQue') <= MaxSaved
        /\ stored' \in Seq(BrokerPackets) /\ parked' \in Seq(ParkedPackets)
    BY <1>9, SubscribeGatewayAssumption DEF EraseSubscriber, EraseClient
  <2>3. /\ Len(sleepQue') = 0 /\ Len(stored') = 0 /\ Len(parked') = 0 /\ snMsgId' = 0
        /\ published' = published /\ published \in Nat
    BY <1>9 DEF EraseSubscriber
  <2>4. Accounted'
    BY <2>3
  <2>5. waitedPub' \cup waitedSub' \subseteq [msgID : Word, topicID : Word]
    BY <1>9 DEF EraseSubscriber, EraseClient
  <2>6. /\ published' \in 0..MaxPublishes /\ earlier' \in 0..published'
        /\ acknowledged' \subseteq 1..published' /\ snMsgId' \in Nat
    BY <1>9 DEF EraseSubscriber
  <2>7. /\ known' \in BOOLEAN /\ waitWillMsg' \in BOOLEAN /\ sendingConnect' \in BOOLEAN
        /\ status' \in {"Disconnected", "Connecting", "Active", "Asleep", "Awake"}
        /\ link' \in {"none", "open", "closed"} /\ holdPing' \in BOOLEAN
        /\ brokerSub' \in TopicNames \cup {0}
        /\ toClient' = toClient /\ toGateway' = toGateway
    BY <1>9 DEF EraseSubscriber, EraseClient, netVars
  <2> QED
    BY <2>1, <2>2, <2>4, <2>5, <2>6, <2>7
<1> QED
  BY <1>1, <1>2, <1>3, <1>4, <1>5, <1>6, <1>7, <1>8, <1>9 DEF OtherAnswers

LEMMA SubscribeGatewayTyped ==
    ASSUME TypeOK, SubscribeGatewayStep
    PROVE  DeliveryTyped'
<1>1. ASSUME NEW m \in toGateway, SubscriberPackets(m)
      PROVE  DeliveryTyped'
  BY <1>1, OtherPacketsTyped, ConnectionHandlerTyped, SubscribeHandlerTyped
     DEF SubscriberPackets
<1> DEFINE Handled == \E m \in toGateway : SubscriberPackets(m)
           Sent == (connectSended \/ SendRequest) /\ UNCHANGED subscriptionVars
           Published == \E qos \in BrokerQos : BrokerPublishes(qos)
           Answered == OtherAnswers /\ UNCHANGED subscriptionVars
<1>2. CASE Handled
  BY <1>1, <1>2
<1>3. CASE HandleStored \/ Published
  BY <1>3, DeliveringTyped
<1>4. CASE SendConnectClean \/ Sent
  BY <1>4, BrokerSendTyped
<1>5. CASE \/ BrokerSubscribes \/ HandleSuback \/ HandlePingrespOrSleep \/ BrokerAcknowledged
           \/ Answered \/ EraseSubscriber
  BY <1>5, BrokerRecvTyped
<1>6. \/ Handled \/ HandleStored \/ SendConnectClean \/ Sent \/ BrokerSubscribes
      \/ HandleSuback \/ Published \/ HandlePingrespOrSleep \/ BrokerAcknowledged
      \/ Answered \/ EraseSubscriber
  BY DEF SubscribeGatewayStep
<1> HIDE DEF Handled, Sent, Published, Answered
<1> QED
  BY <1>2, <1>3, <1>4, <1>5, <1>6

LEMMA RestartTyped ==
    ASSUME TypeOK, Restart
    PROVE  TypeOK'
<1>1. PICK will \in WillFlags : toGateway' = {Connect(will)}
  BY DEF Restart
<1>2. toGateway' \subseteq SubscriberMessages
  BY <1>1, ConnectTyped
<1>3. client' \in SubscriberClients /\ event' \in SubscriberEvents
  BY InitialsTyped DEF Restart
<1>4. flags' \in [register : BOOLEAN, publish : BOOLEAN, subscribe : BOOLEAN,
                  sleep : BOOLEAN, sleepReturn : BOOLEAN]
  BY InitialsTyped DEF Restart, TypeOK, SubscriberTypeOK
<1>5. /\ history' \in [read : SUBSET Word, shown : SUBSET Word, lost : SUBSET Word]
      /\ history'.shown \subseteq history'.read
  <2>1. ASSUME NEW m \in PublishesTo(toClient)
        PROVE  m.msgID \in Word
    <3>1. m \in DeliveryMessages /\ m.type = "PUBLISH"
      BY DEF PublishesTo, TypeOK, SubscribeGatewayTypeOK
    <3>2. m.msgID \in 1..MaxPublishes
      BY <3>1 DEF DeliveryMessages
    <3> QED
      BY <3>2, WordsTyped, SubscribeGatewayAssumption
  <2> DEFINE ids == {m.msgID : m \in PublishesTo(toClient)}
  <2>2. ids \subseteq Word
    BY <2>1
  <2>3. history' = [history EXCEPT !.lost = history.lost \cup ids]
    BY DEF Restart
  <2> HIDE DEF ids
  <2> QED
    BY <2>2, <2>3 DEF TypeOK, SubscriberTypeOK
<1>6. retries' \in 0..(MaxRetry + 1) /\ eventID' \in SubscriberStates /\ loopFlag' \in BOOLEAN
  BY MachineAssumption DEF Restart, SubscriberStates
<1>7. due' \subseteq ProgramTimers' /\ program' \in Programs /\ wildcard' \in BOOLEAN
  BY DEF Restart, TypeOK, SubscriberTypeOK
<1>8. SubscribeGatewayTypeOK'
  BY DEF Restart, TypeOK, SubscribeGatewayTypeOK, Accounted, gatewayVars, clientObject,
         brokerVars, subscriptionVars, deliveryVars, brokerSession
<1> QED
  BY <1>2, <1>3, <1>4, <1>5, <1>6, <1>7, <1>8 DEF TypeOK, SubscriberTypeOK

LEMMA TypeStep == TypeOK /\ [Next]_vars => TypeOK'
<1> SUFFICES ASSUME TypeOK, [Next]_vars
             PROVE  TypeOK'
  OBVIOUS
<1>1. CASE (SubscriberStep \/ TimePasses) /\ UNCHANGED <<gatewayVars, subscriptionVars, restarts>>
  <2>1. ProgramTyped'
    BY <1>1, SubscriberTyped
  <2>2. SubscribeGatewayTypeOK'
    BY <1>1, <2>1
       DEF TypeOK, SubscribeGatewayTypeOK, ProgramTyped, Accounted, gatewayVars, clientObject,
           brokerVars, subscriptionVars, deliveryVars, brokerSession
  <2> QED
    BY <2>1, <2>2 DEF TypeOK, ProgramTyped
<1>2. CASE SubscribeGatewayStep /\ UNCHANGED <<subscriberVars, restarts>>
  <2>1. DeliveryTyped'
    BY <1>2, SubscribeGatewayTyped
  <2>2. SubscriberTypeOK'
    BY <1>2, <2>1
       DEF TypeOK, SubscriberTypeOK, DeliveryTyped, subscriberVars, machineVars, ownVars,
           ProgramTimers
  <2> QED
    BY <2>1, <2>2 DEF TypeOK, DeliveryTyped
<1>3. CASE Restart
  BY <1>3, RestartTyped
<1>4. CASE UNCHANGED vars
  <2>1. SubscriberTypeOK'
    BY <1>4 DEF vars, TypeOK, SubscriberTypeOK, subscriberVars, machineVars, ownVars, netVars,
                ProgramTimers
  <2>2. SubscribeGatewayTypeOK'
    BY <1>4 DEF vars, TypeOK, SubscribeGatewayTypeOK, Accounted, netVars, gatewayVars,
                clientObject, brokerVars, subscriptionVars, deliveryVars, brokerSession
  <2> QED
    BY <2>1, <2>2 DEF TypeOK
<1> QED
  BY <1>1, <1>2, <1>3, <1>4 DEF Next

\* Whatever the network does, whoever refuses what and however often the program is killed,
\* every variable holds a value of its type, and the gateway keeps no more PUBLISHes than
\* the broker has sent (the queue of saved ones, those posted as events, those parked).
THEOREM TypeCorrect == Spec => []TypeOK
BY TypeInit, TypeStep, PTL DEF Spec

----------------------------------------------------------------------------
(* AwakeHasReason: no step takes the last reason away and leaves the client Awake. *)

\* The packets on their way to the broker, or with it, that end the waking.
Ending == {r \in Entries(brokerSendQue) \cup Entries(brokerLink) : r.type \in {"PINGREQ", "CONNECT"}}

\* The elements of a queue that has grown at its end, or lost its head.
LEMMA SubscribeEntries ==
    ASSUME NEW queue \in Seq(SubscribeRequests)
    PROVE  /\ \A r \in SubscribeRequests : Entries(Append(queue, r)) = Entries(queue) \cup {r}
           /\ queue # <<>> => /\ Head(queue) \in Entries(queue)
                              /\ Entries(queue) = Entries(Tail(queue)) \cup {Head(queue)}
           /\ \A r \in SubscribeRequests : Entries(<<r>>) = {r}
<1>1. ASSUME NEW r \in SubscribeRequests
      PROVE  Entries(Append(queue, r)) = Entries(queue) \cup {r}
  <2>1. Len(Append(queue, r)) = Len(queue) + 1 /\ Len(queue) \in Nat
    OBVIOUS
  <2>2. \A i \in 1..(Len(queue) + 1) :
           Append(queue, r)[i] = IF i <= Len(queue) THEN queue[i] ELSE r
    OBVIOUS
  <2> QED
    BY <2>1, <2>2 DEF Entries
<1>2. ASSUME queue # <<>>
      PROVE  /\ Head(queue) \in Entries(queue)
             /\ Entries(queue) = Entries(Tail(queue)) \cup {Head(queue)}
  <2>1. Len(queue) \in Nat /\ Len(queue) > 0 /\ Len(Tail(queue)) = Len(queue) - 1
    BY <1>2
  <2>2. Head(queue) = queue[1]
    BY <1>2
  <2>3. \A i \in 1..Len(Tail(queue)) : Tail(queue)[i] = queue[i + 1]
    BY <1>2
  <2>4. \A i \in 1..Len(queue) : i = 1 \/ (i - 1 \in 1..Len(Tail(queue)) /\ queue[i] = Tail(queue)[i - 1])
    BY <2>1, <2>3
  <2>5. \A i \in 1..Len(Tail(queue)) : i + 1 \in 1..Len(queue)
    BY <2>1
  <2>6. 1 \in 1..Len(queue)
    BY <2>1
  <2>7. Head(queue) \in Entries(queue)
    BY <2>2, <2>6 DEF Entries
  <2>8. Entries(queue) \subseteq Entries(Tail(queue)) \cup {Head(queue)}
    BY <2>2, <2>4 DEF Entries
  <2>9. Entries(Tail(queue)) \subseteq Entries(queue)
    BY <2>3, <2>5 DEF Entries
  <2> QED
    BY <2>7, <2>8, <2>9
<1>3. \A r \in SubscribeRequests : Entries(<<r>>) = {r}
  BY DEF Entries
<1> QED
  BY <1>1, <1>2, <1>3

\* The reason stays where the packets stay, or the client is not Awake.
LEMMA ReasonKept ==
    ASSUME AwakeHasReason,
           status' = "Awake" => status = "Awake",
           holdPing => holdPing' \/ Ending' # {},
           Ending \subseteq Ending',
           link = "closed" => link' = "closed"
    PROVE  AwakeHasReason'
BY DEF AwakeHasReason, Ending

\* A packet is added, and none taken.
LEMMA QueuedKept ==
    ASSUME TypeOK, NEW r \in SubscribeRequests, ToBroker(r), UNCHANGED brokerLink
    PROVE  Ending \subseteq Ending' /\ (r.type \in {"PINGREQ", "CONNECT"} => r \in Ending')
<1>1. Entries(brokerSendQue') = Entries(brokerSendQue) \cup {r}
  BY SubscribeEntries DEF ToBroker, TypeOK, SubscribeGatewayTypeOK
<1> QED
  BY <1>1 DEF Ending, ToBroker

\* The broker answers something else than a PINGREQ or a CONNECT.
LEMMA AnsweredKept ==
    ASSUME TypeOK, brokerLink # <<>>, Head(brokerLink).type \notin {"PINGREQ", "CONNECT"},
           brokerLink' = Tail(brokerLink),
           Entries(brokerSendQue) \subseteq Entries(brokerSendQue')
    PROVE  Ending \subseteq Ending'
<1>1. Entries(brokerLink) = Entries(brokerLink') \cup {Head(brokerLink)}
  BY SubscribeEntries DEF TypeOK, SubscribeGatewayTypeOK
<1> QED
  BY <1>1 DEF Ending

LEMMA PacketReason ==
    ASSUME TypeOK, AwakeHasReason, NEW m \in toGateway, SubscriberPackets(m)
    PROVE  AwakeHasReason'
<1> USE DEF clientObject, brokerVars, gatewayVars, deliveryVars, subscriptionVars, netVars
<1>1. CASE \/ HandleConnectResting(m) \/ HandleConnectClean(m)
           \/ HandleDisconnectOrSleep(m) \/ HandleClientAck(m)
  BY <1>1 DEF HandleConnectResting, HandleConnectClean, HandleConnect, disconnected,
              HandleDisconnectOrSleep, Resting, HandleClientAck, AwakeHasReason
<1>2. CASE HandlePingreqOrWake(m)
  <2>1. holdPing' \/ (ToBroker(Request("PINGREQ", 0, 0)) /\ UNCHANGED brokerLink)
    BY <1>2 DEF HandlePingreqOrWake
  <2>2. Request("PINGREQ", 0, 0) \in SubscribeRequests /\ Request("PINGREQ", 0, 0).type = "PINGREQ"
    BY RequestsTyped, WordsTyped DEF Request, SubscribeRequests
  <2> QED
    BY <2>1, <2>2, QueuedKept DEF AwakeHasReason, Ending
<1>3. CASE HandleSubscribe(m)
  <2>1. \/ UNCHANGED brokerSendQue
        \/ \E r \in SubscribeRequests : ToBroker(r)
    <3>1. m.msgID # 0 => m.qos \in 0..2 /\ m.msgID \in Word /\ m.name \in TopicNames
      BY <1>3, SubscribeGatewayAssumption
         DEF TypeOK, SubscriberTypeOK, SubscriberMessages, HandleSubscribe
    <3>2. m.msgID # 0 =>
             [type |-> "SUBSCRIBE", qos |-> m.qos, id |-> m.msgID, name |-> m.name] \in SubscribeRequests
      BY <3>1 DEF SubscribeRequests
    <3> QED
      BY <1>3, <3>2 DEF HandleSubscribe
  <2>2. Ending \subseteq Ending'
    BY <1>3, <2>1, QueuedKept DEF HandleSubscribe, Ending
  <2> QED
    BY <1>3, <2>2, ReasonKept DEF HandleSubscribe
<1>4. CASE HandleIgnoredAck(m)
  BY <1>4 DEF HandleIgnoredAck, AwakeHasReason
<1>5. CASE HandleRegAck(m)
  <2>1. \/ UNCHANGED <<brokerSendQue, holdPing>>
        \/ ToBroker(Request("PINGREQ", 0, 0))
    BY <1>5 DEF HandleRegAck
  <2>2. Request("PINGREQ", 0, 0) \in SubscribeRequests /\ Request("PINGREQ", 0, 0).type = "PINGREQ"
    BY RequestsTyped, WordsTyped DEF Request, SubscribeRequests
  <2>3. UNCHANGED <<status, brokerLink, link>>
    BY <1>5 DEF HandleRegAck
  <2> QED
    BY <2>1, <2>2, <2>3, QueuedKept DEF AwakeHasReason, Ending
<1>6. CASE OtherPackets(m) /\ UNCHANGED subscriptionVars
  <2>1. CASE DiscardUnknown(m) \/ HandleWilltopic(m) \/ HandlePublishInvalidTopic(m) \/ HandleRegister(m)
    BY <1>6, <2>1 DEF DiscardUnknown, HandleWilltopic, HandlePublishInvalidTopic, HandleRegister,
                      AwakeHasReason
  <2>2. CASE HandleWillmsg(m)
    <3>1. UNCHANGED brokerSendQue \/ ToBroker(Request("CONNECT", 0, 0))
      BY <2>2 DEF HandleWillmsg
    <3>2. Request("CONNECT", 0, 0) \in SubscribeRequests
      BY RequestsTyped, WordsTyped DEF Request, SubscribeRequests
    <3>3. UNCHANGED <<status, holdPing, brokerLink, link>>
      BY <1>6, <2>2 DEF HandleWillmsg
    <3> QED
      BY <3>1, <3>2, <3>3, QueuedKept, ReasonKept DEF Ending
  <2>3. CASE HandlePublish(m)
    <3>1. m.qos \in 0..1 /\ m.msgID \in Word
      BY <2>3 DEF HandlePublish, TypeOK, SubscriberTypeOK, SubscriberMessages
    <3>2. Request("PUBLISH", m.qos, m.msgID) \in SubscribeRequests
      BY <3>1 DEF Request, SubscribeRequests
    <3>3. /\ ToBroker(Request("PUBLISH", m.qos, m.msgID))
          /\ UNCHANGED <<status, holdPing, brokerLink, link>>
      BY <1>6, <2>3 DEF HandlePublish
    <3> QED
      BY <3>2, <3>3, QueuedKept, ReasonKept
  <2> QED
    BY <1>6, <2>1, <2>2, <2>3 DEF OtherPackets
<1> QED
  BY <1>1, <1>2, <1>3, <1>4, <1>5, <1>6 DEF SubscriberPackets

LEMMA GatewayReason ==
    ASSUME TypeOK, AwakeHasReason, SubscribeGatewayStep
    PROVE  AwakeHasReason'
<1> USE DEF clientObject, brokerVars, gatewayVars, deliveryVars, subscriptionVars, netVars
<1> DEFINE Handled == \E m \in toGateway : SubscriberPackets(m)
           Delivered == HandleStored \/ \E qos \in BrokerQos : BrokerPublishes(qos)
           Answered == OtherAnswers /\ UNCHANGED subscriptionVars
<1>1. CASE Handled
  BY <1>1, PacketReason
<1>2. CASE Delivered
  <2>1. PICK p \in BrokerPackets : DeliverPublish(p)
    <3>1. CASE HandleStored
      BY <3>1 DEF HandleStored, TypeOK, SubscribeGatewayTypeOK
    <3>2. ASSUME NEW qos \in BrokerQos, BrokerPublishes(qos)
          PROVE  \E p \in BrokerPackets : DeliverPublish(p)
      <4> DEFINE p == [qos |-> qos, id |-> published + 1,
                       name |-> IF brokerSub = Filter THEN Topic1 ELSE brokerSub]
      <4>1. p \in BrokerPackets
        BY <3>2, SubscribeGatewayAssumption
           DEF BrokerPublishes, BrokerPackets, TypeOK, SubscribeGatewayTypeOK
      <4>2. DeliverPublish(p)
        BY <3>2 DEF BrokerPublishes
      <4> QED
        BY <4>1, <4>2
    <3> QED
      BY <1>2, <3>1, <3>2
  <2>2. p.id \in Word
    BY WordsTyped, SubscribeGatewayAssumption DEF BrokerPackets
  <2>3. \A type \in {"PUBACK", "PUBREC"} : Request(type, 0, p.id) \in SubscribeRequests
    BY <2>2 DEF Request, SubscribeRequests
  <2>4. UNCHANGED brokerSendQue \/ ReplyACK(p)
    BY <2>1 DEF DeliverPublish, PublishIgnored, PublishSaved, PublishForwarded,
                PublishCancelled, PublishParked
  <2>5. UNCHANGED <<status, holdPing, brokerLink, link>>
    BY <2>1 DEF DeliverPublish
  <2>6. Ending \subseteq Ending'
    BY <2>3, <2>4, <2>5, QueuedKept DEF ReplyACK, Ending
  <2> QED
    BY <2>5, <2>6, ReasonKept
<1>3. CASE SendConnectClean
  <2>1. /\ brokerSendQue # <<>> /\ Head(brokerSendQue).type = "CONNECT"
        /\ brokerLink' = <<Head(brokerSendQue)>>
    BY <1>3 DEF SendConnectClean, SendConnect
  <2>2. Entries(brokerLink') = {Head(brokerSendQue)}
    BY <2>1, QueuesTyped, SubscribeEntries DEF TypeOK, SubscribeGatewayTypeOK
  <2> QED
    BY <2>1, <2>2 DEF AwakeHasReason
<1>4. CASE (connectSended \/ SendRequest) /\ UNCHANGED subscriptionVars
  <2>1. CASE connectSended
    BY <2>1 DEF connectSended, AwakeHasReason
  <2>2. CASE SendRequest /\ link # "open"
    BY <2>2 DEF SendRequest, AwakeHasReason
  <2>3. CASE SendRequest /\ link = "open"
    <3>1. /\ brokerSendQue # <<>> /\ brokerSendQue' = Tail(brokerSendQue)
          /\ brokerLink' = Append(brokerLink, Head(brokerSendQue))
          /\ UNCHANGED <<status, holdPing, link>>
      BY <1>4, <2>3 DEF SendRequest
    <3>2. Entries(brokerSendQue) = Entries(brokerSendQue') \cup {Head(brokerSendQue)}
      BY <3>1, SubscribeEntries DEF TypeOK, SubscribeGatewayTypeOK
    <3>3. Entries(brokerLink') = Entries(brokerLink) \cup {Head(brokerSendQue)}
      BY <3>1, QueuesTyped, SubscribeEntries DEF TypeOK, SubscribeGatewayTypeOK
    <3>4. Ending' = Ending
      BY <3>2, <3>3 DEF Ending
    <3> QED
      BY <3>1, <3>4, ReasonKept
  <2> QED
    BY <1>4, <2>1, <2>2, <2>3
<1>5. CASE BrokerSubscribes
  BY <1>5 DEF BrokerSubscribes, AwakeHasReason
<1>6. CASE HandleSuback
  <2>1. /\ brokerLink # <<>> /\ Head(brokerLink).type = "SUBSCRIBE"
        /\ brokerLink' = Tail(brokerLink)
        /\ UNCHANGED <<status, holdPing, link, brokerSendQue>>
    BY <1>6 DEF HandleSuback
  <2> QED
    BY <2>1, AnsweredKept, ReasonKept
<1>7. CASE HandlePingrespOrSleep
  BY <1>7 DEF HandlePingrespOrSleep, Resting, AwakeHasReason
<1>8. CASE BrokerAcknowledged
  <2>1. /\ brokerLink # <<>> /\ Head(brokerLink).type \in {"PUBACK", "PUBCOMP", "PUBREC"}
        /\ brokerLink' = Tail(brokerLink)
        /\ UNCHANGED <<status, holdPing, link>>
        /\ UNCHANGED brokerSendQue \/ ToBroker(Request("PUBCOMP", 0, Head(brokerLink).id))
    BY <1>8 DEF BrokerAcknowledged
  <2>2. Request("PUBCOMP", 0, Head(brokerLink).id) \in SubscribeRequests
    BY <2>1, AnsweredTyped DEF Request, SubscribeRequests
  <2> DEFINE answer == Request("PUBCOMP", 0, Head(brokerLink).id)
  <2>3. Entries(brokerSendQue) \subseteq Entries(brokerSendQue')
    <3>1. CASE ToBroker(answer)
      <4>1. brokerSendQue \in Seq(SubscribeRequests) /\ answer \in SubscribeRequests
        BY <2>2 DEF TypeOK, SubscribeGatewayTypeOK
      <4>2. brokerSendQue' = Append(brokerSendQue, answer)
        BY <3>1 DEF ToBroker
      <4> HIDE DEF answer
      <4> QED
        BY <4>1, <4>2, SubscribeEntries
    <3> QED
      BY <2>1, <3>1
  <2> QED
    BY <2>1, <2>3, AnsweredKept, ReasonKept
<1>9. CASE Answered
  <2>1. CASE ConnackAccepted \/ ConnackRefused \/ BrokerCloses
    BY <2>1 DEF ConnackAccepted, ConnackRefused, BrokerCloses, disconnected, AwakeHasReason
  <2>2. CASE HandlePuback
    <3>1. /\ brokerLink # <<>> /\ Head(brokerLink).type = "PUBLISH"
          /\ brokerLink' = Tail(brokerLink)
          /\ UNCHANGED <<status, holdPing, link, brokerSendQue>>
      BY <1>9, <2>2 DEF HandlePuback, Answers
    <3> QED
      BY <3>1, AnsweredKept, ReasonKept
  <2> QED
    BY <1>9, <2>1, <2>2 DEF OtherAnswers
<1>10. CASE EraseSubscriber
  BY <1>10 DEF EraseSubscriber, EraseClient, disconnected, AwakeHasReason
<1>11. \/ Handled \/ Delivered \/ SendConnectClean \/ BrokerSubscribes \/ HandleSuback
       \/ (connectSended \/ SendRequest) /\ UNCHANGED subscriptionVars
       \/ HandlePingrespOrSleep \/ BrokerAcknowledged \/ Answered \/ EraseSubscriber
  BY DEF SubscribeGatewayStep
<1> HIDE DEF Handled, Delivered, Answered
<1> QED
  BY <1>1, <1>2, <1>3, <1>4, <1>5, <1>6, <1>7, <1>8, <1>9, <1>10, <1>11

\* However messages are lost, doubled or late, and however often the program is killed, a
\* client that MQTTSNConnectionHandler has woken does not stay Awake for nothing.
THEOREM AwakeAlwaysHasReason == Spec => []AwakeHasReason
<1>1. Init => AwakeHasReason
  BY DEF Init, SubscribeGatewayInit, GatewayInit, AwakeHasReason
<1>2. TypeOK /\ AwakeHasReason /\ [Next]_vars => AwakeHasReason'
  <2> SUFFICES ASSUME TypeOK, AwakeHasReason, [Next]_vars
               PROVE  AwakeHasReason'
    OBVIOUS
  <2>1. CASE SubscribeGatewayStep
    BY <2>1, GatewayReason
  <2>2. CASE UNCHANGED <<gatewayVars, subscriptionVars>>
    BY <2>2 DEF gatewayVars, clientObject, brokerVars, subscriptionVars, deliveryVars, AwakeHasReason
  <2>3. SubscribeGatewayStep \/ UNCHANGED <<gatewayVars, subscriptionVars>>
    BY DEF Next, Restart, vars
  <2> QED
    BY <2>1, <2>2, <2>3
<1> QED
  BY <1>1, <1>2, TypeCorrect, PTL DEF Spec


----------------------------------------------------------------------------
(* The program's steps. *)

\* What a turn of the program may put into the air.
MaySend(m) ==
    \/ m.type = "DISCONNECT" /\ eventID' = "Q_DISCONNECTED"
    \/ m.type = "DISCONNECT" /\ m.duration # 0 /\ flags.sleep /\ eventID = "Q_CONNECTED"
    \/ m.type \in {"WILLTOPIC", "WILLMSG"} /\ eventID \in Joining
    \/ /\ flags.subscribe /\ ~flags'.subscribe
       /\ m = Subscribe(WantedQos, event.send_msgID, WantedName)
    \/ m.type \in {"REGISTER", "PUBLISH", "REGACK", "PINGREQ", "PUBCOMP"}
    \/ SendPuback /\ m = PubAck(event.topicID, event.msgID, "accepted")
    \/ m.type = "PUBACK" /\ m.rc = "rejected"
    \/ \E n \in toClient : /\ TakePublishQos2(n) /\ Reads(n) /\ Reading(n)
                           /\ m = Ack("PUBREC", Result(n).event.msgID)

\* What every turn of the program leaves: nothing comes into the air but that, a program
\* that has been accepted, or has left, does not join again.
Turned ==
    /\ toClient' \subseteq toClient
    /\ \A m \in toGateway' : m \in toGateway \/ MaySend(m)
    /\ eventID \notin Joining => eventID' \notin Joining
    /\ eventID = "Q_DISCONNECTED" => eventID' = "Q_DISCONNECTED"

LEMMA QuitSends ==
    ASSUME Quit
    PROVE  /\ eventID' = "Q_DISCONNECTED"
           /\ \A m \in toGateway' : m \in toGateway \/ m.type = "DISCONNECT"
BY SendAdds DEF Quit, Disconnect

LEMMA SendOrQuitSends ==
    ASSUME NEW m, NEW next, SendOrQuit(m, next)
    PROVE  /\ eventID' \in {next, "Q_DISCONNECTED"}
           /\ \A a \in toGateway' :
                 \/ a \in toGateway
                 \/ a = m /\ eventID' = next
                 \/ a.type = "DISCONNECT" /\ eventID' = "Q_DISCONNECTED"
BY QuitSends, SendAdds DEF SendOrQuit, ClientSends

\* The turn of the program, by the group of states it is taken in.
LEMMA Turns ==
    ASSUME SubscriberStep
    PROVE  \/ Connecting \/ AskedForWill \/ Connected \/ Receiving \/ AskingTopic \/ Pinging
           \/ Publishing \/ Sleeping \/ Closing
BY DEF SubscriberStep,
   SubscribeV2Connecting, SubscribeV2Will, SubscribeV2Connected, SubscribeV2Receiving,
   SubscribeV2Subscribing, SubscribeV2Pinging,
   PubSubV2Connecting, PubSubV2Will, PubSubV2Connected, PubSubV2Receiving,
   PubSubV2Publishing, PubSubV2AskingTopic, PubSubV2Pinging,
   SleepV2Connecting, SleepV2Will, SleepV2Connected, SleepV2Receiving,
   SleepV2Subscribing, SleepV2Sleeping

LEMMA TurnedStep ==
    ASSUME TypeOK, SubscriberStep \/ TimePasses
    PROVE  Turned
<1> USE DEF Joining
<1>1. ASSUME NEW m \in toClient, Reads(m) \/ ReadsAndAdvances(m)
      PROVE  toClient' \subseteq toClient
  BY <1>1, ReceiveAdds DEF Reads, ReadsAndAdvances, ClientReceives
<1>2. CASE TimePasses
  BY <1>2 DEF TimePasses, Tick, netVars, Turned
<1>3. CASE Connecting
  <2>1. CASE ConnectingNoMsg
    BY <2>1 DEF ConnectingNoMsg, netVars, Turned
  <2>2. ASSUME NEW m \in toClient, ConnectingRead(m)
        PROVE  Turned
    BY <1>1, <2>2, SendOrQuitSends DEF ConnectingRead, WillTopic, Turned, MaySend
  <2> QED
    BY <1>3, <2>1, <2>2 DEF Connecting
<1>4. CASE AskedForWill
  <2>1. CASE WillNoMsg
    BY <2>1, QuitSends DEF WillNoMsg, Turned, MaySend
  <2>2. ASSUME NEW m \in toClient, WillTopReqRead(m)
        PROVE  Turned
    BY <1>1, <2>2, QuitSends, SendOrQuitSends DEF WillTopReqRead, WillMsg, Turned, MaySend
  <2>3. ASSUME NEW m \in toClient, WillMsgReqRead(m)
        PROVE  Turned
    BY <1>1, <2>3, QuitSends DEF WillMsgReqRead, Turned, MaySend
  <2> QED
    BY <1>4, <2>1, <2>2, <2>3 DEF AskedForWill
<1>5. CASE Connected
  <2> USE DEF Turned, MaySend, NotReading
  <2>1. CASE SendRegister
    BY <1>5, <2>1, SendOrQuitSends DEF SendRegister, Register, Connected
  <2>2. CASE SendPublish
    BY <1>5, <2>2, SendOrQuitSends DEF SendPublish, Publish, Connected
  <2>3. CASE SendSubscribe
    <3>1. \A m \in toGateway' : m \in toGateway
                 \/ m = Subscribe(WantedQos, event.send_msgID, WantedName)
      BY <2>3, SendAdds DEF SendSubscribe, ClientSends
    <3>2. flags' = [flags EXCEPT !.subscribe = FALSE] => ~flags'.subscribe
      BY DEF TypeOK, SubscriberTypeOK
    <3>3. eventID' = "Q_DISCONNECTED" => toGateway' = toGateway \/ ~flags'.subscribe
      BY <2>3, <3>2 DEF SendSubscribe
    <3> QED
      BY <1>5, <2>3, <3>1, <3>2, <3>3 DEF SendSubscribe, Connected
  <2>4. CASE SendPing
    BY <1>5, <2>4, SendAdds DEF SendPing, ClientSends, PingReq, Connected
  <2>5. CASE AnnounceSleep
    <3>1. \A m \in toGateway' : m \in toGateway \/ m = Disconnect(SleepTimeout)
      BY <2>5, SendAdds DEF AnnounceSleep, ClientSends
    <3>2. Disconnect(SleepTimeout).type = "DISCONNECT" /\ Disconnect(SleepTimeout).duration # 0
      BY DEF Disconnect, SleepTimeout
    <3> QED
      BY <1>5, <2>5, <3>1, <3>2 DEF AnnounceSleep, Connected
  <2>6. CASE FallAsleep
    BY <1>5, <2>6 DEF FallAsleep, Connected
  <2>7. ASSUME NEW m \in toClient, ReadConnected(m)
        PROVE  Turned
    <3>1. toClient' \subseteq toClient
      BY <1>1, <2>7 DEF ReadConnected
    <3>2. CASE TakePublishQos1(m) \/ TakePingResp(m) \/ Forget(m)
      BY <1>5, <3>1, <3>2 DEF TakePublishQos1, TakePingResp, Forget, Connected
    <3>3. CASE TakePublishQos2(m)
      BY <1>5, <2>7, <3>1, <3>3, SendAdds DEF TakePublishQos2, ReadConnected, ClientSends, Connected
    <3>4. CASE RejectPublish(m)
      BY <1>5, <3>1, <3>4, SendAdds DEF RejectPublish, ClientSends, PubAck, Connected
    <3>5. CASE AnswerRegister(m)
      BY <1>5, <3>1, <3>5, SendOrQuitSends DEF AnswerRegister, RegAck, Connected
    <3> QED
      BY <2>7, <3>2, <3>3, <3>4, <3>5 DEF ReadConnected
  <2> QED
    BY <1>5, <2>1, <2>2, <2>3, <2>4, <2>5, <2>6, <2>7 DEF Connected
<1>6. CASE Receiving
  <2> USE DEF Turned, MaySend, NotReading
  <2>1. CASE SendPuback
    BY <2>1, SendAdds DEF SendPuback, ClientSends
  <2>2. CASE ReleaseNoMsg
    BY <2>2 DEF ReleaseNoMsg
  <2>3. ASSUME NEW m \in toClient, ReadRelease(m)
        PROVE  Turned
    BY <1>1, <2>3, SendAdds DEF ReadRelease, ReleaseUnexpected, Release, ClientSends, Ack
  <2> QED
    BY <1>6, <2>1, <2>2, <2>3 DEF Receiving
<1>7. CASE AskingTopic
  BY <1>1, <1>7 DEF AskingTopic, JoiningNoMsg, NotReading, RegisteringRead, SubscribingRead, Turned
<1>8. CASE Pinging
  <2>1. CASE PingRetry
    BY <2>1, SendOrQuitSends DEF PingRetry, PingReq, Turned, MaySend
  <2> QED
    BY <1>1, <1>8, <2>1 DEF Pinging, PingGiveUp, PingAnswered, PingUnexpected, netVars, Turned
<1>9. CASE Publishing
  BY <1>1, <1>9 DEF Publishing, PublishNoMsg, PublishAcked, PublishUnexpected, netVars, Turned
<1>10. CASE Sleeping
  <2>1. CASE DisconnectingNoMsg
    BY <2>1 DEF DisconnectingNoMsg, NotReading, Turned
  <2>2. CASE WakeUp
    BY <2>2, SendAdds DEF WakeUp, ClientSends, PingReq, Turned, MaySend
  <2>3. ASSUME NEW m \in toClient, DisconnectingRead(m)
        PROVE  Turned
    BY <1>1, <2>3 DEF DisconnectingRead, Turned
  <2> QED
    BY <1>10, <2>1, <2>2, <2>3 DEF Sleeping
<1>11. CASE Closing
  BY <1>11 DEF Closing, Close, netVars, Turned
<1> QED
  BY <1>2, <1>3, <1>4, <1>5, <1>6, <1>7, <1>8, <1>9, <1>10, <1>11, Turns

\* A turn reads one datagram or none, and only readMsg writes the Client_t.
LEMMA ReadOnce ==
    ASSUME SubscriberStep \/ TimePasses
    PROVE  \/ UNCHANGED client
           \/ \E m \in toClient : ClientReceives(m) /\ client' = Result(m).client
<1> DEFINE Goal == \/ UNCHANGED client
                   \/ \E m \in toClient : ClientReceives(m) /\ client' = Result(m).client
<1>1. ASSUME NEW m \in toClient, Reads(m) \/ ReadsAndAdvances(m)
      PROVE  Goal
  BY <1>1 DEF Reads, ReadsAndAdvances
<1>2. CASE TimePasses
  BY <1>2 DEF TimePasses, Tick
<1>3. CASE Connecting
  BY <1>1, <1>3 DEF Connecting, ConnectingNoMsg, ConnectingRead
<1>4. CASE AskedForWill
  BY <1>1, <1>4 DEF AskedForWill, WillNoMsg, WillTopReqRead, WillMsgReqRead
<1>5. CASE Connected
  BY <1>1, <1>5 DEF Connected, SendRegister, SendPublish, SendSubscribe, SendPing, AnnounceSleep,
                    FallAsleep, NotReading, ReadConnected
<1>6. CASE Receiving
  BY <1>1, <1>6 DEF Receiving, SendPuback, ReleaseNoMsg, NotReading, ReadRelease
<1>7. CASE AskingTopic
  BY <1>1, <1>7 DEF AskingTopic, JoiningNoMsg, NotReading, RegisteringRead, SubscribingRead
<1>8. CASE Pinging
  BY <1>1, <1>8 DEF Pinging, PingRetry, PingGiveUp, PingAnswered, PingUnexpected
<1>9. CASE Publishing
  BY <1>1, <1>9 DEF Publishing, PublishNoMsg, PublishAcked, PublishUnexpected
<1>10. CASE Sleeping
  BY <1>1, <1>10 DEF Sleeping, DisconnectingNoMsg, NotReading, WakeUp, DisconnectingRead
<1>11. CASE Closing
  BY <1>11 DEF Closing, Close
<1> QED
  BY <1>2, <1>3, <1>4, <1>5, <1>6, <1>7, <1>8, <1>9, <1>10, <1>11, Turns

\* Only a SUBACK adds a topic id to sub_topicID, its own.
LEMMA OnlySubAckSubscribes ==
    ASSUME TypeOK, SubscriberStep \/ TimePasses,
           client'.sub_topicID # client.sub_topicID
    PROVE  \E m \in Granted :
              /\ toClient' \in AfterReceive(toClient, m)
              /\ m.topicID # 0
              /\ client'.sub_topicID = Append(client.sub_topicID, m.topicID)
<1>1. PICK m \in toClient : ClientReceives(m) /\ client' = Result(m).client
  BY ReadOnce
<1>2. client \in SubscriberClients
  BY DEF TypeOK, SubscriberTypeOK
<1>3. ASSUME m.type # "SUBACK"
      PROVE  Result(m).client.sub_topicID = client.sub_topicID
  BY <1>2, <1>3 DEF Result, readMsg, readConnack, readReg, readRegAck, readPubAck, readRecRelComp,
                    readPub, Outcome, SubscriberClients
<1>4. m.type = "SUBACK"
  BY <1>1, <1>3
<1>5. Result(m).client = readSubAck(m, client, event).client
  BY <1>4 DEF Result, readMsg
<1>6. \/ Result(m).client = client
      \/ Result(m).client = [client EXCEPT !.wildcard_Sub = TRUE]
      \/ m.topicID # 0
         /\ Result(m).client = [client EXCEPT !.sub_topicID = Append(client.sub_topicID, m.topicID)]
  BY <1>5 DEF readSubAck, Outcome
<1>7. /\ m.topicID # 0
      /\ client'.sub_topicID = Append(client.sub_topicID, m.topicID)
  BY <1>1, <1>2, <1>6 DEF SubscriberClients
<1> QED
  BY <1>1, <1>4, <1>7 DEF Granted, ClientReceives

\* The program's choice and its flags.  A flag for sleeping is raised by MQTTSN_SleepV2.c
\* only and then stays raised, or makes way for the other; sleeping needs one.
Flagged ==
    /\ UNCHANGED <<program, wildcard>>
    /\ flags'.subscribe => flags.subscribe
    /\ flags.subscribe /\ ~flags'.subscribe => UNCHANGED <<client, toClient>>
    /\ eventID \in Joining => UNCHANGED flags
    /\ MaySleep' => MaySleep \/ program = "SleepV2"
    /\ MaySleep => MaySleep' \/ program # "SleepV2"
    /\ eventID' \in {"Q_DISCONNECTING", "Q_SLEEP"} =>
          MaySleep' \/ eventID \in {"Q_DISCONNECTING", "Q_SLEEP"}

LEMMA FlaggedStep ==
    ASSUME TypeOK, SubscriberStep \/ TimePasses
    PROVE  Flagged
<1> USE DEF MaySleep
<1>1. ASSUME UNCHANGED <<program, wildcard, flags>>,
             eventID' \in {"Q_DISCONNECTING", "Q_SLEEP"} =>
                MaySleep \/ eventID \in {"Q_DISCONNECTING", "Q_SLEEP"}
      PROVE  Flagged
  BY <1>1 DEF Flagged
<1>2. flags \in [register : BOOLEAN, publish : BOOLEAN, subscribe : BOOLEAN,
                 sleep : BOOLEAN, sleepReturn : BOOLEAN]
  BY DEF TypeOK, SubscriberTypeOK
<1>3. ASSUME NEW m, NEW next, SendOrQuit(m, next),
             next \notin {"Q_DISCONNECTING", "Q_SLEEP"}
      PROVE  eventID' \notin {"Q_DISCONNECTING", "Q_SLEEP"}
  BY <1>3, SendOrQuitSends
<1>4. CASE TimePasses
  BY <1>1, <1>4 DEF TimePasses, Tick, ownVars
<1>5. CASE Connecting
  <2>1. UNCHANGED <<program, wildcard, flags>>
    BY <1>5 DEF Connecting, ownVars, Reading
  <2>2. eventID' \notin {"Q_DISCONNECTING", "Q_SLEEP"}
    BY <1>3, <1>5 DEF Connecting, ConnectingNoMsg, ConnectingRead
  <2> QED
    BY <1>1, <2>1, <2>2
<1>6. CASE AskedForWill
  <2>1. UNCHANGED <<program, wildcard, flags>>
    BY <1>6 DEF AskedForWill, ownVars, Reading
  <2>2. eventID' \notin {"Q_DISCONNECTING", "Q_SLEEP"}
    BY <1>3, <1>6, QuitSends DEF AskedForWill, WillNoMsg, WillTopReqRead, WillMsgReqRead
  <2> QED
    BY <1>1, <2>1, <2>2
<1>7. CASE Connected
  <2>1. CASE SendSubscribe
    <3>1. /\ UNCHANGED <<program, wildcard, client, toClient>> /\ flags.subscribe
          /\ eventID' \in {"Q_SUBSCRIBING", "Q_DISCONNECTED"}
          /\ flags' \in {flags, [flags EXCEPT !.subscribe = FALSE]}
      BY <2>1 DEF SendSubscribe
    <3>2. MaySleep' = MaySleep
      BY <1>2, <3>1
    <3> QED
      BY <1>2, <1>7, <3>1, <3>2 DEF Flagged, Connected, Joining
  <2>2. CASE \/ SendRegister \/ SendPublish \/ SendPing \/ AnnounceSleep \/ FallAsleep
    <3>1. UNCHANGED <<program, wildcard, flags>>
      BY <2>2 DEF SendRegister, SendPublish, SendPing, AnnounceSleep, FallAsleep, NotReading, ownVars
    <3>2. eventID' \in {"Q_DISCONNECTING", "Q_SLEEP"} => MaySleep
      BY <1>3, <2>2 DEF SendRegister, SendPublish, SendPing, AnnounceSleep, FallAsleep
    <3> QED
      BY <1>1, <3>1, <3>2
  <2>3. ASSUME NEW m \in toClient, ReadConnected(m)
        PROVE  Flagged
    <3>1. UNCHANGED <<program, wildcard, flags>>
      BY <2>3 DEF ReadConnected, Reading
    <3>2. eventID' \in {"Q_DISCONNECTING", "Q_SLEEP"} => MaySleep
      BY <1>3, <1>7, <2>3
         DEF Connected, ReadConnected, TakePublishQos1, TakePublishQos2, RejectPublish,
             AnswerRegister, TakePingResp, Forget
    <3> QED
      BY <1>1, <3>1, <3>2
  <2> QED
    BY <1>7, <2>1, <2>2, <2>3 DEF Connected
<1>8. CASE Receiving
  <2>1. UNCHANGED <<program, wildcard, flags>>
    BY <1>8 DEF Receiving, SendPuback, ReleaseNoMsg, ReadRelease, NotReading, ownVars, Reading
  <2>2. eventID' \notin {"Q_DISCONNECTING", "Q_SLEEP"}
    BY <1>8 DEF Receiving, SendPuback, ReleaseNoMsg, ReadRelease, Release, ReleaseUnexpected
  <2> QED
    BY <1>1, <2>1, <2>2
<1>9. CASE AskingTopic
  <2>1. CASE JoiningNoMsg
    BY <1>1, <2>1 DEF JoiningNoMsg, NotReading, ownVars
  <2>2. ASSUME NEW m \in toClient, RegisteringRead(m)
        PROVE  Flagged
    <3>1. flags' = [flags EXCEPT !.register = FALSE, !.publish = TRUE]
      BY <2>2 DEF RegisteringRead
    <3>2. /\ flags'.subscribe = flags.subscribe
          /\ flags'.sleep = flags.sleep /\ flags'.sleepReturn = flags.sleepReturn
      BY <1>2, <3>1
    <3> QED
      BY <2>2, <3>2 DEF RegisteringRead, Flagged, Joining
  <2>3. ASSUME NEW m \in toClient, SubscribingRead(m)
        PROVE  Flagged
    <3>1. flags' = [flags EXCEPT !.sleep = (program = "SleepV2")]
      BY <2>3 DEF SubscribingRead
    <3>2. /\ flags'.subscribe = flags.subscribe
          /\ flags'.sleep = (program = "SleepV2") /\ flags'.sleepReturn = flags.sleepReturn
      BY <1>2, <3>1
    <3> QED
      BY <1>2, <2>3, <3>2 DEF SubscribingRead, Flagged, Joining
  <2> QED
    BY <1>9, <2>1, <2>2, <2>3 DEF AskingTopic
<1>10. CASE Pinging
  <2>1. UNCHANGED <<program, wildcard, flags>>
    BY <1>10 DEF Pinging, ownVars, Reading
  <2>2. eventID' \notin {"Q_DISCONNECTING", "Q_SLEEP"}
    BY <1>3, <1>10 DEF Pinging, PingRetry, PingGiveUp, PingAnswered, PingUnexpected
  <2> QED
    BY <1>1, <2>1, <2>2
<1>11. CASE Publishing
  <2>1. UNCHANGED <<program, wildcard, flags>>
    BY <1>11 DEF Publishing, ownVars, Reading
  <2>2. eventID' \notin {"Q_DISCONNECTING", "Q_SLEEP"}
    BY <1>11 DEF Publishing, PublishNoMsg, PublishAcked, PublishUnexpected
  <2> QED
    BY <1>1, <2>1, <2>2
<1>12. CASE Sleeping
  <2>1. CASE DisconnectingNoMsg
    BY <1>1, <2>1 DEF DisconnectingNoMsg, NotReading, ownVars
  <2>2. CASE WakeUp
    <3>1. flags' = [flags EXCEPT !.sleep = FALSE, !.sleepReturn = flags.sleep \/ flags.sleepReturn]
      BY <2>2 DEF WakeUp
    <3>2. /\ flags'.subscribe = flags.subscribe
          /\ flags'.sleep = FALSE /\ flags'.sleepReturn = (flags.sleep \/ flags.sleepReturn)
      BY <1>2, <3>1
    <3> QED
      BY <1>2, <2>2, <3>2 DEF WakeUp, Flagged, Joining
  <2>3. ASSUME NEW m \in toClient, DisconnectingRead(m)
        PROVE  Flagged
    BY <1>1, <2>3 DEF DisconnectingRead, Reading
  <2> QED
    BY <1>12, <2>1, <2>2, <2>3 DEF Sleeping
<1>13. CASE Closing
  BY <1>1, <1>13 DEF Closing, Close, ownVars
<1> QED
  BY <1>4, <1>5, <1>6, <1>7, <1>8, <1>9, <1>10, <1>11, <1>12, <1>13, Turns

----------------------------------------------------------------------------
(* JoinsClean and NoOtherSession: the program's steps. *)

\* A turn of a program that has not been accepted: it waits, gives up, or takes the one
\* message there is and leaves at most one of its own.
LEMMA JoiningTurn ==
    ASSUME TypeOK, HandshakeAlone, Duplicated \cap Handshake = {}, eventID \in Joining,
           SubscriberStep \/ TimePasses
    PROVE  /\ eventID' \in Joining =>
                 \/ UNCHANGED netVars
                 \/ /\ toClient # {} /\ toClient' = {} /\ toGateway = {}
                    /\ \E a : toGateway' \subseteq {a} /\ a.type \in Handshake
           /\ eventID' \in Joining \cup {"Q_CONNECTED", "Q_DISCONNECTED"}
           /\ eventID' = "Q_CONNECTED" =>
                 /\ ConnAck("accepted") \in toClient /\ toClient' = {}
                 /\ toGateway' = {} /\ brokerSendQue = <<>> /\ brokerLink = <<>>
<1> DEFINE Goal == /\ eventID' \in Joining =>
                         \/ UNCHANGED netVars
                         \/ /\ toClient # {} /\ toClient' = {} /\ toGateway = {}
                            /\ \E a : toGateway' \subseteq {a} /\ a.type \in Handshake
                   /\ eventID' \in Joining \cup {"Q_CONNECTED", "Q_DISCONNECTED"}
                   /\ eventID' = "Q_CONNECTED" =>
                         /\ ConnAck("accepted") \in toClient /\ toClient' = {}
                         /\ toGateway' = {} /\ brokerSendQue = <<>> /\ brokerLink = <<>>
<1>1. ASSUME NEW m \in toClient, Reads(m)
      PROVE  /\ toClient' = {} /\ toGateway = {} /\ brokerSendQue = <<>> /\ brokerLink = <<>>
             /\ Result(m).rc = "Q_ConnackRead" => m = ConnAck("accepted")
  <2>1. m.type \in Handshake /\ toClient = {m}
        /\ toGateway = {} /\ brokerSendQue = <<>> /\ brokerLink = <<>>
    BY DEF HandshakeAlone
  <2>2. m.type \notin Duplicated
    BY <2>1
  <2>3. toClient' = {}
    BY <1>1, <2>1, <2>2 DEF Reads, ClientReceives, AfterReceive
  <2>4. ASSUME Result(m).rc = "Q_ConnackRead"
        PROVE  m = ConnAck("accepted")
    <3>1. m \in DeliveryMessages
      BY DEF TypeOK, SubscribeGatewayTypeOK
    <3>2. m.type = "CONNACK"
      BY <2>1, <2>4, <3>1 DEF Handshake, DeliveryMessages, Result, readMsg, Outcome
    <3>3. m.rc = "accepted"
      BY <2>4, <3>2 DEF Result, readMsg, readConnack, Outcome
    <3> QED
      BY <3>1, <3>2, <3>3 DEF DeliveryMessages, ConnAck
  <2> QED
    BY <2>1, <2>3, <2>4
<1>2. ASSUME NEW m, NEW next, SendOrQuit(m, next), toGateway = {}
      PROVE  \/ eventID' = next /\ toGateway' \subseteq {m}
             \/ eventID' = "Q_DISCONNECTED"
  BY <1>2, SendAdds DEF SendOrQuit, Quit, ClientSends
<1>3. WillTopic.type \in Handshake /\ WillMsg.type \in Handshake
  BY DEF WillTopic, WillMsg, Handshake
<1> USE DEF Joining
<1>4. CASE ConnectingNoMsg \/ WillNoMsg
  BY <1>4 DEF ConnectingNoMsg, WillNoMsg, Quit
<1>5. CASE TimePasses
  BY <1>5 DEF TimePasses, Tick
<1>6. ASSUME NEW m \in toClient, ConnectingRead(m)
      PROVE  Goal
  <2>1. /\ toClient' = {} /\ toGateway = {} /\ brokerSendQue = <<>> /\ brokerLink = <<>>
        /\ Result(m).rc = "Q_ConnackRead" => m = ConnAck("accepted")
    BY <1>1, <1>6 DEF ConnectingRead
  <2>2. CASE Result(m).rc = "Q_ConnackRead"
    <3>1. eventID' = "Q_CONNECTED" /\ toGateway' = toGateway
      BY <1>6, <2>2 DEF ConnectingRead
    <3> QED
      BY <1>6, <2>1, <2>2, <3>1
  <2>3. CASE Result(m).rc = "Q_WillTopReq"
    <3>1. SendOrQuit(WillTopic, "Q_WILL_TOP_REQ")
      BY <1>6, <2>3 DEF ConnectingRead
    <3> QED
      BY <1>2, <1>3, <1>6, <2>1, <3>1
  <2>4. CASE Result(m).rc \notin {"Q_ConnackRead", "Q_WillTopReq"}
    BY <1>6, <2>4 DEF ConnectingRead
  <2> QED
    BY <2>2, <2>3, <2>4
<1>7. ASSUME NEW m \in toClient, WillTopReqRead(m)
      PROVE  Goal
  <2>1. /\ toClient' = {} /\ toGateway = {} /\ brokerSendQue = <<>> /\ brokerLink = <<>>
    BY <1>1, <1>7 DEF WillTopReqRead
  <2>2. SendOrQuit(WillMsg, "Q_WILL_MSG_REQ") \/ eventID' = "Q_DISCONNECTED"
    BY <1>7 DEF WillTopReqRead, Quit
  <2> QED
    BY <1>2, <1>3, <1>7, <2>1, <2>2
<1>8. ASSUME NEW m \in toClient, WillMsgReqRead(m)
      PROVE  Goal
  <2>1. /\ toClient' = {} /\ toGateway = {} /\ brokerSendQue = <<>> /\ brokerLink = <<>>
        /\ Result(m).rc = "Q_ConnackRead" => m = ConnAck("accepted")
    BY <1>1, <1>8 DEF WillMsgReqRead
  <2>2. \/ eventID' = "Q_DISCONNECTED"
        \/ /\ Result(m).rc = "Q_ConnackRead"
           /\ eventID' = "Q_CONNECTED" /\ toGateway' = toGateway
    BY <1>8 DEF WillMsgReqRead, Quit
  <2> QED
    BY <1>8, <2>1, <2>2
<1>9. ~Connected /\ ~Closing
  BY DEF Connected, Closing, Close
<1>10. ~Receiving /\ ~AskingTopic /\ ~Sleeping
  BY DEF Receiving, SendPuback, ReleaseNoMsg, ReadRelease, AskingTopic, JoiningNoMsg,
         RegisteringRead, SubscribingRead, Sleeping, DisconnectingNoMsg, WakeUp, DisconnectingRead
<1>11. ~Pinging /\ ~Publishing
  BY DEF Pinging, PingRetry, PingGiveUp, PingAnswered, PingUnexpected, Publishing, PublishNoMsg,
         PublishAcked, PublishUnexpected
<1>12. CASE Connecting
  BY <1>4, <1>6, <1>12 DEF Connecting
<1>13. CASE AskedForWill
  BY <1>4, <1>7, <1>8, <1>13 DEF AskedForWill
<1> QED
  BY <1>5, <1>9, <1>10, <1>11, <1>12, <1>13, Turns

\* While the program joins, what it reads is no SUBACK.
LEMMA JoiningSubscribesNothing ==
    ASSUME TypeOK, HandshakeAlone, SubscriberStep \/ TimePasses
    PROVE  client'.sub_topicID = client.sub_topicID
<1>1. Granted = {}
  BY DEF Granted, HandshakeAlone, Handshake
<1> QED
  BY <1>1, OnlySubAckSubscribes

LEMMA JoinsCleanTurn ==
    ASSUME TypeOK, JoinsClean, Duplicated \cap Handshake = {},
           SubscriberStep \/ TimePasses, UNCHANGED <<gatewayVars, subscriptionVars>>
    PROVE  JoinsClean'
<1> SUFFICES ASSUME eventID' \in Joining
             PROVE  JoinsClean'
  BY DEF JoinsClean
<1>1. eventID \in Joining
  BY TurnedStep DEF Turned
<1>2. /\ HandshakeAlone /\ flags.subscribe /\ client.sub_topicID = <<>>
      /\ waitedSub = {} /\ brokerSub = 0 /\ ~Resting /\ sleepQue = <<>> /\ stored = <<>>
  BY <1>1 DEF JoinsClean
<1>3. UNCHANGED <<known, status, link, brokerSendQue, brokerLink, waitedSub, brokerSub,
                  sleepQue, stored>>
  BY DEF gatewayVars, clientObject, brokerVars, subscriptionVars, deliveryVars, brokerSession
<1>4. flags' = flags /\ client'.sub_topicID = client.sub_topicID
  BY <1>1, <1>2, FlaggedStep, JoiningSubscribesNothing DEF Flagged
<1>5. HandshakeAlone'
  <2>1. CASE UNCHANGED netVars
    BY <1>2, <1>3, <2>1 DEF HandshakeAlone, netVars
  <2>2. CASE /\ toClient # {} /\ toClient' = {} /\ toGateway = {}
             /\ \E a : toGateway' \subseteq {a} /\ a.type \in Handshake
    <3>1. brokerSendQue = <<>> /\ brokerLink = <<>>
      BY <1>2, <2>2 DEF HandshakeAlone
    <3> QED
      BY <1>3, <2>2, <3>1 DEF HandshakeAlone
  <2> QED
    BY <1>1, <1>2, <2>1, <2>2, JoiningTurn
<1> QED
  BY <1>2, <1>3, <1>4, <1>5 DEF JoinsClean, Resting

\* A program in a session has been in it before the turn, or comes from the handshake with
\* nothing under way.
LEMMA SessionTurn ==
    ASSUME TypeOK, JoinsClean, Duplicated \cap Handshake = {},
           SubscriberStep \/ TimePasses, InSession'
    PROVE  \/ InSession
           \/ /\ eventID \in Joining
              /\ toClient' = {} /\ toGateway' = {} /\ brokerSendQue = <<>> /\ brokerLink = <<>>
              /\ known /\ link = "open"
              /\ flags' = flags /\ client'.sub_topicID = client.sub_topicID
              /\ eventID' = "Q_CONNECTED"
<1>1. CASE eventID \in Joining
  <2>1. HandshakeAlone
    BY <1>1 DEF JoinsClean
  <2>2. eventID' = "Q_CONNECTED"
    BY <1>1, <2>1, JoiningTurn DEF InSession
  <2>3. /\ ConnAck("accepted") \in toClient /\ toClient' = {}
        /\ toGateway' = {} /\ brokerSendQue = <<>> /\ brokerLink = <<>>
    BY <1>1, <2>1, <2>2, JoiningTurn
  <2> QED
    BY <1>1, <2>1, <2>2, <2>3, FlaggedStep, JoiningSubscribesNothing DEF HandshakeAlone, Flagged
<1>2. CASE eventID \notin Joining
  BY <1>2, TurnedStep DEF Turned, InSession
<1> QED
  BY <1>1, <1>2

LEMMA NoOtherTurn ==
    ASSUME TypeOK, JoinsClean, NoOtherSession, Duplicated \cap Handshake = {},
           SubscriberStep \/ TimePasses, UNCHANGED <<gatewayVars, subscriptionVars>>
    PROVE  NoOtherSession'
<1> SUFFICES ASSUME InSession'
             PROVE  NoOtherSession'
  BY DEF NoOtherSession
<1>1. UNCHANGED <<known, link, brokerSendQue, brokerLink>>
  BY DEF gatewayVars, clientObject, brokerVars
<1>2. CASE InSession
  <2>1. eventID' # "Q_DISCONNECTED" /\ eventID \notin Joining
    BY <1>2 DEF InSession
  <2>2. \A m \in toGateway' :
           \/ m \in toGateway
           \/ /\ m.type \notin {"CONNECT", "WILLTOPIC", "WILLMSG"}
              /\ m.type = "DISCONNECT" => m.duration # 0
    BY <2>1, TurnedStep DEF Turned, MaySend, Subscribe, PubAck, Ack
  <2> QED
    BY <1>1, <1>2, <2>2 DEF NoOtherSession
<1>3. CASE ~InSession
  BY <1>1, <1>3, SessionTurn DEF NoOtherSession, Entries
<1> QED
  BY <1>2, <1>3

----------------------------------------------------------------------------
(* JoinsClean: the gateway's steps. *)

LEMMA ConnectRequestFields ==
    ConnectRequest.type = "CONNECT" /\ ConnectRequest \in SubscribeRequests
BY RequestsTyped DEF ConnectRequest, Request

\* What the handler of a message takes from the channel.
LEMMA PacketTaken ==
    ASSUME NEW m \in toGateway, SubscriberPackets(m)
    PROVE  GatewayReceives(m)
BY DEF SubscriberPackets, OtherPackets, DiscardUnknown, HandleConnectResting, HandleConnectClean,
       HandleConnect, HandleWilltopic, HandleWillmsg, HandleDisconnectOrSleep,
       HandlePingreqOrWake, HandleSubscribe, HandleClientAck, HandleIgnoredAck, HandleRegAck,
       HandleRegister, HandlePublishInvalidTopic, HandlePublish, FromClient

\* The gateway puts nothing into the channel it reads.
LEMMA GatewayReads ==
    ASSUME SubscribeGatewayStep
    PROVE  toGateway' \subseteq toGateway
<1>1. ASSUME NEW m \in toGateway, SubscriberPackets(m)
      PROVE  toGateway' \subseteq toGateway
  BY <1>1, PacketTaken, ReceiveAdds DEF GatewayReceives
<1>2. CASE \A m \in toGateway : ~SubscriberPackets(m)
  BY <1>2 DEF SubscribeGatewayStep, HandleStored, BrokerPublishes, DeliverPublish,
     SendConnectClean, SendConnect, connectSended, SendRequest, BrokerSubscribes, HandleSuback,
     HandlePingrespOrSleep, Answers, BrokerAcknowledged, OtherAnswers, ConnackAccepted,
     ConnackRefused, HandlePuback, BrokerCloses, EraseSubscriber, EraseClient, netVars
<1> QED
  BY <1>1, <1>2

\* While the program joins, what the gateway holds for it stays empty.
LEMMA JoiningKept ==
    ASSUME TypeOK, HandshakeAlone, waitedSub = {}, brokerSub = 0,
           ~Resting, sleepQue = <<>>, stored = <<>>, SubscribeGatewayStep
    PROVE  /\ waitedSub' = {} /\ brokerSub' = 0
           /\ ~Resting' /\ sleepQue' = <<>> /\ stored' = <<>>
<1> DEFINE Handled == \E m \in toGateway : SubscriberPackets(m)
           Kept == /\ waitedSub' = {} /\ brokerSub' = 0
                   /\ ~Resting' /\ sleepQue' = <<>> /\ stored' = <<>>
           Answered == OtherAnswers /\ UNCHANGED subscriptionVars
           Sent == (connectSended \/ SendRequest) /\ UNCHANGED subscriptionVars
<1> USE DEF Resting, subscriptionVars, deliveryVars, brokerSession, clientObject, brokerVars,
            gatewayVars
<1>1. brokerLink # <<>> => Head(brokerLink).type = "CONNECT"
  BY ConnectRequestFields DEF HandshakeAlone
<1>2. ASSUME NEW m \in toGateway, SubscriberPackets(m)
      PROVE  Kept
  <2>1. m.type \in Handshake
    BY DEF HandshakeAlone
  <2>2. HandleConnectClean(m) \/ (OtherPackets(m) /\ UNCHANGED subscriptionVars)
    BY <1>2, <2>1 DEF SubscriberPackets, Handshake, HandleConnectResting, HandleDisconnectOrSleep,
                      HandlePingreqOrWake, HandleSubscribe, HandleClientAck, HandleIgnoredAck,
                      HandleRegAck
  <2>3. CASE HandleConnectClean(m)
    BY <2>3 DEF HandleConnectClean, HandleConnect, disconnected
  <2>4. CASE OtherPackets(m) /\ UNCHANGED subscriptionVars
    <3>1. status' = status
      BY <2>4 DEF OtherPackets, DiscardUnknown, HandleWilltopic, HandleWillmsg, HandleRegister,
                  HandlePublishInvalidTopic, HandlePublish
    <3> QED
      BY <2>4, <3>1
  <2> QED
    BY <2>2, <2>3, <2>4
<1>3. CASE SendConnectClean
  BY <1>3 DEF SendConnectClean, SendConnect
<1>4. CASE Sent
  BY <1>4 DEF connectSended, SendRequest
<1>5. CASE Answered
  <2>1. status' \in {status, "Active", "Disconnected"}
    BY <1>5 DEF OtherAnswers, ConnackAccepted, ConnackRefused, HandlePuback, BrokerCloses,
                disconnected
  <2> QED
    BY <1>5, <2>1
<1>6. CASE EraseSubscriber
  BY <1>6 DEF EraseSubscriber, EraseClient, disconnected
<1>7. ~HandleStored /\ ~BrokerSubscribes /\ ~HandleSuback /\ ~HandlePingrespOrSleep
      /\ ~BrokerAcknowledged /\ \A qos \in BrokerQos : ~BrokerPublishes(qos)
  BY <1>1 DEF HandleStored, BrokerSubscribes, HandleSuback, HandlePingrespOrSleep, Answers,
              BrokerAcknowledged, BrokerPublishes
<1>8. Handled \/ SendConnectClean \/ Sent \/ Answered \/ EraseSubscriber
  BY <1>7 DEF SubscribeGatewayStep
<1> HIDE DEF Sent, Answered
<1> QED
  BY <1>2, <1>3, <1>4, <1>5, <1>6, <1>8

\* The message of the handshake is answered, or makes way for the CONNECT to the broker and
\* that for its CONNACK.
LEMMA HandshakeKept ==
    ASSUME TypeOK, HandshakeAlone, brokerSub = 0, ~Resting, stored = <<>>,
           Duplicated \cap Handshake = {}, SubscribeGatewayStep
    PROVE  HandshakeAlone'
<1> DEFINE Sent == (connectSended \/ SendRequest) /\ UNCHANGED subscriptionVars
           Handled == \E m \in toGateway : SubscriberPackets(m)
           Answered == OtherAnswers /\ UNCHANGED subscriptionVars
<1> USE DEF clientObject, brokerVars
\* At most one answer, in an otherwise empty network.
<1>1. ASSUME toGateway' = {}, brokerSendQue' = <<>>, brokerLink' = <<>>,
             NEW a, toClient' \subseteq {a}, a.type \in Handshake,
             a = ConnAck("accepted") => known' /\ link' = "open"
      PROVE  HandshakeAlone'
  BY <1>1 DEF HandshakeAlone
<1>2. ASSUME NEW m \in toGateway, SubscriberPackets(m)
      PROVE  HandshakeAlone'
  <2>1. /\ m.type \in Handshake
        /\ toGateway = {m} /\ toClient = {} /\ brokerSendQue = <<>> /\ brokerLink = <<>>
    BY DEF HandshakeAlone
  <2>2. toGateway' = {}
    BY <1>2, <2>1, PacketTaken DEF GatewayReceives, AfterReceive
  <2>3. ASSUME NEW a, GatewaySends(a)
        PROVE  toClient' \subseteq {a}
    BY <2>1, <2>3, SendAdds DEF GatewaySends
  <2>4. ASSUME ToBroker(ConnectRequest)
        PROVE  brokerSendQue' = <<ConnectRequest>>
    BY <2>1, <2>4 DEF ToBroker
  <2>5. CASE DiscardUnknown(m)
    BY <2>1, <2>2, <2>5 DEF DiscardUnknown, gatewayVars, HandshakeAlone
  <2>6. CASE HandleConnect(m)
    <3>1. CASE ~m.will
      <4>1. /\ brokerSendQue' = <<ConnectRequest>> /\ toClient' = {}
            /\ brokerLink' = <<>> /\ known'
        BY <2>1, <2>4, <2>6, <3>1 DEF HandleConnect, ConnectRequest
      <4> QED
        BY <2>2, <4>1 DEF HandshakeAlone
    <3>2. CASE m.will
      <4>1. brokerSendQue' = <<>> /\ toClient' \subseteq {WillTopicReq} /\ brokerLink' = <<>>
        BY <2>1, <2>3, <2>6, <3>2 DEF HandleConnect
      <4>2. WillTopicReq.type \in Handshake /\ WillTopicReq # ConnAck("accepted")
        BY DEF WillTopicReq, ConnAck, Handshake
      <4> QED
        BY <1>1, <2>2, <4>1, <4>2
    <3> QED
      BY <3>1, <3>2
  <2>7. CASE HandleWilltopic(m)
    <3>1. brokerSendQue' = <<>> /\ toClient' \subseteq {WillMsgReq} /\ brokerLink' = <<>>
      BY <2>1, <2>3, <2>7 DEF HandleWilltopic
    <3>2. WillMsgReq.type \in Handshake /\ WillMsgReq # ConnAck("accepted")
      BY DEF WillMsgReq, ConnAck, Handshake
    <3> QED
      BY <1>1, <2>2, <3>1, <3>2
  <2>8. CASE HandleWillmsg(m)
    <3>1. /\ brokerSendQue' \in {<<>>, <<ConnectRequest>>} /\ toClient' = {}
          /\ brokerLink' = <<>> /\ known'
      BY <2>1, <2>4, <2>8 DEF HandleWillmsg, FromClient, ConnectRequest
    <3> QED
      BY <2>2, <3>1 DEF HandshakeAlone
  <2>9. /\ ~HandleDisconnectOrSleep(m) /\ ~HandlePingreqOrWake(m) /\ ~HandleSubscribe(m)
        /\ ~HandleClientAck(m) /\ ~HandleIgnoredAck(m) /\ ~HandleRegAck(m)
        /\ ~HandleRegister(m) /\ ~HandlePublishInvalidTopic(m) /\ ~HandlePublish(m)
        /\ ~HandleConnectResting(m)
    BY <2>1 DEF Handshake, HandleDisconnectOrSleep, HandlePingreqOrWake, HandleSubscribe,
                HandleClientAck, HandleIgnoredAck, HandleRegAck, HandleRegister,
                HandlePublishInvalidTopic, HandlePublish, HandleConnectResting
  <2> QED
    BY <1>2, <2>5, <2>6, <2>7, <2>8, <2>9 DEF SubscriberPackets, OtherPackets, HandleConnectClean
<1>3. ASSUME brokerSendQue # <<>>
      PROVE  /\ known /\ brokerSendQue = <<ConnectRequest>> /\ brokerLink = <<>>
             /\ toGateway = {} /\ toClient = {}
             /\ Head(brokerSendQue) = ConnectRequest /\ Tail(brokerSendQue) = <<>>
             /\ Head(brokerSendQue).type = "CONNECT"
  <2>1. known /\ brokerSendQue = <<ConnectRequest>> /\ brokerLink = <<>>
    BY <1>3 DEF HandshakeAlone
  <2>2. toGateway = {} /\ toClient = {}
    BY <1>3 DEF HandshakeAlone
  <2> QED
    BY <2>1, <2>2, ConnectRequestFields
<1>4. ASSUME brokerLink # <<>>
      PROVE  /\ known /\ link = "open" /\ brokerLink = <<ConnectRequest>>
             /\ brokerSendQue = <<>> /\ toGateway = {} /\ toClient = {}
             /\ Tail(brokerLink) = <<>> /\ Head(brokerLink).type = "CONNECT"
  <2>1. /\ known /\ link = "open" /\ brokerLink = <<ConnectRequest>> /\ brokerSendQue = <<>>
    BY <1>4 DEF HandshakeAlone
  <2>2. toGateway = {} /\ toClient = {}
    BY <1>4 DEF HandshakeAlone
  <2> QED
    BY <2>1, <2>2, ConnectRequestFields
<1>5. CASE SendConnectClean
  <2>1. SendConnect
    BY <1>5 DEF SendConnectClean
  <2>2. /\ toGateway' = {} /\ toClient' = {} /\ brokerSendQue' = <<>>
        /\ brokerLink' = <<ConnectRequest>> /\ known' /\ link' = "open"
    BY <1>3, <2>1 DEF SendConnect, netVars
  <2> QED
    BY <2>2 DEF HandshakeAlone
<1>6. CASE Sent
  <2>1. ~SendRequest
    BY <1>3 DEF SendRequest
  <2> QED
    BY <1>6, <2>1 DEF connectSended, netVars, HandshakeAlone
<1>7. CASE Answered
  <2>1. CASE ConnackAccepted
    <3>1. /\ brokerLink # <<>> /\ brokerLink' = Tail(brokerLink)
          /\ toClient' \subseteq toClient \cup {ConnAck("accepted")}
          /\ UNCHANGED <<brokerSendQue, toGateway, known, link>>
      BY <2>1, SendAdds DEF ConnackAccepted, Answers, GatewaySends
    <3>2. ConnAck("accepted").type \in Handshake
      BY DEF ConnAck, Handshake
    <3> QED
      BY <1>1, <1>4, <3>1, <3>2
  <2>2. CASE ConnackRefused
    <3>1. /\ brokerLink # <<>> /\ brokerLink' = <<>>
          /\ toClient' \subseteq toClient \cup {ConnAck("rejected")}
          /\ UNCHANGED <<brokerSendQue, toGateway>>
      BY <2>2, SendAdds DEF ConnackRefused, Answers, GatewaySends
    <3>2. ConnAck("rejected").type \in Handshake /\ ConnAck("rejected") # ConnAck("accepted")
      BY DEF ConnAck, Handshake
    <3> QED
      BY <1>1, <1>4, <3>1, <3>2
  <2>3. ~HandlePuback /\ ~BrokerCloses
    BY <1>4 DEF HandlePuback, BrokerCloses, Answers
  <2> QED
    BY <1>7, <2>1, <2>2, <2>3 DEF OtherAnswers
<1>8. CASE EraseSubscriber
  <2>1. link = "closed" /\ brokerSendQue' = <<>> /\ brokerLink' = brokerLink /\ UNCHANGED netVars
    BY <1>8 DEF EraseSubscriber, EraseClient
  <2>2. brokerLink = <<>>
    BY <1>4, <2>1
  <2>3. ConnAck("accepted") \notin toClient
    BY <2>1 DEF HandshakeAlone
  <2> QED
    BY <2>1, <2>2, <2>3 DEF HandshakeAlone, netVars
<1>9. ~HandleStored /\ ~BrokerSubscribes /\ ~HandleSuback /\ ~HandlePingrespOrSleep
      /\ ~BrokerAcknowledged /\ \A qos \in BrokerQos : ~BrokerPublishes(qos)
  BY <1>4 DEF HandleStored, BrokerSubscribes, HandleSuback, HandlePingrespOrSleep, Answers,
              BrokerAcknowledged, BrokerPublishes
<1>10. Handled \/ SendConnectClean \/ Sent \/ Answered \/ EraseSubscriber
  BY <1>9 DEF SubscribeGatewayStep
<1> HIDE DEF Sent, Answered
<1> QED
  BY <1>2, <1>5, <1>6, <1>7, <1>8, <1>10

LEMMA JoinsCleanGateway ==
    ASSUME TypeOK, JoinsClean, Duplicated \cap Handshake = {},
           SubscribeGatewayStep, UNCHANGED subscriberVars
    PROVE  JoinsClean'
<1> SUFFICES ASSUME eventID \in Joining, UNCHANGED <<eventID, flags, client>>
             PROVE  JoinsClean'
  BY DEF JoinsClean, subscriberVars, machineVars, ownVars
<1>1. /\ HandshakeAlone /\ flags.subscribe /\ client.sub_topicID = <<>>
      /\ waitedSub = {} /\ brokerSub = 0 /\ ~Resting /\ sleepQue = <<>> /\ stored = <<>>
  BY DEF JoinsClean
<1> QED
  BY <1>1, HandshakeKept, JoiningKept DEF JoinsClean

----------------------------------------------------------------------------
(* What a step of the gateway does in a session. *)

\* What a handler may queue for the broker, and for which reason: an answer to a PUBLISH is
\* the client's, unless it may sleep, or has no topic id for what it subscribed to.
MayQueue(r) ==
    \/ r.type \in {"PINGREQ", "PUBLISH", "PUBCOMP"}
    \/ /\ r.type = "SUBSCRIBE"
       /\ \E m \in Asked : HandleSubscribe(m) /\ m.msgID # 0 /\ m.name = r.name
    \/ /\ r.type \in {"PUBACK", "PUBREC"}
       /\ \E m \in toGateway :
             /\ m.type = "PUBREC" \/ (m.type = "PUBACK" /\ m.rc = "accepted")
             /\ m.msgID = r.id
    \/ /\ r.type \in {"PUBACK", "PUBREC"}
       /\ status = "Asleep" \/ stored # <<>> \/ (brokerSub # 0 /\ topics[brokerSub] = 0)

\* The queues: left as they are, one packet longer, the oldest sent on, or answered.
QueuesPass ==
    \/ UNCHANGED <<brokerSendQue, brokerLink>>
    \/ \E r \in SubscribeRequests :
          /\ MayQueue(r)
          /\ brokerSendQue' = Append(brokerSendQue, r)
          /\ UNCHANGED brokerLink
    \/ /\ brokerSendQue # <<>>
       /\ brokerSendQue' = Tail(brokerSendQue)
       /\ brokerLink' = Append(brokerLink, Head(brokerSendQue))
    \/ /\ brokerLink # <<>>
       /\ brokerLink' = Tail(brokerLink)
       /\ \/ UNCHANGED brokerSendQue
          \/ \E r \in SubscribeRequests :
                r.type = "PUBCOMP" /\ brokerSendQue' = Append(brokerSendQue, r)

\* Only three steps are about the subscription.
SubscriptionPasses ==
    \/ UNCHANGED <<waitedSub, brokerSub>> /\ Granted' \subseteq Granted
    \/ \E m \in Asked : HandleSubscribe(m)
    \/ BrokerSubscribes
    \/ HandleSuback

TopicsKept == \A name \in TopicNames : topics[name] # 0 => topics'[name] = topics[name]

Passed ==
    /\ known' /\ link' = "open"
    /\ toGateway' \subseteq toGateway
    /\ TopicsKept
    /\ QueuesPass
    /\ SubscriptionPasses

LEMMA AddTopicKeeps ==
    ASSUME TypeOK, NEW name \in TopicNames, AddTopic(name)
    PROVE  TopicsKept /\ topics'[name] # 0
<1>1. topics \in [TopicNames -> 0..MaxTopicID] /\ nextTopicId \in 0..MaxTopicID
  BY DEF TypeOK, SubscribeGatewayTypeOK
<1>2. CASE topics[name] # 0
  BY <1>2 DEF AddTopic, TopicsKept
<1>3. CASE topics[name] = 0
  <2>1. nextTopicId' = nextTopicId + 1 /\ topics' = [topics EXCEPT ![name] = nextTopicId']
    BY <1>3 DEF AddTopic
  <2>2. nextTopicId' # 0
    BY <1>1, <2>1
  <2> QED
    BY <1>1, <1>3, <2>1, <2>2 DEF TopicsKept
<1> QED
  BY <1>2, <1>3

LEMMA GrantsNothing ==
    ASSUME NEW m, m.type # "SUBACK", GatewaySends(m)
    PROVE  Granted' \subseteq Granted
BY SendAdds DEF GatewaySends, Granted

\* A PUBLISH of the broker, of this session or saved.
LEMMA DeliverPassed ==
    ASSUME TypeOK, known, link = "open", NEW p \in BrokerPackets, DeliverPublish(p),
           \/ stored # <<>>
           \/ brokerSub # 0 /\ p.name = IF brokerSub = Filter THEN Topic1 ELSE brokerSub
    PROVE  Passed
<1>1. UNCHANGED <<known, link, brokerLink, toGateway, waitedSub, brokerSub>>
  BY DEF DeliverPublish
<1>2. p.name \in TopicNames /\ p.id \in Word
  BY WordsTyped, SubscribeGatewayAssumption DEF BrokerPackets
<1>3. TopicsKept
  BY <1>2, AddTopicKeeps DEF DeliverPublish, PublishIgnored, PublishSaved, PublishForwarded,
                             PublishCancelled, PublishParked, TopicsKept
<1>4. Granted' \subseteq Granted
  BY GrantsNothing DEF DeliverPublish, PublishIgnored, PublishSaved, PublishForwarded,
                       PublishCancelled, PublishParked, Publish, Register, Granted
<1>5. QueuesPass
  <2> DEFINE reply == Request(IF p.qos = 1 THEN "PUBACK" ELSE "PUBREC", 0, p.id)
  <2>1. reply \in SubscribeRequests /\ reply.type \in {"PUBACK", "PUBREC"}
    BY <1>2, RequestsTyped DEF Request
  <2>2. \/ UNCHANGED brokerSendQue
        \/ /\ brokerSendQue' = Append(brokerSendQue, reply)
           /\ status = "Asleep" \/ (topics[p.name] = 0 /\ ~MatchesFilter(p.name))
    BY DEF DeliverPublish, PublishIgnored, PublishSaved, PublishForwarded, PublishCancelled,
           PublishParked, ReplyACK, ToBroker
  <2>3. /\ topics[p.name] = 0 /\ ~MatchesFilter(p.name)
        /\ brokerSub # 0 /\ p.name = IF brokerSub = Filter THEN Topic1 ELSE brokerSub
        => topics[brokerSub] = 0
    BY DEF MatchesFilter
  <2> HIDE DEF reply
  <2> QED
    BY <1>1, <2>1, <2>2, <2>3 DEF QueuesPass, MayQueue
<1> QED
  BY <1>1, <1>3, <1>4, <1>5 DEF Passed, SubscriptionPasses

LEMMA PacketPassed ==
    ASSUME TypeOK, InSession, NoOtherSession, NEW m \in toGateway, SubscriberPackets(m)
    PROVE  Passed
<1> USE DEF clientObject, brokerVars, gatewayVars, deliveryVars, subscriptionVars, netVars,
            brokerSession
<1>1. /\ known /\ link = "open"
      /\ m.type \notin {"CONNECT", "WILLTOPIC", "WILLMSG"}
      /\ m.type = "DISCONNECT" => m.duration # 0
  BY DEF NoOtherSession
<1>2. m \in SubscriberMessages /\ toGateway' \subseteq toGateway
  BY PacketTaken, ReceiveAdds DEF GatewayReceives, TypeOK, SubscriberTypeOK
<1>3. ASSUME UNCHANGED <<known, link, brokerLink, waitedSub, brokerSub>>, TopicsKept,
             Granted' \subseteq Granted, NEW r \in SubscribeRequests,
             UNCHANGED brokerSendQue \/ (MayQueue(r) /\ ToBroker(r))
      PROVE  Passed
  BY <1>1, <1>2, <1>3 DEF Passed, QueuesPass, SubscriptionPasses, ToBroker
<1>4. /\ Request("PINGREQ", 0, 0) \in SubscribeRequests
      /\ Request("PINGREQ", 0, 0).type = "PINGREQ" /\ MayQueue(Request("PINGREQ", 0, 0))
  BY RequestsTyped DEF Request, MayQueue
<1>5. UNCHANGED toClient => Granted' \subseteq Granted
  BY DEF Granted
<1>6. UNCHANGED topics => TopicsKept
  BY DEF TopicsKept
<1>7. CASE HandleDisconnectOrSleep(m)
  <2>1. UNCHANGED <<known, link, brokerLink, waitedSub, brokerSub, brokerSendQue, topics>>
    BY <1>1, <1>7 DEF HandleDisconnectOrSleep
  <2>2. Granted' \subseteq Granted
    BY <1>7, GrantsNothing DEF HandleDisconnectOrSleep, Disconnect
  <2> QED
    BY <1>3, <1>4, <1>6, <2>1, <2>2
<1>8. CASE HandlePingreqOrWake(m)
  <2>1. /\ UNCHANGED <<known, link, brokerLink, waitedSub, brokerSub, topics, toClient>>
        /\ UNCHANGED brokerSendQue \/ ToBroker(Request("PINGREQ", 0, 0))
    BY <1>8 DEF HandlePingreqOrWake
  <2> QED
    BY <1>3, <1>4, <1>5, <1>6, <2>1
<1>9. CASE HandleSubscribe(m)
  <2>1. m \in Asked /\ m.name \in TopicNames /\ m.msgID \in Word /\ m.qos \in 0..2
    BY <1>2, <1>9, SubscribeGatewayAssumption DEF HandleSubscribe, Asked, SubscriberMessages
  <2> DEFINE r == [type |-> "SUBSCRIBE", qos |-> m.qos, id |-> m.msgID, name |-> m.name]
  <2>2. r \in SubscribeRequests /\ r.type = "SUBSCRIBE" /\ r.name = m.name
    BY <2>1 DEF SubscribeRequests
  <2>3. /\ UNCHANGED <<known, link, brokerLink>>
        /\ UNCHANGED brokerSendQue \/ (m.msgID # 0 /\ brokerSendQue' = Append(brokerSendQue, r))
        /\ UNCHANGED topics \/ AddTopic(m.name)
    BY <1>9 DEF HandleSubscribe, ToBroker
  <2> HIDE DEF r
  <2>4. m.msgID # 0 => MayQueue(r)
    BY <1>9, <2>1, <2>2 DEF MayQueue
  <2>5. QueuesPass
    BY <2>2, <2>3, <2>4 DEF QueuesPass
  <2>6. TopicsKept
    BY <1>6, <2>1, <2>3, AddTopicKeeps
  <2>7. SubscriptionPasses
    BY <1>9, <2>1 DEF SubscriptionPasses
  <2> QED
    BY <1>1, <1>2, <2>3, <2>5, <2>6, <2>7 DEF Passed
<1>10. CASE HandleClientAck(m)
  <2> DEFINE r == Request(m.type, 0, m.msgID)
  <2>1. /\ UNCHANGED <<known, link, brokerLink, waitedSub, brokerSub, topics, toClient>>
        /\ ToBroker(r) /\ m.type \in {"PUBACK", "PUBREC", "PUBCOMP"}
        /\ m.type = "PUBACK" => m.rc = "accepted"
    BY <1>10 DEF HandleClientAck
  <2>2. m.msgID \in Word
    BY <1>2, <2>1 DEF SubscriberMessages
  <2>3. r \in SubscribeRequests /\ r.type = m.type /\ r.id = m.msgID
    BY <2>1, <2>2, RequestsTyped DEF Request
  <2> HIDE DEF r
  <2>4. MayQueue(r)
    BY <2>1, <2>3 DEF MayQueue
  <2> QED
    BY <1>3, <1>5, <1>6, <2>1, <2>3, <2>4
<1>11. CASE HandleIgnoredAck(m)
  BY <1>3, <1>4, <1>5, <1>6, <1>11 DEF HandleIgnoredAck
<1>12. CASE HandleRegAck(m)
  <2>1. Granted' \subseteq Granted
    <3>1. \A i \in 1..Len(parked) : parked[i].publish.type # "SUBACK"
      <4>1. parked \in Seq(ParkedPackets)
        BY DEF TypeOK, SubscribeGatewayTypeOK
      <4>2. \A i \in 1..Len(parked) : parked[i] \in ParkedPackets
        BY <4>1
      <4>3. \A w \in ParkedPackets : w.publish.type = "PUBLISH"
        BY DEF ParkedPackets
      <4> QED
        BY <4>2, <4>3
    <3>2. \/ UNCHANGED toClient
          \/ \E i \in 1..Len(parked) : GatewaySends(parked[i].publish)
      BY <1>12 DEF HandleRegAck, SendParked
    <3> QED
      BY <1>5, <3>1, <3>2, GrantsNothing
  <2>2. /\ UNCHANGED <<known, link, brokerLink, waitedSub, brokerSub, topics>>
        /\ UNCHANGED brokerSendQue \/ ToBroker(Request("PINGREQ", 0, 0))
    BY <1>12 DEF HandleRegAck
  <2> QED
    BY <1>3, <1>4, <1>6, <2>1, <2>2
<1>13. CASE OtherPackets(m) /\ UNCHANGED subscriptionVars
  <2>1. CASE HandleRegister(m)
    <3>1. m.name \in TopicNames
      BY <1>2, <2>1, SubscribeGatewayAssumption DEF HandleRegister, SubscriberMessages
    <3>2. TopicsKept
      BY <2>1, <3>1, AddTopicKeeps DEF HandleRegister
    <3>3. Granted' \subseteq Granted
      BY <2>1, GrantsNothing DEF HandleRegister, RegAck
    <3>4. UNCHANGED <<known, link, brokerLink, waitedSub, brokerSub, brokerSendQue>>
      BY <1>13, <2>1 DEF HandleRegister
    <3> QED
      BY <1>3, <1>4, <3>2, <3>3, <3>4
  <2>2. CASE HandlePublishInvalidTopic(m)
    <3>1. Granted' \subseteq Granted
      BY <2>2, GrantsNothing DEF HandlePublishInvalidTopic, PubAck
    <3>2. UNCHANGED <<known, link, brokerLink, waitedSub, brokerSub, brokerSendQue, topics>>
      BY <1>13, <2>2 DEF HandlePublishInvalidTopic
    <3> QED
      BY <1>3, <1>4, <1>6, <3>1, <3>2
  <2>3. CASE HandlePublish(m)
    <3> DEFINE r == Request("PUBLISH", m.qos, m.msgID)
    <3>1. m.qos = 1 /\ m.msgID \in Word
      BY <1>2, <2>3 DEF HandlePublish, SubscriberMessages
    <3>2. r \in SubscribeRequests /\ r.type = "PUBLISH"
      BY <3>1, RequestsTyped DEF Request
    <3>3. /\ ToBroker(r)
          /\ UNCHANGED <<known, link, brokerLink, waitedSub, brokerSub, topics, toClient>>
      BY <1>13, <2>3 DEF HandlePublish
    <3> HIDE DEF r
    <3>4. MayQueue(r)
      BY <3>2 DEF MayQueue
    <3> QED
      BY <1>3, <1>5, <1>6, <3>2, <3>3, <3>4
  <2>4. ~DiscardUnknown(m) /\ ~HandleWilltopic(m) /\ ~HandleWillmsg(m)
    BY <1>1 DEF DiscardUnknown, HandleWilltopic, HandleWillmsg
  <2> QED
    BY <1>13, <2>1, <2>2, <2>3, <2>4 DEF OtherPackets
<1>14. ~HandleConnectResting(m) /\ ~HandleConnectClean(m)
  BY <1>1 DEF HandleConnectResting, HandleConnectClean, HandleConnect
<1> QED
  BY <1>7, <1>8, <1>9, <1>10, <1>11, <1>12, <1>13, <1>14 DEF SubscriberPackets

LEMMA SessionPassed ==
    ASSUME TypeOK, InSession, NoOtherSession, SubscribeGatewayStep
    PROVE  Passed
<1> DEFINE Handled == \E m \in toGateway : SubscriberPackets(m)
           Delivered == HandleStored \/ \E qos \in BrokerQos : BrokerPublishes(qos)
           Answered == OtherAnswers /\ UNCHANGED subscriptionVars
           Sent == (connectSended \/ SendRequest) /\ UNCHANGED subscriptionVars
<1> USE DEF clientObject, brokerVars, gatewayVars, deliveryVars, subscriptionVars, netVars,
            brokerSession
<1>1. /\ known /\ link = "open"
      /\ \A r \in Entries(brokerSendQue) \cup Entries(brokerLink) :
            r.type \notin {"CONNECT", "DISCONNECT"}
  BY DEF NoOtherSession
<1>2. /\ brokerSendQue # <<>> => Head(brokerSendQue).type # "CONNECT"
      /\ brokerLink # <<>> => Head(brokerLink).type \notin {"CONNECT", "DISCONNECT"}
  BY <1>1, SubscribeEntries DEF TypeOK, SubscribeGatewayTypeOK
<1>3. /\ UNCHANGED toClient => Granted' \subseteq Granted
      /\ UNCHANGED topics => TopicsKept
  BY DEF Granted, TopicsKept
<1>4. CASE Handled
  BY <1>4, PacketPassed
<1>5. CASE Delivered
  <2>1. CASE HandleStored
    <3>1. Head(stored) \in BrokerPackets /\ stored # <<>> /\ DeliverPublish(Head(stored))
      BY <2>1 DEF HandleStored, TypeOK, SubscribeGatewayTypeOK
    <3> QED
      BY <1>1, <3>1, DeliverPassed
  <2>2. ASSUME NEW qos \in BrokerQos, BrokerPublishes(qos)
        PROVE  Passed
    <3> DEFINE p == [qos |-> qos, id |-> published + 1,
                     name |-> IF brokerSub = Filter THEN Topic1 ELSE brokerSub]
    <3>1. p \in BrokerPackets
      BY <2>2, SubscribeGatewayAssumption
         DEF BrokerPublishes, BrokerPackets, TypeOK, SubscribeGatewayTypeOK
    <3>2. DeliverPublish(p) /\ brokerSub # 0
          /\ p.name = IF brokerSub = Filter THEN Topic1 ELSE brokerSub
      BY <2>2 DEF BrokerPublishes
    <3> HIDE DEF p
    <3> QED
      BY <1>1, <3>1, <3>2, DeliverPassed
  <2> QED
    BY <1>5, <2>1, <2>2
<1>6. CASE Sent
  <2>1. CASE connectSended
    BY <1>1, <1>3, <1>6, <2>1 DEF connectSended, Passed, QueuesPass, SubscriptionPasses
  <2>2. CASE SendRequest
    BY <1>1, <1>3, <1>6, <2>2 DEF SendRequest, Passed, QueuesPass, SubscriptionPasses
  <2> QED
    BY <1>6, <2>1, <2>2
<1>7. CASE BrokerSubscribes
  BY <1>1, <1>3, <1>7 DEF BrokerSubscribes, Passed, QueuesPass, SubscriptionPasses
<1>8. CASE HandleSuback
  BY <1>1, <1>3, <1>8 DEF HandleSuback, Passed, QueuesPass, SubscriptionPasses
<1>9. CASE HandlePingrespOrSleep
  <2>1. Granted' \subseteq Granted
    BY <1>9, GrantsNothing DEF HandlePingrespOrSleep, PingResp
  <2> QED
    BY <1>1, <1>3, <1>9, <2>1
       DEF HandlePingrespOrSleep, Answers, Passed, QueuesPass, SubscriptionPasses
<1>10. CASE BrokerAcknowledged
  <2> DEFINE r == Request("PUBCOMP", 0, Head(brokerLink).id)
  <2>1. brokerLink # <<>> /\ brokerLink' = Tail(brokerLink)
        /\ UNCHANGED <<known, link, topics, toGateway, waitedSub, brokerSub>>
    BY <1>10 DEF BrokerAcknowledged
  <2>2. r \in SubscribeRequests /\ r.type = "PUBCOMP"
    BY <2>1, AnsweredTyped, RequestsTyped DEF Request
  <2>3. UNCHANGED brokerSendQue \/ brokerSendQue' = Append(brokerSendQue, r)
    BY <1>10 DEF BrokerAcknowledged, ToBroker
  <2>4. UNCHANGED toClient \/ GatewaySends(Ack("PUBREL", Head(brokerLink).id))
    BY <1>10 DEF BrokerAcknowledged
  <2>5. Granted' \subseteq Granted
    BY <1>3, <2>4, GrantsNothing DEF Ack
  <2> HIDE DEF r
  <2> QED
    BY <1>1, <1>3, <2>1, <2>2, <2>3, <2>5 DEF Passed, QueuesPass, SubscriptionPasses
<1>11. CASE Answered
  <2>1. ~ConnackAccepted /\ ~ConnackRefused /\ ~BrokerCloses
    BY <1>2 DEF ConnackAccepted, ConnackRefused, BrokerCloses, Answers
  <2>2. HandlePuback
    BY <1>11, <2>1 DEF OtherAnswers
  <2>3. Granted' \subseteq Granted
    BY <1>3, <2>2, GrantsNothing DEF HandlePuback, PubAck
  <2> QED
    BY <1>1, <1>3, <1>11, <2>2, <2>3
       DEF HandlePuback, Answers, Passed, QueuesPass, SubscriptionPasses
<1>12. ~SendConnectClean /\ ~EraseSubscriber
  BY <1>1, <1>2 DEF SendConnectClean, SendConnect, EraseSubscriber, EraseClient
<1>13. \/ Handled \/ Delivered \/ Sent \/ BrokerSubscribes \/ HandleSuback
       \/ HandlePingrespOrSleep \/ BrokerAcknowledged \/ Answered
  BY <1>12 DEF SubscribeGatewayStep
<1> HIDE DEF Handled, Delivered, Answered, Sent
<1> QED
  BY <1>4, <1>5, <1>6, <1>7, <1>8, <1>9, <1>10, <1>11, <1>13

\* Nothing comes into the queues but what a handler may queue.
LEMMA EntriesPass ==
    ASSUME TypeOK, QueuesPass
    PROVE  \A r \in Entries(brokerSendQue') \cup Entries(brokerLink') :
              r \in Entries(brokerSendQue) \cup Entries(brokerLink) \/ MayQueue(r)
<1>1. brokerSendQue \in Seq(SubscribeRequests) /\ brokerLink \in Seq(SubscribeRequests)
  BY DEF TypeOK, SubscribeGatewayTypeOK
<1>2. CASE UNCHANGED <<brokerSendQue, brokerLink>>
  BY <1>2
<1>3. ASSUME NEW r \in SubscribeRequests, MayQueue(r),
             brokerSendQue' = Append(brokerSendQue, r), UNCHANGED brokerLink
      PROVE  \A a \in Entries(brokerSendQue') \cup Entries(brokerLink') :
                a \in Entries(brokerSendQue) \cup Entries(brokerLink) \/ MayQueue(a)
  BY <1>1, <1>3, SubscribeEntries
<1>4. CASE /\ brokerSendQue # <<>>
           /\ brokerSendQue' = Tail(brokerSendQue)
           /\ brokerLink' = Append(brokerLink, Head(brokerSendQue))
  <2>1. Head(brokerSendQue) \in SubscribeRequests
    BY <1>1, <1>4, QueuesTyped
  <2>2. Entries(brokerLink') = Entries(brokerLink) \cup {Head(brokerSendQue)}
    BY <1>1, <1>4, <2>1, SubscribeEntries
  <2>3. Entries(brokerSendQue) = Entries(brokerSendQue') \cup {Head(brokerSendQue)}
    BY <1>1, <1>4, SubscribeEntries
  <2> QED
    BY <2>2, <2>3
<1>5. CASE /\ brokerLink # <<>>
           /\ brokerLink' = Tail(brokerLink)
           /\ \/ UNCHANGED brokerSendQue
              \/ \E r \in SubscribeRequests :
                    r.type = "PUBCOMP" /\ brokerSendQue' = Append(brokerSendQue, r)
  <2>1. Entries(brokerLink') \subseteq Entries(brokerLink)
    BY <1>1, <1>5, SubscribeEntries
  <2>2. ASSUME NEW r \in SubscribeRequests, r.type = "PUBCOMP",
               brokerSendQue' = Append(brokerSendQue, r)
        PROVE  \A a \in Entries(brokerSendQue') : a \in Entries(brokerSendQue) \/ a.type = "PUBCOMP"
    BY <1>1, <2>2, SubscribeEntries
  <2> QED
    BY <1>5, <2>1, <2>2 DEF MayQueue
<1> QED
  BY <1>2, <1>3, <1>4, <1>5 DEF QueuesPass

LEMMA NoOtherGateway ==
    ASSUME TypeOK, NoOtherSession, SubscribeGatewayStep, UNCHANGED subscriberVars
    PROVE  NoOtherSession'
<1> SUFFICES ASSUME InSession
             PROVE  NoOtherSession'
  BY DEF NoOtherSession, InSession, subscriberVars, machineVars
<1>1. Passed
  BY SessionPassed
<1>2. known' /\ link' = "open"
  BY <1>1 DEF Passed
<1>3. \A m \in toGateway' :
         /\ m.type \notin {"CONNECT", "WILLTOPIC", "WILLMSG"}
         /\ m.type = "DISCONNECT" => m.duration # 0
  BY <1>1 DEF Passed, NoOtherSession
<1>4. \A r \in Entries(brokerSendQue') \cup Entries(brokerLink') :
         r.type \notin {"CONNECT", "DISCONNECT"}
  BY <1>1, EntriesPass DEF Passed, MayQueue, NoOtherSession
<1> QED
  BY <1>2, <1>3, <1>4 DEF NoOtherSession

----------------------------------------------------------------------------
(* WantedAgrees. *)

LEMMA WantedTurn ==
    ASSUME TypeOK, JoinsClean, WantedAgrees, Duplicated \cap Handshake = {},
           SubscriberStep \/ TimePasses, UNCHANGED <<gatewayVars, subscriptionVars>>
    PROVE  WantedAgrees'
<1> SUFFICES ASSUME InSession'
             PROVE  WantedAgrees'
  BY DEF WantedAgrees
<1>1. UNCHANGED <<brokerSendQue, brokerLink, topics, waitedSub, brokerSub>>
  BY DEF gatewayVars, clientObject, brokerVars, subscriptionVars, brokerSession
<1>2. WantedName' = WantedName
  <2>1. UNCHANGED <<program, wildcard>>
    BY FlaggedStep DEF Flagged
  <2> QED
    BY <2>1 DEF WantedName
<1>3. CASE ~InSession
  <2>1. /\ eventID \in Joining /\ toClient' = {} /\ toGateway' = {}
        /\ brokerSendQue = <<>> /\ brokerLink = <<>>
        /\ client'.sub_topicID = client.sub_topicID
    BY <1>3, SessionTurn
  <2>2. waitedSub = {} /\ brokerSub = 0 /\ client.sub_topicID = <<>>
    BY <2>1 DEF JoinsClean
  <2> QED
    BY <1>1, <2>1, <2>2 DEF WantedAgrees, Asked, Granted, Entries
<1>4. CASE InSession
  <2>1. Turned /\ eventID \notin Joining
    BY <1>4, TurnedStep DEF InSession
  <2>2. Granted' \subseteq Granted
    BY <2>1 DEF Turned, Granted
  <2>3. \A m \in Asked' : m.name = WantedName
    BY <1>4, <2>1 DEF Asked, Turned, MaySend, Subscribe, PubAck, Ack, WantedAgrees
  <2>4. client'.sub_topicID # <<>> => topics[WantedName] # 0
    BY <1>4, OnlySubAckSubscribes DEF WantedAgrees
  <2> QED
    BY <1>1, <1>2, <1>4, <2>2, <2>3, <2>4 DEF WantedAgrees
<1> QED
  BY <1>3, <1>4

\* A SUBACK carries the topic id that was waited for; it is the only new one.
LEMMA SubackGrants ==
    ASSUME HandleSuback
    PROVE  \/ Granted' = Granted
           \/ \E g : /\ Granted' \subseteq Granted \cup {g}
                    /\ \E w \in waitedSub : g.topicID = w.topicID
<1> DEFINE rc == IF brokerSub # 0 THEN "accepted" ELSE "rejected"
           qos == IF brokerSub # 0 THEN Head(brokerLink).qos ELSE 0
<1>1. \/ UNCHANGED toClient
      \/ \E w \in waitedSub : GatewaySends(SubAck(qos, w.topicID, Head(brokerLink).id, rc))
  BY DEF HandleSuback
<1> HIDE DEF rc, qos
<1>2. ASSUME NEW w \in waitedSub, GatewaySends(SubAck(qos, w.topicID, Head(brokerLink).id, rc))
      PROVE  \E g : /\ Granted' \subseteq Granted \cup {g}
                   /\ \E v \in waitedSub : g.topicID = v.topicID
  <2> DEFINE g == SubAck(qos, w.topicID, Head(brokerLink).id, rc)
  <2>1. g.topicID = w.topicID
    BY DEF SubAck
  <2>2. toClient' \subseteq toClient \cup {g}
    BY <1>2, SendAdds DEF GatewaySends
  <2>3. Granted' \subseteq Granted \cup {g}
    BY <2>2 DEF Granted
  <2> HIDE DEF g
  <2> QED
    BY <2>1, <2>3
<1> QED
  BY <1>1, <1>2 DEF Granted

LEMMA WantedNameTyped ==
    ASSUME TypeOK
    PROVE  WantedName \in TopicNames
BY SubscribeAssumption, SubscribeGatewayAssumption DEF TypeOK, SubscriberTypeOK, WantedName

LEMMA WantedGateway ==
    ASSUME TypeOK, NoOtherSession, WantedAgrees, SubscribeGatewayStep, UNCHANGED subscriberVars
    PROVE  WantedAgrees'
<1> SUFFICES ASSUME InSession
             PROVE  WantedAgrees'
  BY DEF WantedAgrees, InSession, subscriberVars, machineVars
<1> DEFINE W == WantedName
<1>1. Passed
  BY SessionPassed
<1>2. W \in TopicNames /\ W' = W /\ client' = client
  BY WantedNameTyped DEF subscriberVars, machineVars, ownVars, WantedName
<1>3. topics[W] # 0 => topics'[W] = topics[W]
  BY <1>1, <1>2 DEF Passed, TopicsKept
<1>4. Asked' \subseteq Asked
  BY <1>1 DEF Passed, Asked
<1>5. ASSUME NEW m \in Asked, HandleSubscribe(m), m.msgID # 0
      PROVE  /\ m.name = W /\ topics'[W] # 0
             /\ waitedSub' \subseteq waitedSub \cup {[msgID |-> m.msgID, topicID |-> topics'[W]]}
  <2>1. m.name = W
    BY DEF WantedAgrees
  <2> QED
    BY <1>2, <1>5, <2>1, AddTopicKeeps DEF HandleSubscribe, SetWaitedSub
<1>6. \A r \in Entries(brokerSendQue') \cup Entries(brokerLink') :
         r.type = "SUBSCRIBE" => r.name = W /\ topics'[W] # 0
  <2>1. ASSUME NEW r, MayQueue(r), r.type = "SUBSCRIBE"
        PROVE  r.name = W /\ topics'[W] # 0
    BY <1>5, <2>1 DEF MayQueue
  <2>2. ASSUME NEW r \in Entries(brokerSendQue) \cup Entries(brokerLink), r.type = "SUBSCRIBE"
        PROVE  r.name = W /\ topics'[W] # 0
    BY <1>3, <2>2 DEF WantedAgrees
  <2> QED
    BY <1>1, <2>1, <2>2, EntriesPass DEF Passed
<1>7. /\ \A w \in waitedSub' \cup Granted' : w.topicID = topics'[W] /\ topics'[W] # 0
      /\ brokerSub' \in {0, W} /\ (brokerSub' # 0 => topics'[W] # 0)
  <2>1. /\ \A w \in waitedSub \cup Granted : w.topicID = topics'[W] /\ topics'[W] # 0
        /\ brokerSub \in {0, W} /\ (brokerSub # 0 => topics'[W] # 0)
    BY <1>3 DEF WantedAgrees
  <2>2. CASE UNCHANGED <<waitedSub, brokerSub>> /\ Granted' \subseteq Granted
    BY <2>1, <2>2
  <2>3. ASSUME NEW m \in Asked, HandleSubscribe(m)
        PROVE  /\ \A w \in waitedSub' \cup Granted' : w.topicID = topics'[W] /\ topics'[W] # 0
               /\ brokerSub' \in {0, W} /\ (brokerSub' # 0 => topics'[W] # 0)
    <3>1. Granted' = Granted /\ brokerSub' = brokerSub
      BY <2>3 DEF HandleSubscribe, Granted, brokerSession
    <3>2. CASE m.msgID = 0
      BY <2>1, <2>3, <3>1, <3>2 DEF HandleSubscribe
    <3>3. CASE m.msgID # 0
      BY <1>5, <2>1, <2>3, <3>1, <3>3
    <3> QED
      BY <3>2, <3>3
  <2>4. brokerLink # <<>> => Head(brokerLink) \in Entries(brokerLink)
    BY SubscribeEntries DEF TypeOK, SubscribeGatewayTypeOK
  <2>5. CASE BrokerSubscribes
    <3>1. Head(brokerLink).name = W /\ topics[W] # 0
      BY <2>4, <2>5 DEF BrokerSubscribes, WantedAgrees
    <3> QED
      BY <1>3, <2>1, <2>5, <3>1 DEF BrokerSubscribes, netVars, Granted
  <2>6. CASE HandleSuback
    <3>1. waitedSub' \subseteq waitedSub /\ brokerSub' = brokerSub
      BY <2>6 DEF HandleSuback, brokerSession
    <3>2. \A g \in Granted' : g \in Granted \/ \E w \in waitedSub : g.topicID = w.topicID
      BY <2>6, SubackGrants
    <3> QED
      BY <2>1, <3>1, <3>2
  <2> QED
    BY <1>1, <2>2, <2>3, <2>5, <2>6 DEF Passed, SubscriptionPasses
<1>8. client'.sub_topicID # <<>> => topics'[W] # 0
  BY <1>2, <1>3 DEF WantedAgrees
<1> QED
  BY <1>2, <1>4, <1>6, <1>7, <1>8 DEF WantedAgrees

----------------------------------------------------------------------------
(* OneSubscribe and SubscriptionAgrees. *)

\* Where a SUBSCRIBE stands in a queue that has grown, or lost its head.
LEMMA SubscribesInQueue ==
    ASSUME NEW queue \in Seq(SubscribeRequests)
    PROVE  /\ \A r \in SubscribeRequests :
                 /\ Subscribes(Append(queue, r)) \subseteq Subscribes(queue) \cup {Len(queue) + 1}
                 /\ r.type # "SUBSCRIBE" => Subscribes(Append(queue, r)) = Subscribes(queue)
           /\ queue # <<>> =>
                 /\ \A i \in Subscribes(Tail(queue)) : i + 1 \in Subscribes(queue) /\ i \in Nat /\ i # 0
                 /\ Head(queue).type = "SUBSCRIBE" => 1 \in Subscribes(queue)
<1>1. ASSUME NEW r \in SubscribeRequests
      PROVE  /\ Subscribes(Append(queue, r)) \subseteq Subscribes(queue) \cup {Len(queue) + 1}
             /\ r.type # "SUBSCRIBE" => Subscribes(Append(queue, r)) = Subscribes(queue)
  <2>1. Len(Append(queue, r)) = Len(queue) + 1 /\ Len(queue) \in Nat
    OBVIOUS
  <2>2. \A i \in 1..(Len(queue) + 1) :
           Append(queue, r)[i] = IF i <= Len(queue) THEN queue[i] ELSE r
    OBVIOUS
  <2> QED
    BY <2>1, <2>2 DEF Subscribes
<1>2. ASSUME queue # <<>>
      PROVE  /\ \A i \in Subscribes(Tail(queue)) : i + 1 \in Subscribes(queue) /\ i \in Nat /\ i # 0
             /\ Head(queue).type = "SUBSCRIBE" => 1 \in Subscribes(queue)
  <2>1. Len(queue) \in Nat /\ Len(queue) > 0 /\ Len(Tail(queue)) = Len(queue) - 1
    BY <1>2
  <2>2. Head(queue) = queue[1] /\ 1 \in 1..Len(queue)
    BY <1>2
  <2>3. \A i \in 1..Len(Tail(queue)) : Tail(queue)[i] = queue[i + 1] /\ i + 1 \in 1..Len(queue)
    BY <1>2
  <2> QED
    BY <2>2, <2>3 DEF Subscribes
<1> QED
  BY <1>1, <1>2

\* What the tail of a queue with at most one SUBSCRIBE holds.
LEMMA SubscribesTail ==
    ASSUME NEW queue \in Seq(SubscribeRequests), queue # <<>>,
           \A i, j \in Subscribes(queue) : i = j
    PROVE  /\ \A i, j \in Subscribes(Tail(queue)) : i = j
           /\ Subscribes(queue) = {} => Subscribes(Tail(queue)) = {}
           /\ Head(queue).type = "SUBSCRIBE" =>
                 Subscribes(queue) # {} /\ Subscribes(Tail(queue)) = {}
<1>1. /\ \A i \in Subscribes(Tail(queue)) : i + 1 \in Subscribes(queue) /\ i \in Nat /\ i # 0
      /\ Head(queue).type = "SUBSCRIBE" => 1 \in Subscribes(queue)
  BY SubscribesInQueue
<1>2. ASSUME NEW i \in Subscribes(Tail(queue)), NEW j \in Subscribes(Tail(queue))
      PROVE  i = j
  <2>1. i + 1 = j + 1 /\ i \in Nat /\ j \in Nat
    BY <1>1, <1>2
  <2> QED
    BY <2>1
<1>3. ASSUME Head(queue).type = "SUBSCRIBE", NEW i \in Subscribes(Tail(queue))
      PROVE  FALSE
  <2>1. i + 1 = 1 /\ i \in Nat /\ i # 0
    BY <1>1, <1>3
  <2> QED
    BY <2>1
<1> QED
  BY <1>1, <1>2, <1>3

\* The SUBSCRIBE and its SUBACK in one place or none, in these four of them.
OneIn(asked, queued, taken, granted) ==
    /\ \A m, n \in asked : m = n
    /\ \A i, j \in queued : i = j
    /\ \A i, j \in taken : i = j
    /\ \A m, n \in granted : m = n
    /\ asked # {} => queued = {} /\ taken = {} /\ granted = {}
    /\ queued # {} => taken = {} /\ granted = {}
    /\ taken # {} => granted = {}

LEMMA OneSubscribeParts ==
    OneSubscribe <=>
       (InSession =>
          /\ OneIn(Asked, Queued, Taken, Granted)
          /\ flags.subscribe => client.sub_topicID = <<>> /\ waitedSub = {}
          /\ flags.subscribe \/ client.sub_topicID # <<>> =>
                Asked = {} /\ Queued = {} /\ Taken = {} /\ Granted = {})
BY DEF OneSubscribe, OneIn

LEMMA OneInLess ==
    ASSUME NEW a, NEW q, NEW t, NEW g, OneIn(a, q, t, g),
           NEW b, b \subseteq a, NEW h, h \subseteq g
    PROVE  OneIn(b, q, t, h)
BY DEF OneIn

LEMMA OneTurn ==
    ASSUME TypeOK, JoinsClean, WantedAgrees, OneSubscribe, SubscriptionAgrees,
           Duplicated \cap Handshake = {}, Duplicated \cap {"SUBSCRIBE", "SUBACK"} = {},
           SubscriberStep \/ TimePasses, UNCHANGED <<gatewayVars, subscriptionVars>>
    PROVE  OneSubscribe' /\ SubscriptionAgrees'
<1> SUFFICES ASSUME InSession'
             PROVE  /\ OneIn(Asked, Queued, Taken, Granted)'
                    /\ flags'.subscribe => client'.sub_topicID = <<>> /\ waitedSub' = {}
                    /\ flags'.subscribe \/ client'.sub_topicID # <<>> =>
                          Asked' = {} /\ Queued' = {} /\ Taken' = {} /\ Granted' = {}
                    /\ client'.sub_topicID \in {<<>>, <<topics'[WantedName']>>}
  BY DEF OneSubscribe, OneIn, SubscriptionAgrees
<1>1. /\ UNCHANGED <<brokerSendQue, brokerLink, topics, waitedSub>>
      /\ Queued' = Queued /\ Taken' = Taken
  BY DEF gatewayVars, clientObject, brokerVars, subscriptionVars, Queued, Taken
<1>2. UNCHANGED <<program, wildcard>> /\ (flags'.subscribe => flags.subscribe)
  BY FlaggedStep DEF Flagged
<1>3. WantedName' = WantedName
  BY <1>2 DEF WantedName
<1>4. CASE ~InSession
  <2>1. /\ eventID \in Joining /\ toClient' = {} /\ toGateway' = {}
        /\ brokerSendQue = <<>> /\ brokerLink = <<>>
        /\ client'.sub_topicID = client.sub_topicID
    BY <1>4, SessionTurn
  <2>2. waitedSub = {} /\ client.sub_topicID = <<>>
    BY <2>1 DEF JoinsClean
  <2>3. Asked' = {} /\ Granted' = {} /\ Queued' = {} /\ Taken' = {}
    BY <1>1, <2>1 DEF Asked, Granted, Queued, Taken, Subscribes
  <2> QED
    BY <1>1, <2>1, <2>2, <2>3 DEF OneIn
<1>5. CASE InSession
  <2>1. /\ OneIn(Asked, Queued, Taken, Granted)
        /\ flags.subscribe => client.sub_topicID = <<>> /\ waitedSub = {}
        /\ flags.subscribe \/ client.sub_topicID # <<>> =>
              Asked = {} /\ Queued = {} /\ Taken = {} /\ Granted = {}
        /\ client.sub_topicID \in {<<>>, <<topics[WantedName]>>}
    BY <1>5, OneSubscribeParts DEF SubscriptionAgrees
  <2>2. Turned /\ eventID \notin Joining
    BY <1>5, TurnedStep DEF InSession
  <2>3. Granted' \subseteq Granted
    BY <2>2 DEF Turned, Granted
\* The SUBSCRIBE is sent.
  <2>4. CASE flags.subscribe /\ ~flags'.subscribe
    <3>1. UNCHANGED <<client, toClient>>
      BY <2>4, FlaggedStep DEF Flagged
    <3>2. Granted' = {} /\ Queued' = {} /\ Taken' = {} /\ Asked = {}
      BY <1>1, <2>1, <2>4, <3>1 DEF Granted
    <3>3. \A m \in Asked' : m = Subscribe(WantedQos, event.send_msgID, WantedName)
      BY <2>2, <3>2 DEF Turned, MaySend, Asked, PubAck, Ack
    <3> QED
      BY <1>1, <1>3, <2>1, <2>4, <3>1, <3>2, <3>3 DEF OneIn
  <2>5. CASE ~(flags.subscribe /\ ~flags'.subscribe)
    <3>1. Asked' \subseteq Asked
      BY <2>2, <2>5 DEF Turned, MaySend, Asked, PubAck, Ack
    <3>2. OneIn(Asked', Queued', Taken', Granted')
      BY <1>1, <2>1, <2>3, <3>1, OneInLess
    <3>3. CASE client'.sub_topicID = client.sub_topicID
      BY <1>1, <1>2, <1>3, <2>1, <2>3, <3>1, <3>2, <3>3
\* A SUBACK is read.
    <3>4. CASE client'.sub_topicID # client.sub_topicID
      <4>1. PICK m \in Granted : /\ toClient' \in AfterReceive(toClient, m)
                                 /\ m.topicID # 0
                                 /\ client'.sub_topicID = Append(client.sub_topicID, m.topicID)
        BY <3>4, OnlySubAckSubscribes
      <4>2. Granted = {m} /\ Asked = {} /\ Queued = {} /\ Taken = {}
        BY <2>1 DEF OneIn
      <4>3. client.sub_topicID = <<>> /\ ~flags.subscribe
        BY <2>1, <4>2
      <4>4. m.type \notin Duplicated
        BY DEF Granted
      <4>5. Granted' = {}
        BY <4>1, <4>2, <4>4 DEF AfterReceive, Granted
      <4>6. m.topicID = topics[WantedName]
        BY <1>5 DEF WantedAgrees
      <4>7. client'.sub_topicID = <<topics[WantedName]>>
        BY <4>1, <4>3, <4>6
      <4> QED
        BY <1>1, <1>2, <1>3, <3>1, <3>2, <4>2, <4>3, <4>5, <4>7
    <3> QED
      BY <3>3, <3>4
  <2> QED
    BY <2>4, <2>5
<1> QED
  BY <1>4, <1>5

\* The gateway's three steps for the SUBSCRIBE.
LEMMA OneHandled ==
    ASSUME TypeOK, OneIn(Asked, Queued, Taken, Granted),
           Duplicated \cap {"SUBSCRIBE", "SUBACK"} = {},
           NEW m \in Asked, HandleSubscribe(m)
    PROVE  OneIn(Asked, Queued, Taken, Granted)'
<1>1. Asked = {m} /\ Queued = {} /\ Taken = {} /\ Granted = {}
  BY DEF OneIn
<1>2. m.type = "SUBSCRIBE" /\ m.type \notin Duplicated
  BY DEF Asked
<1>3. Asked' = {}
  BY <1>1, <1>2 DEF HandleSubscribe, FromClient, GatewayReceives, AfterReceive, Asked
<1>4. Taken' = {} /\ Granted' = {}
  BY <1>1 DEF HandleSubscribe, Taken, Granted
<1>5. \A i, j \in Queued' : i = j
  <2> DEFINE r == [type |-> "SUBSCRIBE", qos |-> m.qos, id |-> m.msgID, name |-> m.name]
  <2>1. UNCHANGED brokerSendQue \/ brokerSendQue' = Append(brokerSendQue, r)
    BY DEF HandleSubscribe, ToBroker
  <2>2. r \in SubscribeRequests
    BY <1>2, SubscribeGatewayAssumption
       DEF Asked, TypeOK, SubscriberTypeOK, SubscriberMessages, SubscribeRequests
  <2>3. brokerSendQue \in Seq(SubscribeRequests)
    BY DEF TypeOK, SubscribeGatewayTypeOK
  <2> HIDE DEF r
  <2>4. Subscribes(Append(brokerSendQue, r)) \subseteq {Len(brokerSendQue) + 1}
    <3>1. Subscribes(brokerSendQue) = {}
      BY <1>1 DEF Queued
    <3> QED
      BY <2>2, <2>3, <3>1, SubscribesInQueue
  <2>5. Queued' \subseteq {Len(brokerSendQue) + 1}
    BY <1>1, <2>1, <2>4 DEF Queued
  <2> QED
    BY <2>5, Zenon
<1> QED
  BY <1>3, <1>4, <1>5 DEF OneIn

LEMMA OneGranted ==
    ASSUME TypeOK, OneIn(Asked, Queued, Taken, Granted), HandleSuback
    PROVE  OneIn(Asked, Queued, Taken, Granted)'
<1>1. /\ brokerLink # <<>> /\ Head(brokerLink).type = "SUBSCRIBE"
      /\ brokerLink' = Tail(brokerLink) /\ UNCHANGED <<brokerSendQue, toGateway>>
  BY DEF HandleSuback
<1>2. brokerLink \in Seq(SubscribeRequests) /\ \A i, j \in Subscribes(brokerLink) : i = j
  BY DEF TypeOK, SubscribeGatewayTypeOK, OneIn, Taken
<1>3. Taken # {} /\ Taken' = {}
  BY <1>1, <1>2, SubscribesTail DEF Taken
<1>4. Asked' = Asked /\ Queued' = Queued
  BY <1>1 DEF Asked, Queued
<1>5. Asked = {} /\ Queued = {} /\ Granted = {}
  BY <1>3 DEF OneIn
<1>6. \A m, n \in Granted' : m = n
  BY <1>5, SubackGrants
<1> QED
  BY <1>3, <1>4, <1>5, <1>6 DEF OneIn

\* Every other step leaves the SUBSCRIBE where it is, or sends it on to the broker, or
\* takes it from there for good.
LEMMA OneElsewhere ==
    ASSUME TypeOK, OneIn(Asked, Queued, Taken, Granted), QueuesPass,
           toGateway' \subseteq toGateway, Granted' \subseteq Granted,
           \A m \in Asked : ~HandleSubscribe(m)
    PROVE  /\ OneIn(Asked, Queued, Taken, Granted)'
           /\ Queued = {} /\ Taken = {} => Queued' = {} /\ Taken' = {}
<1>1. brokerSendQue \in Seq(SubscribeRequests) /\ brokerLink \in Seq(SubscribeRequests)
  BY DEF TypeOK, SubscribeGatewayTypeOK
<1>2. /\ \A i, j \in Subscribes(brokerSendQue) : i = j
      /\ \A i, j \in Subscribes(brokerLink) : i = j
  BY DEF OneIn, Queued, Taken
<1>3. Asked' \subseteq Asked
  BY DEF Asked
<1>4. ASSUME Queued' = Queued,
             \A i, j \in Taken' : i = j,
             Taken = {} => Taken' = {}
      PROVE  /\ OneIn(Asked, Queued, Taken, Granted)'
             /\ Queued = {} /\ Taken = {} => Queued' = {} /\ Taken' = {}
  BY <1>3, <1>4 DEF OneIn
<1>5. CASE UNCHANGED <<brokerSendQue, brokerLink>>
  BY <1>2, <1>4, <1>5 DEF Queued, Taken
<1>6. ASSUME NEW r \in SubscribeRequests, MayQueue(r),
             brokerSendQue' = Append(brokerSendQue, r), UNCHANGED brokerLink
      PROVE  Queued' = Queued /\ Taken' = Taken
  <2>1. r.type # "SUBSCRIBE"
    BY <1>6 DEF MayQueue
  <2> QED
    BY <1>1, <1>6, <2>1, SubscribesInQueue DEF Queued, Taken
<1>7. CASE /\ brokerSendQue # <<>>
           /\ brokerSendQue' = Tail(brokerSendQue)
           /\ brokerLink' = Append(brokerLink, Head(brokerSendQue))
  <2> DEFINE r == Head(brokerSendQue)
  <2>1. r \in SubscribeRequests
    BY <1>1, <1>7, QueuesTyped
  <2>2. /\ \A i, j \in Queued' : i = j
        /\ Queued = {} => Queued' = {}
        /\ r.type = "SUBSCRIBE" => Queued # {} /\ Queued' = {}
    BY <1>1, <1>2, <1>7, SubscribesTail DEF Queued
  <2>3. /\ Taken' \subseteq Taken \cup {Len(brokerLink) + 1}
        /\ r.type # "SUBSCRIBE" => Taken' = Taken
    BY <1>1, <1>7, <2>1, SubscribesInQueue DEF Taken
  <2> HIDE DEF r
  <2> QED
    BY <1>3, <2>2, <2>3 DEF OneIn
<1>8. CASE /\ brokerLink # <<>>
           /\ brokerLink' = Tail(brokerLink)
           /\ \/ UNCHANGED brokerSendQue
              \/ \E r \in SubscribeRequests :
                    r.type = "PUBCOMP" /\ brokerSendQue' = Append(brokerSendQue, r)
  <2>1. (\A i, j \in Taken' : i = j) /\ (Taken = {} => Taken' = {})
    BY <1>1, <1>2, <1>8, SubscribesTail DEF Taken
  <2>2. Queued' = Queued
    BY <1>1, <1>8, SubscribesInQueue DEF Queued
  <2> QED
    BY <1>4, <2>1, <2>2
<1> QED
  BY <1>2, <1>4, <1>5, <1>6, <1>7, <1>8 DEF QueuesPass, OneIn

LEMMA OneGateway ==
    ASSUME TypeOK, NoOtherSession, WantedAgrees, OneSubscribe, SubscriptionAgrees,
           Duplicated \cap {"SUBSCRIBE", "SUBACK"} = {},
           SubscribeGatewayStep, UNCHANGED subscriberVars
    PROVE  OneSubscribe' /\ SubscriptionAgrees'
<1>1. InSession' = InSession /\ flags' = flags /\ client' = client
      /\ UNCHANGED <<program, wildcard>>
  BY DEF InSession, subscriberVars, machineVars, ownVars
<1> SUFFICES ASSUME InSession
             PROVE  /\ OneIn(Asked, Queued, Taken, Granted)'
                    /\ flags.subscribe => waitedSub' = {}
                    /\ flags.subscribe \/ client.sub_topicID # <<>> =>
                          Asked' = {} /\ Queued' = {} /\ Taken' = {} /\ Granted' = {}
                    /\ client.sub_topicID \in {<<>>, <<topics'[WantedName]>>}
  <2>1. WantedName' = WantedName
    BY <1>1 DEF WantedName
  <2> QED
    BY <1>1, <2>1 DEF OneSubscribe, OneIn, SubscriptionAgrees
<1>2. /\ OneIn(Asked, Queued, Taken, Granted)
      /\ flags.subscribe => client.sub_topicID = <<>> /\ waitedSub = {}
      /\ flags.subscribe \/ client.sub_topicID # <<>> =>
            Asked = {} /\ Queued = {} /\ Taken = {} /\ Granted = {}
      /\ client.sub_topicID \in {<<>>, <<topics[WantedName]>>}
  BY OneSubscribeParts DEF SubscriptionAgrees
<1>3. Passed
  BY SessionPassed
<1>4. client.sub_topicID \in {<<>>, <<topics'[WantedName]>>}
  <2>1. client.sub_topicID # <<>> => topics[WantedName] # 0
    BY DEF WantedAgrees
  <2>2. topics[WantedName] # 0 => topics'[WantedName] = topics[WantedName]
    BY <1>3, WantedNameTyped DEF Passed, TopicsKept
  <2> QED
    BY <1>2, <2>1, <2>2
<1>5. ASSUME NEW m \in Asked, HandleSubscribe(m)
      PROVE  /\ OneIn(Asked, Queued, Taken, Granted)'
             /\ ~flags.subscribe /\ client.sub_topicID = <<>>
  BY <1>2, <1>5, OneHandled
<1>6. CASE HandleSuback
  <2>1. OneIn(Asked, Queued, Taken, Granted)'
    BY <1>2, <1>6, OneGranted
  <2>2. Taken # {}
    <3>1. brokerLink \in Seq(SubscribeRequests)
      BY DEF TypeOK, SubscribeGatewayTypeOK
    <3> QED
      BY <1>6, <3>1, SubscribesInQueue DEF HandleSuback, Taken
  <2> QED
    BY <1>2, <1>4, <2>1, <2>2
<1>7. CASE /\ \A m \in Asked : ~HandleSubscribe(m)
           /\ waitedSub' = waitedSub /\ Granted' \subseteq Granted
  <2>1. /\ OneIn(Asked, Queued, Taken, Granted)'
        /\ Queued = {} /\ Taken = {} => Queued' = {} /\ Taken' = {}
    BY <1>2, <1>3, <1>7, OneElsewhere DEF Passed
  <2>2. Asked' \subseteq Asked
    BY <1>3 DEF Passed, Asked
  <2> QED
    BY <1>2, <1>4, <1>7, <2>1, <2>2
<1>8. \/ \E m \in Asked : HandleSubscribe(m)
      \/ HandleSuback
      \/ /\ \A m \in Asked : ~HandleSubscribe(m)
         /\ waitedSub' = waitedSub /\ Granted' \subseteq Granted
  BY <1>3 DEF Passed, SubscriptionPasses, BrokerSubscribes, netVars, Granted
<1> QED
  BY <1>2, <1>4, <1>5, <1>6, <1>7, <1>8

----------------------------------------------------------------------------
(* ShownFirst. *)

\* readPub shows what it has a Q_pubQos code for, and leaves its id in the event.
LEMMA ShowsPublish ==
    ASSUME TypeOK, NEW m \in toClient, Remember(m),
           Result(m).rc \in {"Q_pubQos1", "Q_pubQos2"}
    PROVE  Result(m).event.msgID \in history'.shown
<1>1. m \in DeliveryMessages /\ event \in SubscriberEvents
  BY DEF TypeOK, SubscriberTypeOK, SubscribeGatewayTypeOK
<1>2. m.type = "PUBLISH"
  BY <1>1 DEF DeliveryMessages, Result, readMsg, readConnack, readSubAck, readReg, readRegAck,
              readPubAck, readRecRelComp, Outcome
<1>3. m.msgID # 0
  BY <1>1, <1>2, SubscribeGatewayAssumption DEF DeliveryMessages
<1>4. Result(m).event.msgID = m.msgID
  <2>1. Result(m) = readPub(m, client, event)
    BY <1>2 DEF Result, readMsg
  <2>2. \/ Result(m).event = [event EXCEPT !.msgID = m.msgID, !.topicID = m.topicID]
        \/ Result(m).event = [event EXCEPT !.msgID = m.msgID]
    BY <2>1 DEF readPub, Outcome
  <2> QED
    BY <1>1, <2>2 DEF SubscriberEvents
<1>5. history' = [history EXCEPT !.read = history.read \cup {m.msgID},
                                 !.shown = history.shown \cup {m.msgID}]
  BY <1>2, <1>3 DEF Remember
<1>6. history'.shown = history.shown \cup {m.msgID}
  BY <1>5 DEF TypeOK, SubscriberTypeOK
<1> QED
  BY <1>4, <1>6

\* Nothing shown is forgotten.
LEMMA ShownGrows ==
    ASSUME TypeOK, SubscriberStep \/ TimePasses
    PROVE  history.shown \subseteq history'.shown
<1>1. ASSUME NEW m, Remember(m)
      PROVE  history.shown \subseteq history'.shown
  <2>1. CASE history' = history
    BY <2>1
  <2>2. CASE history' # history
    <3>1. PICK shown \in {history.shown, history.shown \cup {m.msgID}} :
             history' = [history EXCEPT !.read = history.read \cup {m.msgID}, !.shown = shown]
      BY <1>1, <2>2 DEF Remember
    <3> QED
      BY <3>1 DEF TypeOK, SubscriberTypeOK
  <2> QED
    BY <2>1, <2>2
<1>2. UNCHANGED history \/ \E m \in toClient : Remember(m)
  <2> USE DEF ownVars, Reading, NotReading
  <2>1. CASE TimePasses
    BY <2>1 DEF TimePasses
  <2>2. CASE Connecting \/ AskedForWill \/ Pinging \/ Publishing \/ Closing
    BY <2>2 DEF Connecting, AskedForWill, Pinging, Publishing, Closing
  <2>3. CASE Connected
    BY <2>3 DEF Connected, SendRegister, SendPublish, SendSubscribe, SendPing, AnnounceSleep,
                FallAsleep, ReadConnected
  <2>4. CASE Receiving \/ AskingTopic \/ Sleeping
    BY <2>4 DEF Receiving, SendPuback, ReleaseNoMsg, ReadRelease, AskingTopic, JoiningNoMsg,
                RegisteringRead, SubscribingRead, Sleeping, DisconnectingNoMsg, WakeUp,
                DisconnectingRead
  <2> QED
    BY <2>1, <2>2, <2>3, <2>4, Turns
<1> QED
  BY <1>1, <1>2

\* Q_RCV_QOS1 is entered by a PUBLISH, and left by the next turn.
LEMMA EntersQos1 ==
    ASSUME TypeOK, SubscriberStep \/ TimePasses, eventID' = "Q_RCV_QOS1"
    PROVE  \/ UNCHANGED <<eventID, event, history>>
           \/ \E m \in toClient : TakePublishQos1(m) /\ Reads(m) /\ Remember(m)
<1>1. ASSUME NEW m, NEW next, SendOrQuit(m, next), next # "Q_RCV_QOS1"
      PROVE  FALSE
  BY <1>1, SendOrQuitSends
<1>2. CASE TimePasses
  BY <1>2 DEF TimePasses, Tick, ownVars
<1>3. CASE Connecting
  BY <1>1, <1>3 DEF Connecting, ConnectingNoMsg, ConnectingRead
<1>4. CASE AskedForWill
  BY <1>1, <1>4, QuitSends DEF AskedForWill, WillNoMsg, WillTopReqRead, WillMsgReqRead
<1>5. CASE Connected
  <2>1. CASE \/ SendRegister \/ SendPublish \/ SendSubscribe \/ SendPing
             \/ AnnounceSleep \/ FallAsleep
    BY <1>1, <2>1 DEF SendRegister, SendPublish, SendSubscribe, SendPing, AnnounceSleep, FallAsleep
  <2>2. ASSUME NEW m \in toClient, ReadConnected(m)
        PROVE  \E n \in toClient : TakePublishQos1(n) /\ Reads(n) /\ Remember(n)
    <3>1. ~TakePublishQos2(m) /\ ~RejectPublish(m) /\ ~AnswerRegister(m) /\ ~TakePingResp(m)
          /\ ~Forget(m)
      BY <1>1, <1>5 DEF Connected, TakePublishQos2, RejectPublish, AnswerRegister, TakePingResp,
                        Forget
    <3> QED
      BY <2>2, <3>1 DEF ReadConnected, Reading
  <2> QED
    BY <1>5, <2>1, <2>2 DEF Connected
<1>6. CASE Receiving
  BY <1>6 DEF Receiving, SendPuback, ReleaseNoMsg, ReadRelease, Release, ReleaseUnexpected
<1>7. CASE AskingTopic
  BY <1>7 DEF AskingTopic, JoiningNoMsg, RegisteringRead, SubscribingRead
<1>8. CASE Pinging
  BY <1>1, <1>8 DEF Pinging, PingRetry, PingGiveUp, PingAnswered, PingUnexpected
<1>9. CASE Publishing
  BY <1>9 DEF Publishing, PublishNoMsg, PublishAcked, PublishUnexpected
<1>10. CASE Sleeping
  BY <1>10 DEF Sleeping, DisconnectingNoMsg, WakeUp, DisconnectingRead
<1>11. CASE Closing
  BY <1>11 DEF Closing, Close
<1> QED
  BY <1>2, <1>3, <1>4, <1>5, <1>6, <1>7, <1>8, <1>9, <1>10, <1>11, Turns

LEMMA ShownTurn ==
    ASSUME TypeOK, ShownFirst, SubscriberStep \/ TimePasses
    PROVE  ShownFirst'
<1>1. history.shown \subseteq history'.shown
  BY ShownGrows
<1>2. eventID' = "Q_RCV_QOS1" => event'.msgID \in history'.shown
  <2>1. ASSUME NEW m \in toClient, TakePublishQos1(m), Reads(m), Remember(m)
        PROVE  event'.msgID \in history'.shown
    BY <2>1, ShowsPublish DEF TakePublishQos1, Reads
  <2> QED
    BY <1>1, <2>1, EntersQos1 DEF ShownFirst
<1>3. ASSUME NEW m \in toGateway', m.type = "PUBREC" \/ (m.type = "PUBACK" /\ m.rc = "accepted")
      PROVE  m.msgID \in history'.shown
  <2>1. CASE m \in toGateway
    BY <1>1, <1>3, <2>1 DEF ShownFirst
  <2>2. CASE SendPuback /\ m = PubAck(event.topicID, event.msgID, "accepted")
    <3>1. eventID = "Q_RCV_QOS1" /\ m.msgID = event.msgID
      BY <2>2 DEF SendPuback, PubAck
    <3> QED
      BY <1>1, <3>1 DEF ShownFirst
  <2>3. ASSUME NEW n \in toClient, TakePublishQos2(n), Reading(n),
               m = Ack("PUBREC", Result(n).event.msgID)
        PROVE  m.msgID \in history'.shown
    BY <2>3, ShowsPublish DEF TakePublishQos2, Reading, Ack
  <2>4. \/ m \in toGateway
        \/ SendPuback /\ m = PubAck(event.topicID, event.msgID, "accepted")
        \/ \E n \in toClient : /\ TakePublishQos2(n) /\ Reading(n)
                               /\ m = Ack("PUBREC", Result(n).event.msgID)
    BY <1>3, TurnedStep DEF Turned, MaySend, Subscribe
  <2> QED
    BY <2>1, <2>2, <2>3, <2>4
<1> QED
  BY <1>2, <1>3 DEF ShownFirst

LEMMA ShownGateway ==
    ASSUME ShownFirst, SubscribeGatewayStep, UNCHANGED subscriberVars
    PROVE  ShownFirst'
<1>1. toGateway' \subseteq toGateway
  BY GatewayReads
<1>2. UNCHANGED <<eventID, event, history>>
  BY DEF subscriberVars, machineVars, ownVars
<1> QED
  BY <1>1, <1>2 DEF ShownFirst

----------------------------------------------------------------------------
(* NothingSaved. *)

LEMMA SavedTurn ==
    ASSUME TypeOK, NothingSaved, SubscriberStep \/ TimePasses,
           UNCHANGED <<gatewayVars, subscriptionVars>>
    PROVE  NothingSaved' /\ (~MaySleep' => ~MaySleep)
<1>1. /\ UNCHANGED program
      /\ MaySleep' => MaySleep \/ program = "SleepV2"
      /\ MaySleep => MaySleep' \/ program # "SleepV2"
      /\ eventID' \in {"Q_DISCONNECTING", "Q_SLEEP"} =>
            MaySleep' \/ eventID \in {"Q_DISCONNECTING", "Q_SLEEP"}
  BY FlaggedStep DEF Flagged
<1>2. /\ program # "SleepV2" => ~MaySleep
      /\ ~MaySleep => eventID \notin {"Q_DISCONNECTING", "Q_SLEEP"}
      /\ ~MaySleep /\ eventID # "Q_DISCONNECTED" =>
            /\ ~Resting /\ sleepQue = <<>> /\ stored = <<>>
            /\ \A m \in toGateway : m.type # "DISCONNECT"
  BY DEF NothingSaved
<1>3. /\ program' # "SleepV2" => ~MaySleep'
      /\ ~MaySleep' => ~MaySleep
      /\ ~MaySleep' => eventID' \notin {"Q_DISCONNECTING", "Q_SLEEP"}
  BY <1>1, <1>2
<1>4. UNCHANGED <<status, sleepQue, stored>>
  BY DEF gatewayVars, clientObject, subscriptionVars, deliveryVars
<1>5. ASSUME ~MaySleep', eventID' # "Q_DISCONNECTED"
      PROVE  /\ ~Resting' /\ sleepQue' = <<>> /\ stored' = <<>>
             /\ \A m \in toGateway' : m.type # "DISCONNECT"
  <2>1. ~MaySleep /\ eventID # "Q_DISCONNECTED" /\ ~flags.sleep
    BY <1>3, <1>5, TurnedStep DEF Turned, MaySleep
  <2>2. \A m \in toGateway' : m \in toGateway \/ m.type # "DISCONNECT"
    BY <1>5, <2>1, TurnedStep DEF Turned, MaySend, Subscribe, PubAck, Ack
  <2> QED
    BY <1>2, <1>4, <2>1, <2>2 DEF Resting
<1> QED
  BY <1>3, <1>5 DEF NothingSaved

\* For a client that does not rest, and announces no sleep, nothing is saved.
LEMMA SavedGateway ==
    ASSUME NothingSaved, SubscribeGatewayStep, UNCHANGED subscriberVars
    PROVE  NothingSaved'
<1>1. UNCHANGED <<eventID, flags, program>>
  BY DEF subscriberVars, machineVars, ownVars
<1>2. MaySleep' = MaySleep
  BY <1>1 DEF MaySleep
<1>3. toGateway' \subseteq toGateway
  BY GatewayReads
<1> SUFFICES ASSUME ~Resting, sleepQue = <<>>, stored = <<>>,
                    \A m \in toGateway : m.type # "DISCONNECT"
             PROVE  ~Resting' /\ sleepQue' = <<>> /\ stored' = <<>>
  BY <1>1, <1>2, <1>3 DEF NothingSaved
<1> DEFINE Handled == \E m \in toGateway : SubscriberPackets(m)
           Kept == ~Resting' /\ sleepQue' = <<>> /\ stored' = <<>>
           Answered == OtherAnswers /\ UNCHANGED subscriptionVars
           Sent == (connectSended \/ SendRequest) /\ UNCHANGED subscriptionVars
<1> USE DEF Resting, subscriptionVars, deliveryVars, clientObject, gatewayVars
<1>4. ASSUME NEW m \in toGateway, SubscriberPackets(m)
      PROVE  Kept
  <2>1. ~HandleConnectResting(m) /\ ~HandleDisconnectOrSleep(m)
    BY DEF HandleConnectResting, HandleDisconnectOrSleep
  <2>2. CASE HandleConnectClean(m) \/ HandlePingreqOrWake(m) \/ HandleSubscribe(m)
    BY <2>2 DEF HandleConnectClean, HandleConnect, disconnected, HandlePingreqOrWake,
                HandleSubscribe
  <2>3. CASE HandleClientAck(m) \/ HandleIgnoredAck(m) \/ HandleRegAck(m)
    BY <2>3 DEF HandleClientAck, HandleIgnoredAck, HandleRegAck
  <2>4. CASE OtherPackets(m) /\ UNCHANGED subscriptionVars
    <3>1. status' = status
      BY <2>4 DEF OtherPackets, DiscardUnknown, HandleWilltopic, HandleWillmsg, HandleRegister,
                  HandlePublishInvalidTopic, HandlePublish
    <3> QED
      BY <2>4, <3>1
  <2> QED
    BY <1>4, <2>1, <2>2, <2>3, <2>4 DEF SubscriberPackets
<1>5. ASSUME NEW qos \in BrokerQos, BrokerPublishes(qos)
      PROVE  Kept
  BY <1>5 DEF BrokerPublishes, DeliverPublish, PublishIgnored, PublishSaved, PublishForwarded,
              PublishCancelled, PublishParked
<1>6. CASE SendConnectClean
  BY <1>6 DEF SendConnectClean, SendConnect
<1>7. CASE Sent
  BY <1>7 DEF connectSended, SendRequest
<1>8. CASE BrokerSubscribes \/ HandleSuback \/ HandlePingrespOrSleep \/ BrokerAcknowledged
  BY <1>8 DEF BrokerSubscribes, HandleSuback, HandlePingrespOrSleep, BrokerAcknowledged
<1>9. CASE Answered
  <2>1. status' \in {status, "Active", "Disconnected"}
    BY <1>9 DEF OtherAnswers, ConnackAccepted, ConnackRefused, HandlePuback, BrokerCloses,
                disconnected
  <2> QED
    BY <1>9, <2>1
<1>10. CASE EraseSubscriber
  BY <1>10 DEF EraseSubscriber, EraseClient, disconnected
<1>11. ~HandleStored
  BY DEF HandleStored
<1>12. \/ Handled \/ SendConnectClean \/ Sent \/ Answered \/ EraseSubscriber
       \/ \E qos \in BrokerQos : BrokerPublishes(qos)
       \/ BrokerSubscribes \/ HandleSuback \/ HandlePingrespOrSleep \/ BrokerAcknowledged
  BY <1>11 DEF SubscribeGatewayStep
<1> HIDE DEF Sent, Answered, Kept
<1> QED
  BY <1>4, <1>5, <1>6, <1>7, <1>8, <1>9, <1>10, <1>12 DEF Kept

----------------------------------------------------------------------------
(* AckedIsShown. *)

LEMMA AckedTurn ==
    ASSUME TypeOK, JoinsClean, NothingSaved, AckedIsShown, Duplicated \cap Handshake = {},
           SubscriberStep \/ TimePasses, UNCHANGED <<gatewayVars, subscriptionVars>>
    PROVE  AckedIsShown'
<1> SUFFICES ASSUME InSession', ~MaySleep',
                    NEW r \in Entries(brokerSendQue') \cup Entries(brokerLink'),
                    r.type \in {"PUBACK", "PUBREC"}
             PROVE  r.id \in history'.shown
  BY DEF AckedIsShown, MaySleep
<1>1. UNCHANGED <<brokerSendQue, brokerLink>>
  BY DEF gatewayVars, brokerVars
<1>2. ~MaySleep
  BY SavedTurn
<1>3. InSession
  BY <1>1, SessionTurn DEF Entries
<1> QED
  BY <1>1, <1>2, <1>3, ShownGrows DEF AckedIsShown, MaySleep

LEMMA AckedGateway ==
    ASSUME TypeOK, NoOtherSession, WantedAgrees, ShownFirst, NothingSaved, AckedIsShown,
           SubscribeGatewayStep, UNCHANGED subscriberVars
    PROVE  AckedIsShown'
<1>1. UNCHANGED <<eventID, flags, history>>
  BY DEF subscriberVars, machineVars, ownVars
<1> SUFFICES ASSUME InSession, ~MaySleep,
                    NEW r \in Entries(brokerSendQue') \cup Entries(brokerLink'),
                    r.type \in {"PUBACK", "PUBREC"}
             PROVE  r.id \in history.shown
  BY <1>1 DEF AckedIsShown, InSession, MaySleep
<1>2. r \in Entries(brokerSendQue) \cup Entries(brokerLink) \/ MayQueue(r)
  BY SessionPassed, EntriesPass DEF Passed
<1>3. status # "Asleep" /\ stored = <<>>
  BY DEF NothingSaved, Resting, InSession
<1>4. ~(brokerSub # 0 /\ topics[brokerSub] = 0)
  BY DEF WantedAgrees
<1>5. CASE r \in Entries(brokerSendQue) \cup Entries(brokerLink)
  BY <1>5 DEF AckedIsShown, MaySleep
<1>6. CASE MayQueue(r)
  BY <1>3, <1>4, <1>6 DEF MayQueue, ShownFirst
<1> QED
  BY <1>2, <1>5, <1>6

----------------------------------------------------------------------------
(* The theorems. *)

\* The session of a program that is not killed is the only one, and its name has one
\* topic id.
OnlySession == restarts = 0 /\ JoinsClean /\ NoOtherSession /\ WantedAgrees

LEMMA SystemStarts ==
    ASSUME Init
    PROVE  /\ restarts = 0 /\ eventID = "Q_CONNECTING"
           /\ \A m \in toGateway : m.type = "CONNECT" /\ toGateway = {m}
           /\ toClient = {} /\ brokerSendQue = <<>> /\ brokerLink = <<>>
           /\ flags.subscribe /\ ~MaySleep /\ client.sub_topicID = <<>>
           /\ waitedSub = {} /\ brokerSub = 0
           /\ ~Resting /\ sleepQue = <<>> /\ stored = <<>>
<1>1. \A m \in toGateway : m.type = "CONNECT" /\ toGateway = {m}
  BY SendAdds DEF Init, SubscriberInit, Connect
<1>2. flags.subscribe /\ ~MaySleep
  BY DEF Init, SubscriberInit, InitialFlags, MaySleep
<1>3. eventID = "Q_CONNECTING" /\ toClient = {} /\ restarts = 0
  BY DEF Init, SubscriberInit, MachineInit
<1>4. client.sub_topicID = <<>>
  BY DEF Init, SubscriberInit, MachineInit, InitialClients
<1>5. /\ brokerSendQue = <<>> /\ brokerLink = <<>> /\ waitedSub = {} /\ brokerSub = 0
      /\ status = "Disconnected" /\ sleepQue = <<>> /\ stored = <<>>
  BY DEF Init, SubscribeGatewayInit, GatewayInit
<1> QED
  BY <1>1, <1>2, <1>3, <1>4, <1>5 DEF Resting

LEMMA OnlySessionInit == Init => OnlySession
<1> SUFFICES ASSUME Init
             PROVE  OnlySession
  OBVIOUS
<1>1. JoinsClean
  BY SystemStarts DEF JoinsClean, HandshakeAlone, Handshake
<1>2. ~InSession
  BY SystemStarts DEF InSession, Joining
<1> QED
  BY <1>1, <1>2, SystemStarts DEF OnlySession, NoOtherSession, WantedAgrees

\* A step of a program that has not been killed, and is not.
LEMMA StepOfOne ==
    ASSUME MaxRestarts = 0, restarts = 0, [Next]_vars
    PROVE  /\ restarts' = 0
           /\ \/ (SubscriberStep \/ TimePasses) /\ UNCHANGED <<gatewayVars, subscriptionVars>>
              \/ SubscribeGatewayStep /\ UNCHANGED subscriberVars
              \/ UNCHANGED vars
BY DEF Next, Restart, vars

LEMMA OnlySessionStep ==
    ASSUME MaxRestarts = 0, Duplicated \cap Handshake = {}
    PROVE  TypeOK /\ OnlySession /\ [Next]_vars => OnlySession'
<1> SUFFICES ASSUME TypeOK, OnlySession, [Next]_vars
             PROVE  OnlySession'
  OBVIOUS
<1>1. restarts = 0 /\ JoinsClean /\ NoOtherSession /\ WantedAgrees
  BY DEF OnlySession
<1>2. restarts' = 0
  BY <1>1, StepOfOne
<1>3. CASE (SubscriberStep \/ TimePasses) /\ UNCHANGED <<gatewayVars, subscriptionVars>>
  BY <1>1, <1>2, <1>3, JoinsCleanTurn, NoOtherTurn, WantedTurn DEF OnlySession
<1>4. CASE SubscribeGatewayStep /\ UNCHANGED subscriberVars
  BY <1>1, <1>2, <1>4, JoinsCleanGateway, NoOtherGateway, WantedGateway DEF OnlySession
<1>5. CASE UNCHANGED vars
  <2>1. UNCHANGED <<eventID, client, flags, program, wildcard, toGateway, toClient, known, link,
                    status, topics, brokerSendQue, brokerLink, waitedSub, brokerSub, sleepQue, stored>>
    BY <1>5 DEF vars, subscriberVars, machineVars, ownVars, netVars, gatewayVars, clientObject,
       brokerVars, subscriptionVars, deliveryVars, brokerSession
  <2>2. JoinsClean'
    BY <1>1, <2>1 DEF JoinsClean, HandshakeAlone, Resting
  <2>3. NoOtherSession'
    BY <1>1, <2>1 DEF NoOtherSession, InSession
  <2>4. WantedName' = WantedName /\ UNCHANGED <<eventID, client, topics, toGateway, toClient,
                                        waitedSub, brokerSub, brokerSendQue, brokerLink>>
    BY <2>1 DEF WantedName
  <2>5. WantedAgrees'
    BY <1>1, <2>4 DEF WantedAgrees, InSession, Asked, Granted
  <2> QED
    BY <1>2, <2>2, <2>3, <2>5 DEF OnlySession
<1> QED
  BY <1>1, <1>3, <1>4, <1>5, StepOfOne

\* When no message of the handshake comes twice, a program that is not killed has the only
\* session with the gateway, from which nothing takes the topic id of its name.
THEOREM SessionIsOnly ==
    ASSUME MaxRestarts = 0, Duplicated \cap Handshake = {}
    PROVE  Spec => []OnlySession
<1>1. TypeOK /\ OnlySession /\ [Next]_vars => OnlySession'
  BY OnlySessionStep
<1> QED
  BY <1>1, OnlySessionInit, TypeCorrect, PTL DEF Spec

LEMMA ShownStep ==
    ASSUME MaxRestarts = 0, Duplicated \cap Handshake = {}
    PROVE  TypeOK /\ OnlySession /\ ShownInvariant /\ [Next]_vars => ShownInvariant'
<1> SUFFICES ASSUME TypeOK, OnlySession, ShownInvariant, [Next]_vars
             PROVE  ShownInvariant'
  OBVIOUS
<1>1. /\ restarts = 0 /\ JoinsClean /\ NoOtherSession /\ WantedAgrees
      /\ ShownFirst /\ NothingSaved /\ AckedIsShown
  BY DEF OnlySession, ShownInvariant
<1>2. CASE (SubscriberStep \/ TimePasses) /\ UNCHANGED <<gatewayVars, subscriptionVars>>
  BY <1>1, <1>2, ShownTurn, SavedTurn, AckedTurn DEF ShownInvariant
<1>3. CASE SubscribeGatewayStep /\ UNCHANGED subscriberVars
  BY <1>1, <1>3, ShownGateway, SavedGateway, AckedGateway DEF ShownInvariant
<1>4. CASE UNCHANGED vars
  <2>1. UNCHANGED <<eventID, event, flags, history, program, toGateway, status, brokerSendQue,
                    brokerLink, sleepQue, stored>>
    BY <1>4 DEF vars, subscriberVars, machineVars, ownVars, netVars, gatewayVars, clientObject,
       brokerVars, subscriptionVars, deliveryVars, brokerSession
  <2> QED
    BY <1>1, <2>1 DEF ShownInvariant, ShownFirst, NothingSaved, MaySleep, Resting,
       AckedIsShown, InSession
<1> QED
  BY <1>1, <1>2, <1>3, <1>4, StepOfOne

LEMMA ShownInit == Init => ShownInvariant
<1> SUFFICES ASSUME Init
             PROVE  ShownInvariant
  OBVIOUS
<1>1. ShownFirst
  BY SystemStarts DEF ShownFirst
<1>2. NothingSaved
  BY SystemStarts DEF NothingSaved
<1>3. AckedIsShown
  BY SystemStarts DEF AckedIsShown, InSession, Joining
<1> QED
  BY <1>1, <1>2, <1>3 DEF ShownInvariant

\* When no message of the handshake comes twice, and whatever else is lost, doubled or
\* late, the broker gets no PUBACK and no PUBREC for a PUBLISH that the program has not
\* shown, while it is in its session and has not announced a sleep.
THEOREM AckedAlwaysShown ==
    ASSUME MaxRestarts = 0, Duplicated \cap Handshake = {}
    PROVE  Spec => []AckedIsShown
<1>1. TypeOK /\ OnlySession /\ ShownInvariant /\ [Next]_vars => ShownInvariant'
  BY ShownStep
<1>2. Init => ShownInvariant
  BY ShownInit
<1>3. ShownInvariant => AckedIsShown
  BY DEF ShownInvariant
<1>4. Spec => []OnlySession
  BY SessionIsOnly
<1> QED
  BY <1>1, <1>2, <1>3, <1>4, TypeCorrect, PTL DEF Spec

LEMMA SubscriptionStep ==
    ASSUME MaxRestarts = 0, Duplicated \cap Handshake = {},
           Duplicated \cap {"SUBSCRIBE", "SUBACK"} = {}
    PROVE  /\ TypeOK /\ OnlySession /\ OneSubscribe /\ SubscriptionAgrees /\ [Next]_vars
           => OneSubscribe' /\ SubscriptionAgrees'
<1> SUFFICES ASSUME TypeOK, OnlySession, OneSubscribe, SubscriptionAgrees, [Next]_vars
             PROVE  OneSubscribe' /\ SubscriptionAgrees'
  OBVIOUS
<1>1. restarts = 0 /\ JoinsClean /\ NoOtherSession /\ WantedAgrees
  BY DEF OnlySession
<1>2. CASE (SubscriberStep \/ TimePasses) /\ UNCHANGED <<gatewayVars, subscriptionVars>>
  BY <1>1, <1>2, OneTurn
<1>3. CASE SubscribeGatewayStep /\ UNCHANGED subscriberVars
  BY <1>1, <1>3, OneGateway
<1>4. CASE UNCHANGED vars
  <2>1. UNCHANGED <<eventID, client, flags, program, wildcard, toGateway, toClient, topics,
                    brokerSendQue, brokerLink, waitedSub>>
    BY <1>4 DEF vars, subscriberVars, machineVars, ownVars, netVars, gatewayVars, clientObject,
       brokerVars, subscriptionVars
  <2>2. WantedName' = WantedName /\ UNCHANGED <<eventID, client, topics>>
    BY <2>1 DEF WantedName
  <2>3. SubscriptionAgrees'
    BY <2>2 DEF SubscriptionAgrees, InSession
  <2> QED
    BY <2>1, <2>3 DEF OneSubscribe, InSession, Asked, Queued, Taken, Granted, Subscribes
<1> QED
  BY <1>1, <1>2, <1>3, <1>4, StepOfOne

\* When in addition neither the SUBSCRIBE nor its SUBACK comes twice, the program has no
\* topic id for its subscription, or the gateway's, once.
THEOREM SubscriptionAlwaysAgrees ==
    ASSUME MaxRestarts = 0, Duplicated \cap Handshake = {},
           Duplicated \cap {"SUBSCRIBE", "SUBACK"} = {}
    PROVE  Spec => []SubscriptionAgrees
<1>1. /\ TypeOK /\ OnlySession /\ OneSubscribe /\ SubscriptionAgrees /\ [Next]_vars
      => OneSubscribe' /\ SubscriptionAgrees'
  BY SubscriptionStep
<1>2. Init => OneSubscribe /\ SubscriptionAgrees
  BY SystemStarts DEF OneSubscribe, SubscriptionAgrees, InSession, Joining
<1>3. Spec => []OnlySession
  BY SessionIsOnly
<1> QED
  BY <1>1, <1>2, <1>3, TypeCorrect, PTL DEF Spec

----------------------------------------------------------------------------
(* AckedIsKept: what the gateway has taken leaves it for the client only. *)

\* The packets saved, the packets for the broker or with it, and the ids that have reached
\* the client or are still with the gateway.
Saved   == Entries(sleepQue) \cup Entries(stored)
Packets == Entries(brokerSendQue) \cup Entries(brokerLink)
Reached == history.read \cup history.lost \cup Held

\* The elements of a queue that has grown, lost its head, or been joined to another.
LEMMA QueueEntries ==
    ASSUME NEW S, NEW queue \in Seq(S)
    PROVE  /\ \A r \in S : Entries(Append(queue, r)) = Entries(queue) \cup {r}
           /\ queue # <<>> => Entries(queue) = Entries(Tail(queue)) \cup {Head(queue)}
           /\ \A other \in Seq(S) : Entries(queue \o other) = Entries(queue) \cup Entries(other)
           /\ \A i \in 1..Len(queue) : Entries(queue) \subseteq Entries(RemoveAt(queue, i)) \cup {queue[i]}
<1>1. ASSUME NEW r \in S
      PROVE  Entries(Append(queue, r)) = Entries(queue) \cup {r}
  <2>1. Len(Append(queue, r)) = Len(queue) + 1 /\ Len(queue) \in Nat
    OBVIOUS
  <2>2. \A i \in 1..(Len(queue) + 1) :
           Append(queue, r)[i] = IF i <= Len(queue) THEN queue[i] ELSE r
    OBVIOUS
  <2> QED
    BY <2>1, <2>2 DEF Entries
<1>2. ASSUME queue # <<>>
      PROVE  Entries(queue) = Entries(Tail(queue)) \cup {Head(queue)}
  <2>1. Len(queue) \in Nat /\ Len(queue) > 0 /\ Len(Tail(queue)) = Len(queue) - 1
    BY <1>2
  <2>2. Head(queue) = queue[1]
    BY <1>2
  <2>3. \A i \in 1..Len(Tail(queue)) : Tail(queue)[i] = queue[i + 1]
    BY <1>2
  <2>4. \A i \in 1..Len(queue) : i = 1 \/ (i - 1 \in 1..Len(Tail(queue)) /\ queue[i] = Tail(queue)[i - 1])
    BY <2>1, <2>3
  <2>5. \A i \in 1..Len(Tail(queue)) : i + 1 \in 1..Len(queue)
    BY <2>1
  <2>6. 1 \in 1..Len(queue)
    BY <2>1
  <2> QED
    BY ONLY <2>2, <2>3, <2>4, <2>5, <2>6 DEF Entries
<1>3. ASSUME NEW other \in Seq(S)
      PROVE  Entries(queue \o other) = Entries(queue) \cup Entries(other)
  <2> DEFINE m == Len(queue)
             n == Len(other)
  <2>1. m \in Nat /\ n \in Nat /\ Len(queue \o other) = m + n
    OBVIOUS
  <2>2. \A i \in 1..(m + n) : (queue \o other)[i] = IF i <= m THEN queue[i] ELSE other[i - m]
    OBVIOUS
  <2>3. \A i \in 1..m : i \in 1..(m + n) /\ (queue \o other)[i] = queue[i]
    BY <2>1, <2>2
  <2>4. \A i \in 1..n : m + i \in 1..(m + n) /\ (queue \o other)[m + i] = other[i]
    BY <2>1, <2>2
  <2>5. \A i \in 1..(m + n) : i \in 1..m \/ i - m \in 1..n
    BY <2>1
  <2>6. Entries(queue) \cup Entries(other) \subseteq Entries(queue \o other)
    BY <2>1, <2>3, <2>4 DEF Entries
  <2>7. \A i \in 1..(m + n) : (queue \o other)[i] \in Entries(queue) \cup Entries(other)
    BY <2>1, <2>2, <2>5 DEF Entries
  <2>8. Entries(queue \o other) \subseteq Entries(queue) \cup Entries(other)
    BY <2>1, <2>7 DEF Entries
  <2> QED
    BY <2>6, <2>8
<1>4. ASSUME NEW i \in 1..Len(queue)
      PROVE  Entries(queue) \subseteq Entries(RemoveAt(queue, i)) \cup {queue[i]}
  <2> DEFINE n == Len(queue)
             rest == RemoveAt(queue, i)
             before == SubSeq(queue, 1, i - 1)
             after == SubSeq(queue, i + 1, n)
  <2>1. n \in Nat /\ i \in 1..n
    OBVIOUS
  <2>2. /\ before \in Seq(S) /\ Len(before) = i - 1
        /\ \A j \in 1..(i - 1) : before[j] = queue[j]
    OBVIOUS
  <2>3. /\ after \in Seq(S) /\ Len(after) = n - i
        /\ \A j \in 1..(n - i) : after[j] = queue[j + i]
    OBVIOUS
  <2>4. rest = before \o after
    BY DEF RemoveAt
  <2> HIDE DEF before, after, n, rest
  <2>5. Len(rest) = n - 1
    BY <2>1, <2>2, <2>3, <2>4
  <2>6. \A j \in 1..(n - 1) : rest[j] = IF j <= i - 1 THEN before[j] ELSE after[j - (i - 1)]
    BY <2>1, <2>2, <2>3, <2>4
  <2>7. ASSUME NEW j \in 1..n, j # i
        PROVE  \E k \in 1..(n - 1) : rest[k] = queue[j]
    <3>1. CASE j < i
      <4>1. j \in 1..(n - 1) /\ j <= i - 1 /\ j \in 1..(i - 1)
        BY <2>1, <3>1
      <4> QED
        BY <2>2, <2>6, <4>1
    <3>2. CASE j > i
      <4>1. /\ j - 1 \in 1..(n - 1) /\ ~(j - 1 <= i - 1)
            /\ j - i \in 1..(n - i) /\ (j - 1) - (i - 1) = j - i /\ (j - i) + i = j
        BY <2>1, <3>2
      <4>2. rest[j - 1] = after[j - i]
        BY <2>6, <4>1
      <4>3. after[j - i] = queue[j]
        BY <2>3, <4>1
      <4> QED
        BY <4>1, <4>2, <4>3
    <3> QED
      BY <2>1, <2>7, <3>1, <3>2
  <2>8. \A a \in Entries(queue) : a \in Entries(rest) \/ a = queue[i]
    <3>1. SUFFICES ASSUME NEW j \in 1..Len(queue), queue[j] # queue[i]
                   PROVE  queue[j] \in Entries(rest)
      BY DEF Entries
    <3> QED
      BY <2>5, <2>7, <3>1 DEF Entries, n
  <2> QED
    BY <2>8 DEF rest
<1> QED
  BY <1>1, <1>2, <1>3, <1>4

\* A send takes nothing from the channel; with room and without loss it comes into it.
LEMMA SendReaches ==
    ASSUME Loss = FALSE, RoomLeft, IsFiniteSet(toClient), NEW m, GatewaySends(m)
    PROVE  toClient' = toClient \cup {m}
<1>1. Cardinality(toClient \cup {m}) <= Capacity
  <2>1. Cardinality(toClient) \in Nat
    BY FS_CardinalityType
  <2>2. Cardinality(toClient \cup {m}) \in {Cardinality(toClient), Cardinality(toClient) + 1}
    BY FS_AddElement
  <2> QED
    BY <2>1, <2>2, NetworkAssumption DEF RoomLeft
<1> QED
  BY <1>1 DEF GatewaySends, AfterSend

LEMMA SendKeeps ==
    ASSUME NEW m, GatewaySends(m)
    PROVE  /\ toClient \subseteq toClient' /\ toClient' \subseteq toClient \cup {m}
           /\ IsFiniteSet(toClient) => IsFiniteSet(toClient')
<1>1. toClient' \in {toClient, toClient \cup {m}}
  BY DEF GatewaySends, AfterSend
<1>2. IsFiniteSet(toClient) => IsFiniteSet(toClient \cup {m})
  BY FS_AddElement
<1> QED
  BY <1>1, <1>2

----------------------------------------------------------------------------
(* The program's turns. *)

LEMMA HearsOnce ==
    ASSUME SubscriberStep \/ TimePasses
    PROVE  \/ UNCHANGED <<toClient, history>>
           \/ \E m \in toClient : ClientReceives(m) /\ Remember(m)
<1> DEFINE Heard == \E m \in toClient : ClientReceives(m) /\ Remember(m)
           Silent == UNCHANGED <<toClient, history>>
<1> USE DEF ownVars, netVars
<1>1. ASSUME NEW m \in toClient, Reads(m) \/ ReadsAndAdvances(m), Remember(m)
      PROVE  Heard
  BY <1>1 DEF Reads, ReadsAndAdvances
<1>2. CASE TimePasses
  BY <1>2 DEF TimePasses, Tick
<1>3. CASE Connecting
  BY <1>1, <1>3 DEF Connecting, ConnectingNoMsg, ConnectingRead, Reading
<1>4. CASE AskedForWill
  BY <1>1, <1>4 DEF AskedForWill, WillNoMsg, WillTopReqRead, WillMsgReqRead, Reading
<1>5. CASE Connected
  <2>1. CASE SendRegister \/ SendPublish \/ SendSubscribe \/ SendPing \/ AnnounceSleep \/ FallAsleep
    BY <2>1 DEF SendRegister, SendPublish, SendSubscribe, SendPing, AnnounceSleep,
                    FallAsleep, NotReading
  <2>2. ASSUME NEW m \in toClient, ReadConnected(m)
        PROVE  Heard
    BY <1>1, <2>2 DEF ReadConnected, Reading
  <2> QED
    BY <1>5, <2>1, <2>2 DEF Connected
<1>6. CASE Receiving
  BY <1>1, <1>6 DEF Receiving, SendPuback, ReleaseNoMsg, NotReading, ReadRelease, Reading
<1>7. CASE AskingTopic
  BY <1>1, <1>7 DEF AskingTopic, JoiningNoMsg, NotReading, RegisteringRead, SubscribingRead
<1>8. CASE Pinging
  BY <1>1, <1>8 DEF Pinging, PingRetry, PingGiveUp, PingAnswered, PingUnexpected, Reading
<1>9. CASE Publishing
  BY <1>1, <1>9 DEF Publishing, PublishNoMsg, PublishAcked, PublishUnexpected, Reading
<1>10. CASE Sleeping
  BY <1>1, <1>10 DEF Sleeping, DisconnectingNoMsg, NotReading, WakeUp, DisconnectingRead, Reading
<1>11. CASE Closing
  BY <1>11 DEF Closing, Close
<1> QED
  BY <1>2, <1>3, <1>4, <1>5, <1>6, <1>7, <1>8, <1>9, <1>10, <1>11, Turns

\* What the program reads has reached it.
LEMMA ReachedTurn ==
    ASSUME TypeOK, SubscriberStep \/ TimePasses, UNCHANGED subscriptionVars
    PROVE  Reached \subseteq Reached'
<1>1. UNCHANGED <<sleepQue, stored, parked>>
  BY DEF subscriptionVars, deliveryVars
<1>2. CASE UNCHANGED <<toClient, history>>
  BY <1>1, <1>2 DEF Reached, Held
<1>3. ASSUME NEW m \in toClient, ClientReceives(m), Remember(m)
      PROVE  Reached \subseteq Reached'
  <2>1. \A n \in toClient : n \in toClient' \/ n = m
    BY <1>3 DEF ClientReceives, AfterReceive
  <2>2. m.type = "PUBLISH" => m.msgID # 0
    <3>1. m \in DeliveryMessages
      BY DEF TypeOK, SubscribeGatewayTypeOK
    <3> QED
      BY <3>1, SubscribeGatewayAssumption DEF DeliveryMessages
  <2>3. /\ history.read \subseteq history'.read /\ history'.lost = history.lost
        /\ m.type = "PUBLISH" => m.msgID \in history'.read
    <3>1. CASE m.type = "PUBLISH"
      <4>1. PICK shown : history' = [history EXCEPT !.read = history.read \cup {m.msgID},
                                                    !.shown = shown]
        BY <1>3, <2>2, <3>1 DEF Remember
      <4> QED
        BY <4>1 DEF TypeOK, SubscriberTypeOK
    <3>2. CASE m.type # "PUBLISH"
      BY <1>3, <3>2 DEF Remember
    <3> QED
      BY <3>1, <3>2
  <2>4. \A n \in PublishesTo(toClient) : n \in PublishesTo(toClient') \/ n.msgID \in history'.read
    BY <2>1, <2>3 DEF PublishesTo
  <2> QED
    BY <1>1, <2>3, <2>4 DEF Reached, Held
<1> QED
  BY <1>2, <1>3, HearsOnce

\* A PUBCOMP answers a PUBREL, with its message id.
LEMMA ReleaseTurn ==
    ASSUME TypeOK, SubscriberStep \/ TimePasses, NEW m \in toGateway', m.type = "PUBCOMP"
    PROVE  m \in toGateway \/ \E n \in toClient : n.type = "PUBREL" /\ n.msgID = m.msgID
<1> DEFINE Goal == m \in toGateway \/ \E n \in toClient : n.type = "PUBREL" /\ n.msgID = m.msgID
<1>1. ASSUME NEW a, NEW next, SendOrQuit(a, next), a.type # "PUBCOMP"
      PROVE  Goal
  BY <1>1, SendOrQuitSends
<1>2. ASSUME NEW a, ClientSends(a), a.type # "PUBCOMP"
      PROVE  Goal
  BY <1>2, SendAdds DEF ClientSends
<1>3. CASE TimePasses
  BY <1>3 DEF TimePasses, Tick, netVars
<1>4. CASE Connecting
  BY <1>1, <1>4 DEF Connecting, ConnectingNoMsg, ConnectingRead, WillTopic, netVars
<1>5. CASE AskedForWill
  BY <1>1, <1>5, QuitSends
     DEF AskedForWill, WillNoMsg, WillTopReqRead, WillMsgReqRead, WillMsg
<1>6. CASE Connected
  <2>1. CASE SendRegister \/ SendPublish
    BY <1>1, <2>1 DEF SendRegister, SendPublish, Register, Publish
  <2>2. CASE SendSubscribe \/ SendPing \/ AnnounceSleep \/ FallAsleep
    BY <1>2, <2>2 DEF SendSubscribe, SendPing, AnnounceSleep, FallAsleep, Subscribe, PingReq, Disconnect
  <2>3. ASSUME NEW n \in toClient, ReadConnected(n)
        PROVE  Goal
    <3>1. CASE TakePublishQos1(n) \/ TakePingResp(n) \/ Forget(n)
      BY <3>1 DEF TakePublishQos1, TakePingResp, Forget
    <3>2. CASE TakePublishQos2(n) \/ RejectPublish(n)
      BY <1>2, <3>2 DEF TakePublishQos2, RejectPublish, Ack, PubAck
    <3>3. CASE AnswerRegister(n)
      BY <1>1, <3>3 DEF AnswerRegister, RegAck
    <3> QED
      BY <2>3, <3>1, <3>2, <3>3 DEF ReadConnected
  <2> QED
    BY <1>6, <2>1, <2>2, <2>3 DEF Connected
<1>7. CASE Receiving
  <2>1. CASE SendPuback
    BY <1>2, <2>1 DEF SendPuback, PubAck
  <2>2. CASE ReleaseNoMsg
    BY <2>2 DEF ReleaseNoMsg
  <2>3. ASSUME NEW n \in toClient, ReadRelease(n)
        PROVE  Goal
    <3>1. CASE m \in toGateway
      BY <3>1
    <3>2. CASE m \notin toGateway
      <4>1. Result(n).rc = "Q_PubRelRead" /\ m = Ack("PUBCOMP", Result(n).event.msgID)
        BY <2>3, <3>2, SendAdds DEF ReadRelease, ReleaseUnexpected, Release, ClientSends
      <4>2. n \in DeliveryMessages
        BY DEF TypeOK, SubscribeGatewayTypeOK
      <4>3. n.type = "PUBREL"
        BY <4>1, <4>2 DEF DeliveryMessages, Result, readMsg, readConnack, readSubAck, readReg,
                          readRegAck, readPubAck, readPub, readRecRelComp, Outcome
      <4>4. Result(n) = readRecRelComp(n, client, event, "Q_PubRelRead")
        BY <4>3 DEF Result, readMsg
      <4>5. n.msgID = event.msgID /\ Result(n).event = event
        BY <4>1, <4>4 DEF readRecRelComp, Outcome
      <4> QED
        BY <4>1, <4>3, <4>5 DEF Ack
    <3> QED
      BY <3>1, <3>2
  <2> QED
    BY <1>7, <2>1, <2>2, <2>3 DEF Receiving
<1>8. CASE AskingTopic
  BY <1>8 DEF AskingTopic, JoiningNoMsg, RegisteringRead, SubscribingRead
<1>9. CASE Pinging
  BY <1>1, <1>9 DEF Pinging, PingRetry, PingGiveUp, PingAnswered, PingUnexpected, PingReq, netVars
<1>10. CASE Publishing
  BY <1>10 DEF Publishing, PublishNoMsg, PublishAcked, PublishUnexpected, netVars
<1>11. CASE Sleeping
  BY <1>2, <1>11 DEF Sleeping, DisconnectingNoMsg, WakeUp, DisconnectingRead, PingReq
<1>12. CASE Closing
  BY <1>12 DEF Closing, Close, netVars
<1> QED
  BY <1>3, <1>4, <1>5, <1>6, <1>7, <1>8, <1>9, <1>10, <1>11, <1>12, Turns

\* A program that joins sends the rest of its handshake or leaves, one that has left nothing.
LEMMA OpeningSends ==
    ASSUME SubscriberStep \/ TimePasses, eventID \in Joining \cup {"Q_DISCONNECTED"}
    PROVE  \A m \in toGateway' :
              m \in toGateway \/ m.type \in {"WILLTOPIC", "WILLMSG", "DISCONNECT"}
<1> USE DEF Joining
<1>1. CASE TimePasses \/ Closing
  BY <1>1 DEF TimePasses, Tick, Closing, Close, netVars
<1>2. CASE Connecting
  BY <1>2, SendOrQuitSends DEF Connecting, ConnectingNoMsg, ConnectingRead, WillTopic, netVars
<1>3. CASE AskedForWill
  BY <1>3, SendOrQuitSends, QuitSends
     DEF AskedForWill, WillNoMsg, WillTopReqRead, WillMsgReqRead, WillMsg
<1>4. ~Connected /\ ~Receiving /\ ~AskingTopic /\ ~Sleeping
  BY DEF Connected, Receiving, SendPuback, ReleaseNoMsg, ReadRelease, AskingTopic, JoiningNoMsg,
         RegisteringRead, SubscribingRead, Sleeping, DisconnectingNoMsg, WakeUp, DisconnectingRead
<1>5. ~Pinging /\ ~Publishing
  BY DEF Pinging, PingRetry, PingGiveUp, PingAnswered, PingUnexpected, Publishing, PublishNoMsg,
         PublishAcked, PublishUnexpected
<1> QED
  BY <1>1, <1>2, <1>3, <1>4, <1>5, Turns

LEMMA KeptTurn ==
    ASSUME TypeOK, NoOtherSession, KeptInvariant,
           SubscriberStep \/ TimePasses, UNCHANGED <<gatewayVars, subscriptionVars>>
    PROVE  KeptInvariant'
<1>1. UNCHANGED <<status, topics, brokerSendQue, brokerLink, sleepQue, stored, brokerSub,
                  published, acknowledged>>
  BY DEF gatewayVars, clientObject, brokerVars, subscriptionVars, deliveryVars, brokerSession
<1>2. UNCHANGED <<Served, Answering, Asking>>
  BY <1>1 DEF Served, Resting, Answering, Asking
<1>3. toClient' \subseteq toClient
  BY TurnedStep DEF Turned
<1>4. IsFiniteSet(toClient')
  BY <1>3, FS_Subset DEF KeptInvariant
<1>5. NothingPublished'
  <2> SUFFICES ASSUME Opening'
               PROVE  NothingPublished'
    BY DEF NothingPublished
  <2>1. Opening
    BY <1>1, TurnedStep DEF Opening, Turned, MaySend, Subscribe, PubAck, Ack
  <2>2. eventID \in Joining \cup {"Q_DISCONNECTED"}
    BY <2>1 DEF Opening, NoOtherSession, InSession
  <2>3. \A m \in toGateway' :
           m \in toGateway \/ m.type \in {"WILLTOPIC", "WILLMSG", "DISCONNECT"}
    BY <2>2, OpeningSends
  <2>4. /\ published = 0 /\ brokerSub = 0
        /\ Answering = {} /\ Releasing = {} /\ Asking = {}
        /\ \A m \in toGateway : m.type \notin AnswerTypes \cup {"SUBSCRIBE"}
    BY <2>1 DEF KeptInvariant, NothingPublished, Unused
  <2>5. \A m \in toGateway' : m.type \notin AnswerTypes \cup {"SUBSCRIBE"}
    BY <2>3, <2>4 DEF AnswerTypes
  <2>6. Releasing' = {}
    BY <1>3, <2>4, <2>5 DEF Releasing, AnswerTypes
  <2> QED
    BY <1>1, <1>2, <2>4, <2>5, <2>6 DEF NothingPublished, Unused
<1>6. NamesKnown'
  BY <1>1, <1>2 DEF KeptInvariant, NamesKnown, Deliverable, MatchesFilter
<1>7. FinishedIsKept'
  <2>1. Reached \subseteq Reached'
    BY ReachedTurn DEF subscriptionVars
  <2>2. ASSUME NEW m \in Releasing'
        PROVE  \E n \in Releasing : n.msgID = m.msgID
    BY <1>3, <2>2, ReleaseTurn DEF Releasing
  <2>3. Finished' \subseteq Finished
    BY <1>1, <1>2, <2>2 DEF Finished
  <2> QED
    BY <1>2, <2>1, <2>3 DEF KeptInvariant, FinishedIsKept, Reached
<1> QED
  BY <1>4, <1>5, <1>6, <1>7 DEF KeptInvariant

----------------------------------------------------------------------------
(* The gateway's steps. *)

\* Why a packet comes into the queue for the broker.
Reason(r) ==
    \/ r.type \notin AnswerTypes \cup {"SUBSCRIBE", "CONNECT"}
    \/ r.type = "CONNECT" /\ \E m \in toGateway : m.type \in {"CONNECT", "WILLMSG"}
    \/ /\ r.type = "SUBSCRIBE" /\ topics'[r.name] # 0
       /\ \E m \in toGateway : m.type = "SUBSCRIBE"
    \/ /\ r.type \in AnswerTypes
       /\ \E m \in toGateway : /\ m.type = r.type /\ m.msgID = r.id
                               /\ m.type = "PUBACK" => m.rc = "accepted"
    \/ r.type = "PUBCOMP" /\ \E a \in Answering : a.id = r.id
    \/ /\ r.type \in {"PUBACK", "PUBREC"}
       /\ brokerSub # 0 \/ stored # <<>>
       /\ r.id \in {p.id : p \in Saved'}

\* What the broker publishes is on a name that the subscription covers.
BrokerName == IF brokerSub = Filter THEN Topic1 ELSE brokerSub

\* A client that is served goes on being served: no topic, and no PUBLISH on its way to
\* the client, is forgotten.
GoesOn ==
    /\ TopicsKept
    /\ \A p \in Saved' : p \in Saved \/ (brokerSub # 0 /\ p.name = BrokerName)
    /\ Reached \subseteq Reached'

\* What every step of the gateway does.
Handles ==
    /\ \A r \in Packets' : r \in Packets \/ Reason(r)
    /\ \A m \in toClient' : m.type = "PUBREL" => m \in toClient \/ \E a \in Answering : a.id = m.msgID
    /\ acknowledged' \subseteq acknowledged \cup {a.id : a \in Answering}
    /\ brokerSub' \in {0, brokerSub} \/ \E r \in Asking : brokerSub' = r.name
    /\ published' = published \/ brokerSub # 0
    /\ Served' => Served \/ \E r \in Packets : r.type = "CONNECT"
    /\ Served /\ Served' => GoesOn
    /\ IsFiniteSet(toClient')

LEMMA EmptyQueues ==
    ASSUME NEW S, NEW one \in Seq(S), NEW other \in Seq(S), NEW n \in Nat,
           Len(one) + Len(other) + n <= 0
    PROVE  one = <<>> /\ other = <<>> /\ Entries(one) \cup Entries(other) = {}
<1>1. Len(one) \in Nat /\ Len(other) \in Nat
  OBVIOUS
<1>2. Len(one) = 0 /\ Len(other) = 0
  BY <1>1
<1> QED
  BY <1>2 DEF Entries

\* So the invariant follows.
LEMMA HandlesKeeps ==
    ASSUME TypeOK, TypeOK', ShownFirst, KeptInvariant, Handles,
           toGateway' \subseteq toGateway, UNCHANGED <<eventID, history>>
    PROVE  KeptInvariant'
<1>0. /\ sleepQue \in Seq(BrokerPackets) /\ stored \in Seq(BrokerPackets)
      /\ Len(sleepQue) + Len(stored) + snMsgId <= published /\ snMsgId \in Nat
  BY DEF TypeOK, SubscribeGatewayTypeOK, Accounted
<1>1. published = 0 => stored = <<>>
  BY <1>0, EmptyQueues
<1>2. ASSUME Opening
      PROVE  Unused'
  <2>1. /\ published = 0 /\ brokerSub = 0
        /\ Answering = {} /\ Releasing = {} /\ Asking = {}
        /\ \A m \in toGateway : m.type \notin AnswerTypes \cup {"SUBSCRIBE"}
    BY <1>2 DEF KeptInvariant, NothingPublished, Unused
  <2>2. published' = 0 /\ brokerSub' = 0
    BY <2>1 DEF Handles
  <2>3. ASSUME NEW r \in Packets'
        PROVE  r.type \notin AnswerTypes \cup {"SUBSCRIBE"}
    <3>1. CASE r \in Packets
      BY <2>1, <3>1 DEF Packets, Answering, Asking
    <3>2. CASE Reason(r)
      BY <1>1, <2>1, <3>2 DEF Reason, AnswerTypes
    <3> QED
      BY <3>1, <3>2 DEF Handles
  <2>4. Answering' = {} /\ Asking' = {}
    BY <2>3 DEF Answering, Asking, Packets
  <2>5. Releasing' = {}
    BY <2>1 DEF Releasing, Handles, AnswerTypes
  <2> QED
    BY <2>1, <2>2, <2>4, <2>5 DEF Unused
<1>3. NothingPublished'
  <2> SUFFICES ASSUME Opening'
               PROVE  Opening
    BY <1>2 DEF NothingPublished
  <2> QED
    BY DEF Opening, Handles, Packets, Reason, AnswerTypes
<1>4. CASE ~Served'
  BY <1>3, <1>4 DEF KeptInvariant, Handles, NamesKnown, FinishedIsKept
<1>5. CASE Served /\ Served'
  <2>1. /\ \A r \in Asking : topics[r.name] # 0
        /\ brokerSub # 0 => topics[brokerSub] # 0
        /\ \A p \in Saved : Deliverable(p.name)
        /\ Finished \subseteq Reached
    BY <1>5 DEF KeptInvariant, NamesKnown, FinishedIsKept, Saved, Reached
  <2>2. GoesOn
    BY <1>5 DEF Handles
  <2>3. /\ brokerSendQue \in Seq(SubscribeRequests) /\ brokerLink \in Seq(SubscribeRequests)
        /\ sleepQue \in Seq(BrokerPackets) /\ stored \in Seq(BrokerPackets)
        /\ brokerSub \in TopicNames \cup {0}
    BY DEF TypeOK, SubscribeGatewayTypeOK
  <2>4. ASSUME NEW r \in Asking
        PROVE  r.name \in TopicNames
    <3>1. r \in SubscribeRequests /\ r.type = "SUBSCRIBE"
      BY <2>3, <2>4 DEF Asking, Entries
    <3> QED
      BY <3>1 DEF SubscribeRequests
  <2>5. ASSUME NEW p \in Saved
        PROVE  p.name \in TopicNames
    <3>1. p \in BrokerPackets
      BY <2>3, <2>5 DEF Saved, Entries
    <3> QED
      BY <3>1 DEF BrokerPackets
  <2>6. \A name \in TopicNames : topics[name] # 0 => topics'[name] # 0
    BY <2>2 DEF GoesOn, TopicsKept
  <2>7. \A name \in TopicNames : Deliverable(name) => Deliverable(name)'
    BY <2>6, SubscribeGatewayAssumption DEF Deliverable, MatchesFilter
  <2>8. NamesKnown'
    <3>1. ASSUME NEW r \in Asking'
          PROVE  topics'[r.name] # 0
      <4>1. CASE r \in Packets
        BY <2>1, <2>4, <2>6, <3>1, <4>1 DEF Asking, Packets
      <4>2. CASE Reason(r)
        BY <3>1, <4>2 DEF Reason, Asking, AnswerTypes
      <4> QED
        BY <3>1, <4>1, <4>2 DEF Handles, Asking, Packets
    <3>2. brokerSub' # 0 => topics'[brokerSub'] # 0
      BY <2>1, <2>3, <2>4, <2>6 DEF Handles
    <3>3. ASSUME NEW p \in Saved'
          PROVE  Deliverable(p.name)'
      <4>1. CASE p \in Saved
        BY <2>1, <2>5, <2>7, <4>1
      <4>2. CASE brokerSub # 0 /\ p.name = BrokerName
        <5>1. topics'[brokerSub] # 0
          BY <2>1, <2>3, <2>6, <4>2
        <5>2. CASE brokerSub = Filter
          BY <4>2, <5>1, <5>2 DEF BrokerName, Deliverable, MatchesFilter
        <5>3. CASE brokerSub # Filter
          BY <4>2, <5>1, <5>3 DEF BrokerName, Deliverable
        <5> QED
          BY <5>2, <5>3
      <4> QED
        BY <2>2, <3>3, <4>1, <4>2 DEF GoesOn
    <3> QED
      BY <3>1, <3>2, <3>3 DEF NamesKnown, Saved
  <2>9. FinishedIsKept'
    <3>1. Reached \subseteq Reached'
      BY <2>2 DEF GoesOn
    <3>2. acknowledged' \subseteq Reached'
      BY <2>1, <3>1 DEF Handles, Finished
    <3>3. ASSUME NEW r \in Answering'
          PROVE  r.id \in Reached'
      <4>1. CASE r \in Packets
        BY <2>1, <3>1, <3>3, <4>1 DEF Finished, Answering, Packets
      <4>2. CASE Reason(r)
        <5>1. CASE \E m \in toGateway : /\ m.type = r.type /\ m.msgID = r.id
                                        /\ m.type = "PUBACK" => m.rc = "accepted"
          <6>1. PICK m \in toGateway : /\ m.type = r.type /\ m.msgID = r.id
                                       /\ m.type = "PUBACK" => m.rc = "accepted"
            BY <5>1
          <6>2. CASE m.type = "PUBCOMP"
            BY <2>1, <3>1, <6>1, <6>2 DEF Finished, Releasing
          <6>3. CASE m.type # "PUBCOMP"
            <7>1. m.msgID \in history.shown
              BY <3>3, <6>1, <6>3 DEF ShownFirst, Answering, AnswerTypes
            <7>2. history.shown \subseteq history.read
              BY DEF TypeOK, SubscriberTypeOK
            <7> QED
              BY <6>1, <7>1, <7>2 DEF Reached
          <6> QED
            BY <6>2, <6>3
        <5>2. CASE \E a \in Answering : a.id = r.id
          BY <2>1, <3>1, <5>2 DEF Finished
        <5>3. CASE r.id \in {p.id : p \in Saved'}
          BY <5>3 DEF Saved, Reached, Held
        <5> QED
          BY <3>3, <4>2, <5>1, <5>2, <5>3 DEF Reason, Answering, AnswerTypes
      <4> QED
        BY <3>3, <4>1, <4>2 DEF Handles, Answering, Packets
    <3>4. ASSUME NEW m \in Releasing'
          PROVE  m.msgID \in Reached'
      BY <2>1, <3>1, <3>4 DEF Finished, Releasing, Handles
    <3> QED
      BY <3>2, <3>3, <3>4 DEF FinishedIsKept, Finished, Reached
  <2> QED
    BY <1>3, <2>8, <2>9 DEF KeptInvariant, Handles
<1>6. CASE ~Served /\ Served'
  <2>1. Opening
    BY <1>6 DEF Handles, Opening, Packets
  <2>2. /\ published' = 0 /\ brokerSub' = 0
        /\ Answering' = {} /\ Releasing' = {} /\ Asking' = {}
    BY <1>2, <2>1 DEF Unused
  <2>3. Saved' = {} /\ acknowledged' = {}
    <3>1. /\ sleepQue' \in Seq(BrokerPackets) /\ stored' \in Seq(BrokerPackets)
          /\ Len(sleepQue') + Len(stored') + snMsgId' <= 0 /\ snMsgId' \in Nat
          /\ acknowledged' \subseteq 1..0
      BY <2>2 DEF TypeOK, SubscribeGatewayTypeOK, Accounted
    <3> QED
      BY <3>1, EmptyQueues DEF Saved
  <2>4. NamesKnown'
    BY <2>2, <2>3 DEF NamesKnown, Saved
  <2>5. FinishedIsKept'
    BY <2>2, <2>3 DEF FinishedIsKept, Finished
  <2> QED
    BY <1>3, <2>4, <2>5 DEF KeptInvariant, Handles
<1> QED
  BY <1>4, <1>5, <1>6

\* The queues for the broker.
LEMMA PacketsChange ==
    ASSUME TypeOK
    PROVE  /\ \A r \in SubscribeRequests :
                 ToBroker(r) /\ UNCHANGED brokerLink => Packets' = Packets \cup {r}
           /\ brokerSendQue # <<>> /\ brokerSendQue' = Tail(brokerSendQue)
              /\ brokerLink' \in {brokerLink, Append(brokerLink, Head(brokerSendQue)),
                                  <<Head(brokerSendQue)>>}
              => Packets' \subseteq Packets
           /\ brokerLink # <<>> =>
                 /\ Head(brokerLink) \in Packets
                 /\ brokerLink' = Tail(brokerLink) /\ UNCHANGED brokerSendQue => Packets' \subseteq Packets
                 /\ \A r \in SubscribeRequests :
                       brokerLink' = Tail(brokerLink) /\ ToBroker(r) => Packets' \subseteq Packets \cup {r}
<1>1. brokerSendQue \in Seq(SubscribeRequests) /\ brokerLink \in Seq(SubscribeRequests)
  BY DEF TypeOK, SubscribeGatewayTypeOK
<1>2. ASSUME NEW r \in SubscribeRequests, ToBroker(r), UNCHANGED brokerLink
      PROVE  Packets' = Packets \cup {r}
  BY <1>1, <1>2, SubscribeEntries DEF ToBroker, Packets
<1>3. ASSUME brokerSendQue # <<>>, brokerSendQue' = Tail(brokerSendQue),
             brokerLink' \in {brokerLink, Append(brokerLink, Head(brokerSendQue)),
                              <<Head(brokerSendQue)>>}
      PROVE  Packets' \subseteq Packets
  <2>1. /\ Head(brokerSendQue) \in SubscribeRequests
        /\ Entries(brokerSendQue) = Entries(Tail(brokerSendQue)) \cup {Head(brokerSendQue)}
    BY <1>1, <1>3, QueuesTyped, SubscribeEntries
  <2>2. /\ Entries(Append(brokerLink, Head(brokerSendQue))) = Entries(brokerLink) \cup {Head(brokerSendQue)}
        /\ Entries(<<Head(brokerSendQue)>>) = {Head(brokerSendQue)}
    BY <1>1, <2>1, SubscribeEntries
  <2>3. Entries(brokerLink') \subseteq Entries(brokerLink) \cup {Head(brokerSendQue)}
    BY <1>3, <2>2
  <2> QED
    BY <1>3, <2>1, <2>3 DEF Packets
<1>4. ASSUME brokerLink # <<>>
      PROVE  /\ Head(brokerLink) \in Packets
             /\ brokerLink' = Tail(brokerLink) => Entries(brokerLink') \subseteq Entries(brokerLink)
  BY <1>1, <1>4, SubscribeEntries DEF Packets
<1>5. ASSUME NEW r \in SubscribeRequests, ToBroker(r)
      PROVE  Entries(brokerSendQue') = Entries(brokerSendQue) \cup {r}
  BY <1>1, <1>5, SubscribeEntries DEF ToBroker
<1> QED
  BY <1>2, <1>3, <1>4, <1>5 DEF Packets

\* What reached the client, or was on its way, goes on.
LEMMA ReachedGrows ==
    ASSUME UNCHANGED history, toClient \subseteq toClient',
           \A p \in Saved : p.id \in Held',
           \A w \in Entries(parked) : w.publish.msgID \in Held'
    PROVE  Reached \subseteq Reached'
<1>1. PublishesTo(toClient) \subseteq PublishesTo(toClient')
  BY DEF PublishesTo
<1> QED
  BY <1>1 DEF Reached, Held, Saved

\* A step that delivers nothing and saves nothing.
Elsewhere ==
    /\ UNCHANGED <<history, parked>>
    /\ Saved' = Saved
    /\ toClient \subseteq toClient'
    /\ TopicsKept

LEMMA ElsewhereGoesOn == Elsewhere => GoesOn
<1> SUFFICES ASSUME Elsewhere
             PROVE  GoesOn
  OBVIOUS
<1>1. /\ \A p \in Saved : p.id \in Held'
      /\ \A w \in Entries(parked) : w.publish.msgID \in Held'
  BY DEF Elsewhere, Held, Saved
<1> QED
  BY <1>1, ReachedGrows DEF GoesOn, Elsewhere

\* A step that leaves what the broker knows of the client.
BrokerLeft == UNCHANGED <<published, brokerSub, acknowledged>>

LEMMA SendsOther ==
    ASSUME KeptInvariant, NEW m, m.type # "PUBREL", GatewaySends(m)
    PROVE  /\ toClient \subseteq toClient' /\ IsFiniteSet(toClient')
           /\ \A n \in toClient' : n.type = "PUBREL" => n \in toClient
BY SendKeeps DEF KeptInvariant

\* The packets of the client, the REGACK aside.
LEMMA PacketHandles ==
    ASSUME TypeOK, KeptInvariant, UNCHANGED subscriberVars,
           NEW m \in toGateway, SubscriberPackets(m), ~HandleRegAck(m)
    PROVE  Handles
<1> USE DEF clientObject, brokerVars, gatewayVars, deliveryVars, subscriptionVars, brokerSession
<1>1. UNCHANGED history
  BY DEF subscriberVars, ownVars
<1>2. m \in SubscriberMessages
  BY DEF TypeOK, SubscriberTypeOK
<1>3. ASSUME BrokerLeft, ~Served' \/ (Served /\ Elsewhere),
             NEW r \in SubscribeRequests, Reason(r),
             UNCHANGED <<brokerSendQue, brokerLink>> \/ (ToBroker(r) /\ UNCHANGED brokerLink),
             \/ UNCHANGED toClient
             \/ \E n : n.type # "PUBREL" /\ GatewaySends(n)
      PROVE  Handles
  <2>1. \A a \in Packets' : a \in Packets \/ Reason(a)
    <3>1. Packets' = Packets \/ Packets' = Packets \cup {r}
      BY <1>3, PacketsChange DEF Packets
    <3> QED
      BY <1>3, <3>1
  <2>2. /\ IsFiniteSet(toClient')
        /\ \A n \in toClient' : n.type = "PUBREL" => n \in toClient
    <3>1. CASE UNCHANGED toClient
      BY <3>1 DEF KeptInvariant
    <3>2. ASSUME NEW n, n.type # "PUBREL", GatewaySends(n)
          PROVE  /\ IsFiniteSet(toClient')
                 /\ \A a \in toClient' : a.type = "PUBREL" => a \in toClient
      BY <3>2, SendsOther
    <3> QED
      BY <1>3, <3>1, <3>2
  <2> QED
    BY <1>3, <2>1, <2>2, ElsewhereGoesOn DEF Handles, BrokerLeft
<1>4. Request("PINGREQ", 0, 0) \in SubscribeRequests /\ Reason(Request("PINGREQ", 0, 0))
  BY RequestsTyped DEF Request, Reason, AnswerTypes
<1>5. UNCHANGED topics => TopicsKept
  BY DEF TopicsKept
<1>6. /\ sleepQue \in Seq(BrokerPackets) /\ stored \in Seq(BrokerPackets)
      /\ Entries(stored \o sleepQue) = Entries(stored) \cup Entries(sleepQue)
      /\ Entries(<<>>) = {}
  <2>1. sleepQue \in Seq(BrokerPackets) /\ stored \in Seq(BrokerPackets)
    BY DEF TypeOK, SubscribeGatewayTypeOK
  <2>2. Entries(stored \o sleepQue) = Entries(stored) \cup Entries(sleepQue)
    BY <2>1, QueueEntries
  <2>3. Entries(<<>>) = {}
    BY DEF Entries
  <2> QED
    BY <2>1, <2>2, <2>3
<1>7. CASE HandleConnectResting(m)
  <2>1. /\ Served /\ BrokerLeft /\ UNCHANGED <<parked, topics, brokerSendQue, brokerLink>>
        /\ GatewaySends(ConnAck("accepted")) /\ ConnAck("accepted").type = "CONNACK"
        /\ stored' = stored \o sleepQue /\ sleepQue' = <<>>
    BY <1>7 DEF HandleConnectResting, Served, BrokerLeft, ConnAck
  <2>2. Saved' = Saved
    BY <1>6, <2>1 DEF Saved
  <2>3. Elsewhere
    BY <1>1, <1>5, <2>1, <2>2, SendsOther DEF Elsewhere
  <2> QED
    BY <1>3, <1>4, <2>1, <2>3
<1>8. CASE HandleConnectClean(m)
  <2> DEFINE r == Request("CONNECT", 0, 0)
  <2>1. r \in SubscribeRequests /\ r.type = "CONNECT" /\ m.type = "CONNECT"
    BY <1>8, RequestsTyped DEF Request, HandleConnectClean, HandleConnect
  <2>2. Reason(r)
    BY <2>1 DEF Reason
  <2>3. ~Served' /\ BrokerLeft
    BY <1>8 DEF HandleConnectClean, HandleConnect, disconnected, Served, Resting, BrokerLeft
  <2>4. /\ UNCHANGED brokerLink
        /\ UNCHANGED brokerSendQue \/ ToBroker(r)
        /\ UNCHANGED toClient \/ GatewaySends(WillTopicReq)
        /\ WillTopicReq.type # "PUBREL"
    BY <1>8 DEF HandleConnectClean, HandleConnect, WillTopicReq
  <2> HIDE DEF r
  <2> QED
    BY <1>3, <2>1, <2>2, <2>3, <2>4
<1>9. CASE HandleDisconnectOrSleep(m)
  <2> DEFINE r == Request("DISCONNECT", 0, 0)
  <2>1. r \in SubscribeRequests /\ Reason(r)
    BY RequestsTyped DEF Request, Reason, AnswerTypes
  <2>2. /\ BrokerLeft /\ UNCHANGED <<parked, stored, sleepQue, topics, brokerLink>>
        /\ GatewaySends(Disconnect(0)) /\ Disconnect(0).type = "DISCONNECT"
        /\ UNCHANGED brokerSendQue \/ ToBroker(r)
    BY <1>9 DEF HandleDisconnectOrSleep, BrokerLeft, Disconnect
  <2>3. Served' => Served
    BY <1>9 DEF HandleDisconnectOrSleep, disconnected, Served, Resting
  <2>4. Elsewhere
    BY <1>1, <1>5, <2>2, SendsOther DEF Elsewhere, Saved
  <2> HIDE DEF r
  <2> QED
    BY <1>3, <2>1, <2>2, <2>3, <2>4
<1>10. CASE HandlePingreqOrWake(m)
  <2>1. /\ BrokerLeft /\ UNCHANGED <<parked, topics, brokerLink, toClient>>
        /\ UNCHANGED brokerSendQue \/ ToBroker(Request("PINGREQ", 0, 0))
    BY <1>10 DEF HandlePingreqOrWake, BrokerLeft
  <2>2. Served' => Served
    BY <1>10 DEF HandlePingreqOrWake, Served, Resting
  <2>3. \/ stored' = stored \o sleepQue /\ sleepQue' = <<>>
        \/ UNCHANGED <<stored, sleepQue>>
    BY <1>10 DEF HandlePingreqOrWake
  <2>4. Saved' = Saved
    BY <1>6, <2>3 DEF Saved
  <2>5. Elsewhere
    BY <1>1, <1>5, <2>1, <2>4 DEF Elsewhere
  <2> QED
    BY <1>3, <1>4, <2>1, <2>2, <2>5
<1>11. CASE HandleSubscribe(m)
  <2> DEFINE r == [type |-> "SUBSCRIBE", qos |-> m.qos, id |-> m.msgID, name |-> m.name]
  <2>1. m.type = "SUBSCRIBE" /\ m.name \in TopicNames /\ m.msgID \in Word /\ m.qos \in 0..2
    BY <1>2, <1>11, SubscribeGatewayAssumption DEF HandleSubscribe, SubscriberMessages
  <2>2. r \in SubscribeRequests /\ r.type = "SUBSCRIBE" /\ r.name = m.name
    BY <2>1 DEF SubscribeRequests
  <2>3. /\ BrokerLeft /\ UNCHANGED <<status, parked, stored, sleepQue, brokerLink, toClient>>
        /\ \/ UNCHANGED <<topics, brokerSendQue>>
           \/ AddTopic(m.name) /\ brokerSendQue' = Append(brokerSendQue, r) /\ ToBroker(r)
    BY <1>11 DEF HandleSubscribe, BrokerLeft, ToBroker
  <2> HIDE DEF r
  <2>4. TopicsKept /\ (UNCHANGED brokerSendQue \/ (Reason(r) /\ ToBroker(r)))
    BY <1>5, <2>1, <2>2, <2>3, AddTopicKeeps DEF Reason
  <2>5. Elsewhere /\ Served' = Served
    BY <1>1, <2>3, <2>4 DEF Elsewhere, Saved, Served, Resting
  <2> QED
    BY <1>3, <1>4, <2>2, <2>3, <2>4, <2>5
<1>12. CASE HandleClientAck(m)
  <2> DEFINE r == Request(m.type, 0, m.msgID)
  <2>1. /\ BrokerLeft /\ ToBroker(r) /\ m.type \in {"PUBACK", "PUBREC", "PUBCOMP"}
        /\ UNCHANGED <<status, topics, parked, stored, sleepQue, brokerLink, toClient>>
        /\ m.type = "PUBACK" => m.rc = "accepted"
    BY <1>12 DEF HandleClientAck, BrokerLeft
  <2>2. m.msgID \in Word
    BY <1>2, <2>1 DEF SubscriberMessages
  <2>3. r \in SubscribeRequests /\ r.type = m.type /\ r.id = m.msgID
    BY <2>1, <2>2, RequestsTyped DEF Request
  <2> HIDE DEF r
  <2>4. Reason(r)
    BY <2>1, <2>3 DEF Reason, AnswerTypes
  <2>5. Elsewhere /\ Served' = Served
    BY <1>1, <1>5, <2>1 DEF Elsewhere, Saved, Served, Resting
  <2> QED
    BY <1>3, <2>1, <2>3, <2>4, <2>5
<1>13. CASE HandleIgnoredAck(m)
  <2>1. /\ BrokerLeft /\ UNCHANGED <<status, topics, parked, stored, sleepQue, brokerLink,
                                     brokerSendQue, toClient>>
    BY <1>13 DEF HandleIgnoredAck, BrokerLeft
  <2>2. Elsewhere /\ Served' = Served
    BY <1>1, <1>5, <2>1 DEF Elsewhere, Saved, Served, Resting
  <2> QED
    BY <1>3, <1>4, <2>1, <2>2
<1>14. CASE OtherPackets(m) /\ UNCHANGED subscriptionVars
  <2>1. BrokerLeft /\ UNCHANGED <<parked, stored, sleepQue>>
    BY <1>14 DEF BrokerLeft
  <2>2. UNCHANGED <<status, brokerLink>>
    BY <1>14 DEF OtherPackets, DiscardUnknown, HandleWilltopic, HandleWillmsg, HandleRegister,
                 HandlePublishInvalidTopic, HandlePublish
  <2>3. /\ TopicsKept
        /\ \/ UNCHANGED toClient
           \/ \E n : n.type # "PUBREL" /\ GatewaySends(n)
    <3>1. CASE HandleRegister(m)
      <4>1. m.name \in TopicNames
        BY <1>2, <3>1, SubscribeGatewayAssumption DEF HandleRegister, SubscriberMessages
      <4> QED
        BY <3>1, <4>1, AddTopicKeeps DEF HandleRegister, RegAck
    <3>2. CASE ~HandleRegister(m)
      BY <1>5, <1>14, <3>2 DEF OtherPackets, DiscardUnknown, HandleWilltopic, HandleWillmsg,
         HandlePublishInvalidTopic, HandlePublish, WillMsgReq, PubAck
    <3> QED
      BY <3>1, <3>2
  <2>4. Elsewhere /\ Served' = Served
    <3>1. toClient \subseteq toClient'
      BY <2>3, SendsOther
    <3> QED
      BY <1>1, <2>1, <2>2, <2>3, <3>1 DEF Elsewhere, Saved, Served, Resting
  <2>5. CASE UNCHANGED brokerSendQue
    BY <1>3, <1>4, <2>1, <2>2, <2>3, <2>4, <2>5
  <2>6. CASE HandleWillmsg(m)
    <3> DEFINE r == Request("CONNECT", 0, 0)
    <3>1. /\ r \in SubscribeRequests /\ r.type = "CONNECT" /\ m.type = "WILLMSG"
          /\ UNCHANGED brokerSendQue \/ ToBroker(r)
      BY <2>6, RequestsTyped DEF Request, HandleWillmsg
    <3> HIDE DEF r
    <3>2. Reason(r)
      BY <3>1 DEF Reason
    <3> QED
      BY <1>3, <2>1, <2>2, <2>3, <2>4, <3>1, <3>2
  <2>7. CASE HandlePublish(m)
    <3> DEFINE r == Request("PUBLISH", m.qos, m.msgID)
    <3>1. m.qos = 1 /\ m.msgID \in Word
      BY <1>2, <2>7 DEF HandlePublish, SubscriberMessages
    <3>2. r \in SubscribeRequests /\ r.type = "PUBLISH" /\ ToBroker(r)
      BY <2>7, <3>1, RequestsTyped DEF Request, HandlePublish
    <3> HIDE DEF r
    <3>3. Reason(r)
      BY <3>2 DEF Reason, AnswerTypes
    <3> QED
      BY <1>3, <2>1, <2>2, <2>3, <2>4, <3>2, <3>3
  <2> QED
    BY <1>14, <2>5, <2>6, <2>7 DEF OtherPackets, DiscardUnknown, HandleWilltopic, HandleRegister,
                                   HandlePublishInvalidTopic
<1> QED
  BY <1>7, <1>8, <1>9, <1>10, <1>11, <1>12, <1>13, <1>14 DEF SubscriberPackets

\* A PUBLISH that waited for its REGACK is on its way to the client.
LEMMA RegAckHandles ==
    ASSUME TypeOK, KeptInvariant, RoomLeft, Loss = FALSE, UNCHANGED subscriberVars,
           NEW m \in toGateway, HandleRegAck(m)
    PROVE  Handles
<1> USE DEF clientObject, brokerSession
<1>1. UNCHANGED history
  BY DEF subscriberVars, ownVars
<1>2. /\ BrokerLeft /\ UNCHANGED <<status, topics, sleepQue, stored, brokerLink>>
      /\ UNCHANGED brokerSendQue \/ ToBroker(Request("PINGREQ", 0, 0))
  BY DEF HandleRegAck, BrokerLeft
<1>3. \A r \in Packets' : r \in Packets \/ Reason(r)
  <2>1. Request("PINGREQ", 0, 0) \in SubscribeRequests /\ Reason(Request("PINGREQ", 0, 0))
    BY RequestsTyped DEF Request, Reason, AnswerTypes
  <2>2. Packets' = Packets \/ Packets' = Packets \cup {Request("PINGREQ", 0, 0)}
    BY <1>2, <2>1, PacketsChange DEF Packets
  <2> QED
    BY <2>1, <2>2
<1>4. TopicsKept /\ Saved' = Saved /\ Served' = Served
  BY <1>2 DEF TopicsKept, Saved, Served, Resting
<1>5. CASE UNCHANGED <<parked, toClient>>
  <2>1. Elsewhere
    BY <1>1, <1>4, <1>5 DEF Elsewhere
  <2> QED
    BY <1>2, <1>3, <1>4, <1>5, <2>1, ElsewhereGoesOn DEF Handles, BrokerLeft, KeptInvariant
<1>6. ASSUME NEW i \in 1..Len(parked), GatewaySends(parked[i].publish), parked' = RemoveAt(parked, i)
      PROVE  Handles
  <2> DEFINE w == parked[i]
  <2>1. parked \in Seq(ParkedPackets) /\ w \in ParkedPackets
    BY DEF TypeOK, SubscribeGatewayTypeOK
  <2>2. w.publish.type = "PUBLISH"
    BY <2>1 DEF ParkedPackets
  <2>3. toClient' = toClient \cup {w.publish}
    BY <1>6, SendReaches DEF KeptInvariant
  <2>4. \A v \in Entries(parked) : v \in Entries(parked') \/ v = w
    BY <1>6, <2>1, QueueEntries
  <2> HIDE DEF w
  <2>5. w.publish.msgID \in Held'
    BY <2>2, <2>3 DEF Held, PublishesTo
  <2>6. \A v \in Entries(parked) : v.publish.msgID \in Held'
    BY <2>4, <2>5 DEF Held
  <2>7. \A p \in Saved : p.id \in Held'
    BY <1>2 DEF Saved, Held
  <2>8. GoesOn
    BY <1>1, <1>4, <2>3, <2>6, <2>7, ReachedGrows DEF GoesOn
  <2>9. /\ IsFiniteSet(toClient')
        /\ \A n \in toClient' : n.type = "PUBREL" => n \in toClient
    BY <2>2, <2>3, FS_AddElement DEF KeptInvariant
  <2> QED
    BY <1>2, <1>3, <1>4, <2>8, <2>9 DEF Handles, BrokerLeft
<1>7. \/ UNCHANGED <<parked, toClient>>
      \/ \E i \in 1..Len(parked) : GatewaySends(parked[i].publish) /\ parked' = RemoveAt(parked, i)
  BY DEF HandleRegAck, SendParked
<1> QED
  BY <1>5, <1>6, <1>7

\* A PUBLISH for a client that is served is sent, saved or parked.
LEMMA DeliverHandles ==
    ASSUME TypeOK, KeptInvariant, RoomLeft, Loss = FALSE, UNCHANGED history,
           NEW p \in BrokerPackets, DeliverPublish(p), Deliverable(p.name) \/ ~Served,
           brokerSub # 0 \/ stored # <<>>, published' = published \/ brokerSub # 0,
           p \in Saved \/ (brokerSub # 0 /\ p.name = BrokerName),
           \A q \in Entries(stored) : q \in Entries(stored') \/ q = p,
           Entries(stored') \subseteq Entries(stored)
    PROVE  Handles
<1>1. UNCHANGED <<status, brokerLink, brokerSub, acknowledged>>
  BY DEF DeliverPublish
<1>2. /\ p.name \in TopicNames /\ p.id \in Word /\ p.qos \in 1..2
  <2>1. p.name \in TopicNames /\ p.id \in 1..MaxPublishes /\ p.qos \in BrokerQos
    BY DEF BrokerPackets
  <2>2. 1..MaxPublishes \subseteq 0..MaxPublishes
    BY SubscribeGatewayAssumption
  <2>3. p.id \in Word
    BY <2>1, <2>2, WordsTyped
  <2> QED
    BY <2>1, <2>3, SubscribeGatewayAssumption
<1>3. ASSUME GoesOn \/ ~Served,
             \A r \in Packets' : r \in Packets \/ Reason(r),
             IsFiniteSet(toClient'), \A n \in toClient' : n.type = "PUBREL" => n \in toClient
      PROVE  Handles
  BY <1>1, <1>3 DEF Handles, Served, Resting
<1>4. /\ UNCHANGED brokerSendQue => Packets' = Packets
      /\ UNCHANGED topics => TopicsKept
  BY <1>1 DEF Packets, TopicsKept
<1>5. ASSUME TopicsKept, toClient \subseteq toClient', p.id \in Held',
             Entries(sleepQue) \subseteq Entries(sleepQue'),
             Entries(parked) \subseteq Entries(parked'),
             Entries(sleepQue') \subseteq Entries(sleepQue) \cup {p}
      PROVE  GoesOn
  <2>1. \A q \in Saved : q.id \in Held'
    BY <1>5 DEF Saved, Held
  <2>2. \A w \in Entries(parked) : w.publish.msgID \in Held'
    BY <1>5 DEF Held
  <2>3. \A q \in Saved' : q \in Saved \/ (brokerSub # 0 /\ q.name = BrokerName)
    BY <1>5 DEF Saved
  <2> QED
    BY <1>5, <2>1, <2>2, <2>3, ReachedGrows DEF GoesOn
<1>6. CASE PublishIgnored
  <2>1. ~Served /\ UNCHANGED <<toClient, brokerSendQue>>
    BY <1>6 DEF PublishIgnored, Served, Resting
  <2> QED
    BY <1>3, <1>4, <2>1 DEF KeptInvariant
<1>7. CASE PublishSaved(p)
  <2> DEFINE r == Request(IF p.qos = 1 THEN "PUBACK" ELSE "PUBREC", 0, p.id)
  <2>1. r \in SubscribeRequests /\ r.type \in {"PUBACK", "PUBREC"} /\ r.id = p.id
    BY <1>2, RequestsTyped DEF Request
  <2>2. /\ ToBroker(r) /\ UNCHANGED <<toClient, topics, parked>>
        /\ sleepQue' = Append(sleepQue, p)
    BY <1>7 DEF PublishSaved, ReplyACK, RoomLeft
  <2> HIDE DEF r
  <2>3. Entries(sleepQue') = Entries(sleepQue) \cup {p}
    <3>1. sleepQue \in Seq(BrokerPackets)
      BY DEF TypeOK, SubscribeGatewayTypeOK
    <3> QED
      BY <2>2, <3>1, QueueEntries
  <2>4. p \in Saved' /\ p.id \in Held'
    BY <2>3 DEF Saved, Held
  <2>5. Reason(r)
    BY <2>1, <2>4 DEF Reason
  <2>6. Packets' = Packets \cup {r}
    BY <1>1, <2>1, <2>2, PacketsChange
  <2>7. GoesOn
    BY <1>4, <1>5, <2>2, <2>3, <2>4
  <2> QED
    BY <1>3, <2>2, <2>5, <2>6, <2>7 DEF KeptInvariant
<1>8. CASE PublishForwarded(p)
  <2> DEFINE m == Publish(p.qos, topics[p.name], p.id)
  <2>1. m.type = "PUBLISH" /\ m.msgID = p.id
    BY DEF Publish
  <2>2. GatewaySends(m) /\ UNCHANGED <<topics, brokerSendQue, sleepQue, parked>>
    BY <1>8 DEF PublishForwarded
  <2> HIDE DEF m
  <2>3. toClient' = toClient \cup {m}
    BY <2>2, SendReaches DEF KeptInvariant
  <2>4. p.id \in Held'
    BY <2>1, <2>3 DEF Held, PublishesTo
  <2>5. GoesOn
    BY <1>4, <1>5, <2>2, <2>3, <2>4
  <2>6. /\ IsFiniteSet(toClient')
        /\ \A n \in toClient' : n.type = "PUBREL" => n \in toClient
    BY <2>1, <2>2, SendsOther
  <2> QED
    BY <1>3, <1>4, <2>2, <2>5, <2>6
<1>9. CASE PublishParked(p)
  <2> DEFINE m == Register(nextTopicId', snMsgId', p.name)
             w == [msgID |-> snMsgId', publish |-> Publish(p.qos, nextTopicId', p.id)]
  <2>1. m.type = "REGISTER" /\ w.publish.msgID = p.id
    BY DEF Register, Publish
  <2>2. /\ AddTopic(p.name) /\ snMsgId' = snMsgId + 1
        /\ GatewaySends(m) /\ parked' = Append(parked, w)
        /\ UNCHANGED <<brokerSendQue, sleepQue>>
    BY <1>9 DEF PublishParked
  <2>3. Entries(parked') = Entries(parked) \cup {w}
    <3>1. parked \in Seq(ParkedPackets \cup {w}) /\ w \in ParkedPackets \cup {w}
      BY DEF TypeOK, SubscribeGatewayTypeOK
    <3> HIDE DEF w
    <3> QED
      BY <2>2, <3>1, QueueEntries
  <2> HIDE DEF m, w
  <2>4. p.id \in Held'
    BY <2>1, <2>3 DEF Held
  <2>5. TopicsKept
    BY <1>2, <2>2, AddTopicKeeps
  <2>6. /\ toClient \subseteq toClient' /\ IsFiniteSet(toClient')
        /\ \A n \in toClient' : n.type = "PUBREL" => n \in toClient
    BY <2>1, <2>2, SendsOther
  <2>7. GoesOn
    BY <1>5, <2>2, <2>3, <2>4, <2>5, <2>6
  <2> QED
    BY <1>3, <1>4, <2>2, <2>6, <2>7
<1>10. ~PublishCancelled(p)
  BY DEF PublishCancelled, Deliverable, Served, Resting
<1> QED
  BY <1>6, <1>7, <1>8, <1>9, <1>10 DEF DeliverPublish

LEMMA DeliveringHandles ==
    ASSUME TypeOK, KeptInvariant, RoomLeft, Loss = FALSE, UNCHANGED subscriberVars,
           HandleStored \/ \E qos \in BrokerQos : BrokerPublishes(qos)
    PROVE  Handles
<1>1. UNCHANGED history
  BY DEF subscriberVars, ownVars
<1>2. Served => /\ brokerSub # 0 => topics[brokerSub] # 0
                /\ \A p \in Saved : Deliverable(p.name)
  BY DEF KeptInvariant, NamesKnown, Saved
<1>3. CASE HandleStored
  <2> DEFINE p == Head(stored)
  <2>1. /\ stored # <<>> /\ DeliverPublish(p)
        /\ stored' = Tail(stored) /\ published' = published
    BY <1>3 DEF HandleStored
  <2>2. p \in BrokerPackets /\ Entries(stored) = Entries(stored') \cup {p}
    <3>1. stored \in Seq(BrokerPackets)
      BY DEF TypeOK, SubscribeGatewayTypeOK
    <3> QED
      BY <2>1, <3>1, QueueEntries
  <2> HIDE DEF p
  <2>3. p \in Saved
    BY <2>2 DEF Saved
  <2> QED
    BY <1>1, <1>2, <2>1, <2>2, <2>3, DeliverHandles
<1>4. ASSUME NEW qos \in BrokerQos, BrokerPublishes(qos)
      PROVE  Handles
  <2> DEFINE p == [qos |-> qos, id |-> published + 1,
                   name |-> IF brokerSub = Filter THEN Topic1 ELSE brokerSub]
  <2>1. p \in BrokerPackets
    BY <1>4, SubscribeGatewayAssumption
       DEF BrokerPublishes, BrokerPackets, TypeOK, SubscribeGatewayTypeOK
  <2>2. /\ DeliverPublish(p) /\ brokerSub # 0 /\ p.name = BrokerName
        /\ UNCHANGED stored
    BY <1>4 DEF BrokerPublishes, BrokerName
  <2> HIDE DEF p
  <2>3. Served => Deliverable(p.name)
    BY <1>2, <2>2 DEF BrokerName, Deliverable, MatchesFilter
  <2> QED
    BY <1>1, <2>1, <2>2, <2>3, DeliverHandles
<1> QED
  BY <1>3, <1>4

\* BrokerSendTask, BrokerRecvTask and the broker.
LEMMA BrokerHandles ==
    ASSUME TypeOK, KeptInvariant, UNCHANGED subscriberVars,
           \/ SendConnectClean
           \/ (connectSended \/ SendRequest) /\ UNCHANGED subscriptionVars
           \/ BrokerSubscribes \/ HandleSuback
           \/ HandlePingrespOrSleep \/ BrokerAcknowledged
           \/ OtherAnswers /\ UNCHANGED subscriptionVars
           \/ EraseSubscriber
    PROVE  Handles
<1> USE DEF clientObject, gatewayVars, deliveryVars, subscriptionVars, brokerSession, netVars
<1>1. UNCHANGED history
  BY DEF subscriberVars, ownVars
<1>2. ASSUME UNCHANGED <<topics, parked, sleepQue, stored>>, toClient \subseteq toClient'
      PROVE  GoesOn
  BY <1>1, <1>2, ElsewhereGoesOn DEF Elsewhere, Saved, TopicsKept
<1>3. UNCHANGED status => Served' = Served
  BY DEF Served, Resting
<1>4. IsFiniteSet(toClient)
  BY DEF KeptInvariant
<1>5. ASSUME NEW m, m.type # "PUBREL", GatewaySends(m)
      PROVE  /\ toClient \subseteq toClient' /\ IsFiniteSet(toClient')
             /\ \A n \in toClient' : n.type = "PUBREL" => n \in toClient
  BY <1>5, SendsOther
<1>6. /\ brokerLink # <<>> => Head(brokerLink) \in Packets
      /\ brokerLink # <<>> /\ brokerLink' = Tail(brokerLink) /\ UNCHANGED brokerSendQue
         => Packets' \subseteq Packets
  BY PacketsChange
<1>7. CASE SendConnectClean
  <2>1. Packets' \subseteq Packets
    BY <1>7, PacketsChange DEF SendConnectClean, SendConnect
  <2> QED
    BY <1>2, <1>3, <1>4, <1>7, <2>1 DEF SendConnectClean, SendConnect, Handles
<1>8. CASE connectSended /\ UNCHANGED subscriptionVars
  <2>1. ~Served' /\ Packets' = Packets
    BY <1>8 DEF connectSended, Served, Resting, Packets
  <2> QED
    BY <1>4, <1>8, <2>1 DEF connectSended, Handles
<1>9. CASE SendRequest /\ UNCHANGED subscriptionVars
  <2>1. Packets' \subseteq Packets
    BY <1>9, PacketsChange DEF SendRequest
  <2> QED
    BY <1>2, <1>3, <1>4, <1>9, <2>1 DEF SendRequest, Handles
<1>10. CASE BrokerSubscribes
  <2>1. Packets' = Packets /\ Head(brokerLink) \in Asking /\ brokerSub' = Head(brokerLink).name
    BY <1>6, <1>10 DEF BrokerSubscribes, brokerVars, Packets, Asking
  <2> QED
    BY <1>2, <1>3, <1>4, <1>10, <2>1 DEF BrokerSubscribes, Handles
<1>11. CASE HandleSuback
  <2>1. \/ UNCHANGED toClient
        \/ \E qos, topicID, id, rc : GatewaySends(SubAck(qos, topicID, id, rc))
    BY <1>11 DEF HandleSuback
  <2>2. /\ toClient \subseteq toClient' /\ IsFiniteSet(toClient')
        /\ \A n \in toClient' : n.type = "PUBREL" => n \in toClient
    BY <1>4, <1>5, <2>1 DEF SubAck
  <2>3. Packets' \subseteq Packets
    BY <1>6, <1>11 DEF HandleSuback
  <2> QED
    BY <1>2, <1>3, <1>11, <2>2, <2>3 DEF HandleSuback, Handles
<1>12. CASE HandlePingrespOrSleep
  <2>1. /\ toClient \subseteq toClient' /\ IsFiniteSet(toClient')
        /\ \A n \in toClient' : n.type = "PUBREL" => n \in toClient
    BY <1>5, <1>12 DEF HandlePingrespOrSleep, PingResp
  <2>2. Packets' \subseteq Packets
    BY <1>6, <1>12 DEF HandlePingrespOrSleep, Answers
  <2>3. Served' => Served
    BY <1>12 DEF HandlePingrespOrSleep, Served, Resting
  <2> QED
    BY <1>2, <1>12, <2>1, <2>2, <2>3 DEF HandlePingrespOrSleep, Handles
<1>13. CASE BrokerAcknowledged
  <2> DEFINE a == Head(brokerLink)
             r == Request("PUBCOMP", 0, a.id)
  <2>1. /\ brokerLink # <<>> /\ brokerLink' = Tail(brokerLink)
        /\ a.type \in AnswerTypes
        /\ acknowledged' \subseteq acknowledged \cup {a.id}
        /\ UNCHANGED <<status, topics, parked, sleepQue, stored, brokerSub, published>>
    BY <1>13 DEF BrokerAcknowledged, AnswerTypes
  <2>2. a \in Answering
    BY <1>6, <2>1 DEF Answering, Packets
  <2>3. r \in SubscribeRequests /\ r.type = "PUBCOMP" /\ r.id = a.id
    BY <2>1, AnsweredTyped, RequestsTyped DEF Request
  <2>4. /\ UNCHANGED toClient \/ GatewaySends(Ack("PUBREL", a.id))
        /\ UNCHANGED brokerSendQue \/ ToBroker(r)
    BY <1>13 DEF BrokerAcknowledged
  <2> HIDE DEF a, r
  <2>5. Reason(r)
    BY <2>2, <2>3 DEF Reason
  <2>6. \A q \in Packets' : q \in Packets \/ Reason(q)
    <3>1. Packets' \subseteq Packets \cup {r}
      BY <2>1, <2>3, <2>4, PacketsChange
    <3> QED
      BY <2>5, <3>1
  <2>7. /\ toClient \subseteq toClient' /\ IsFiniteSet(toClient')
        /\ \A n \in toClient' : n.type = "PUBREL" => n \in toClient \/ n.msgID = a.id
    BY <1>4, <2>4, SendKeeps DEF Ack
  <2> QED
    BY <1>2, <1>3, <2>1, <2>2, <2>6, <2>7 DEF Handles
<1>14. CASE OtherAnswers /\ UNCHANGED subscriptionVars
  <2>1. UNCHANGED <<topics, parked, sleepQue, stored, brokerSub, published, acknowledged>>
    BY <1>14 DEF OtherAnswers, ConnackAccepted, ConnackRefused, HandlePuback, BrokerCloses
  <2>2. /\ brokerLink # <<>> /\ UNCHANGED brokerSendQue
        /\ brokerLink' \in {Tail(brokerLink), <<>>}
    BY <1>14 DEF OtherAnswers, ConnackAccepted, ConnackRefused, HandlePuback, BrokerCloses, Answers
  <2>3. Packets' \subseteq Packets
    BY <1>6, <2>2 DEF Packets, Entries
  <2>4. \/ UNCHANGED toClient
        \/ \E rc : GatewaySends(ConnAck(rc))
        \/ \E topicID, id, rc : GatewaySends(PubAck(topicID, id, rc))
    BY <1>14 DEF OtherAnswers, ConnackAccepted, ConnackRefused, HandlePuback, BrokerCloses
  <2>5. /\ toClient \subseteq toClient' /\ IsFiniteSet(toClient')
        /\ \A n \in toClient' : n.type = "PUBREL" => n \in toClient
    BY <1>4, <1>5, <2>4 DEF ConnAck, PubAck
  <2>6. Served' => Served \/ \E r \in Packets : r.type = "CONNECT"
    <3>1. CASE ConnackAccepted
      BY <1>6, <2>2, <3>1 DEF ConnackAccepted, Answers
    <3>2. CASE ~ConnackAccepted
      BY <1>3, <1>14, <3>2 DEF OtherAnswers, ConnackRefused, HandlePuback, BrokerCloses,
                               disconnected, Served, Resting
    <3> QED
      BY <3>1, <3>2
  <2> QED
    BY <1>2, <2>1, <2>3, <2>5, <2>6 DEF Handles
<1>15. CASE EraseSubscriber
  <2>1. ~Served'
    BY <1>15 DEF EraseSubscriber, EraseClient, disconnected, Served, Resting
  <2>2. Packets' \subseteq Packets
    BY <1>15 DEF EraseSubscriber, EraseClient, Packets, Entries
  <2> QED
    BY <1>4, <1>15, <2>1, <2>2 DEF EraseSubscriber, EraseClient, Handles
<1> QED
  BY <1>7, <1>8, <1>9, <1>10, <1>11, <1>12, <1>13, <1>14, <1>15

LEMMA GatewayHandles ==
    ASSUME TypeOK, KeptInvariant, RoomLeft, Loss = FALSE, UNCHANGED subscriberVars,
           SubscribeGatewayStep
    PROVE  Handles
<1> DEFINE Broker == \/ SendConnectClean
                     \/ (connectSended \/ SendRequest) /\ UNCHANGED subscriptionVars
                     \/ BrokerSubscribes \/ HandleSuback
                     \/ HandlePingrespOrSleep \/ BrokerAcknowledged
                     \/ OtherAnswers /\ UNCHANGED subscriptionVars
                     \/ EraseSubscriber
<1>1. ASSUME NEW m \in toGateway, SubscriberPackets(m)
      PROVE  Handles
  BY <1>1, PacketHandles, RegAckHandles
<1>2. CASE HandleStored \/ \E qos \in BrokerQos : BrokerPublishes(qos)
  BY <1>2, DeliveringHandles
<1>3. CASE Broker
  BY <1>3, BrokerHandles
<1>4. \/ \E m \in toGateway : SubscriberPackets(m)
      \/ HandleStored \/ \E qos \in BrokerQos : BrokerPublishes(qos)
      \/ Broker
  BY DEF SubscribeGatewayStep
<1> HIDE DEF Broker
<1> QED
  BY <1>1, <1>2, <1>3, <1>4

----------------------------------------------------------------------------

LEMMA KeptStep ==
    ASSUME MaxRestarts = 0, Loss = FALSE
    PROVE  /\ TypeOK /\ TypeOK' /\ OnlySession /\ ShownInvariant /\ RoomLeft /\ KeptInvariant
              /\ [Next]_vars
           => KeptInvariant'
<1> SUFFICES ASSUME TypeOK, TypeOK', OnlySession, ShownInvariant, RoomLeft, KeptInvariant,
                    [Next]_vars
             PROVE  KeptInvariant'
  OBVIOUS
<1>1. restarts = 0 /\ NoOtherSession /\ ShownFirst
  BY DEF OnlySession, ShownInvariant
<1>2. CASE (SubscriberStep \/ TimePasses) /\ UNCHANGED <<gatewayVars, subscriptionVars>>
  BY <1>1, <1>2, KeptTurn
<1>3. CASE SubscribeGatewayStep /\ UNCHANGED subscriberVars
  <2>1. Handles
    BY <1>3, GatewayHandles
  <2>2. UNCHANGED <<eventID, history>>
    BY <1>3 DEF subscriberVars, machineVars, ownVars
  <2> QED
    BY <1>1, <1>3, <2>1, <2>2, GatewayReads, HandlesKeeps
<1>4. CASE UNCHANGED vars
  <2>1. UNCHANGED <<eventID, history, toGateway, toClient>>
    BY <1>4 DEF vars, subscriberVars, machineVars, ownVars, netVars
  <2>2. UNCHANGED <<status, topics, brokerSendQue, brokerLink>>
    BY <1>4 DEF vars, gatewayVars, clientObject, brokerVars
  <2>3. UNCHANGED <<sleepQue, stored, parked, brokerSub, published, acknowledged>>
    BY <1>4 DEF vars, subscriptionVars, deliveryVars, brokerSession
  <2>4. UNCHANGED <<Opening, Served, Answering, Asking, Releasing>>
    BY <2>1, <2>2 DEF Opening, Served, Resting, Answering, Asking, Releasing
  <2>5. UNCHANGED <<Unused, Finished, Held>>
    BY <2>1, <2>3, <2>4 DEF Unused, Finished, Held
  <2> QED
    BY <2>1, <2>2, <2>3, <2>4, <2>5
       DEF KeptInvariant, NothingPublished, NamesKnown, FinishedIsKept, Deliverable, MatchesFilter
<1> QED
  BY <1>1, <1>2, <1>3, <1>4, StepOfOne

LEMMA KeptInit == Init => KeptInvariant
<1> SUFFICES ASSUME Init
             PROVE  KeptInvariant
  OBVIOUS
<1>1. /\ status = "Disconnected" /\ published = 0 /\ brokerSub = 0 /\ acknowledged = {}
      /\ brokerSendQue = <<>> /\ brokerLink = <<>>
  BY DEF Init, SubscribeGatewayInit, GatewayInit
<1>2. Answering = {} /\ Asking = {}
  BY <1>1 DEF Answering, Asking, Entries
<1>3. Releasing = {} /\ \A m \in toGateway : m.type \notin AnswerTypes \cup {"SUBSCRIBE"}
  BY SystemStarts DEF Releasing, AnswerTypes
<1>4. ~Served
  BY <1>1 DEF Served, Resting
<1>5. IsFiniteSet(toClient)
  BY SystemStarts, FS_EmptySet
<1> QED
  BY <1>1, <1>2, <1>3, <1>4, <1>5
     DEF KeptInvariant, NothingPublished, Unused, NamesKnown, FinishedIsKept

\* A program that is not killed, on a network that loses nothing and repeats no message of
\* the handshake: as long as neither the socket buffer of the client nor sleepQue is full,
\* a PUBLISH the gateway has acknowledged for the client has reached it, or the gateway has
\* it (MQTTGWPublishHandler::handlePublish acknowledges what it saves).
THEOREM AckedAlwaysKept ==
    ASSUME MaxRestarts = 0, Duplicated \cap Handshake = {}, Loss = FALSE
    PROVE  Spec /\ []RoomLeft => []AckedIsKept
<1>1. /\ TypeOK /\ TypeOK' /\ OnlySession /\ ShownInvariant /\ RoomLeft /\ KeptInvariant
         /\ [Next]_vars
      => KeptInvariant'
  BY KeptStep
<1>2. KeptInvariant => AckedIsKept
  BY DEF KeptInvariant, FinishedIsKept, Finished, Served, AckedIsKept
<1>3. TypeOK /\ OnlySession /\ ShownInvariant /\ [Next]_vars => ShownInvariant'
  BY ShownStep
<1>4. Init => ShownInvariant
  BY ShownInit
<1>5. Spec => []OnlySession
  BY SessionIsOnly
<1> QED
  BY <1>1, <1>2, <1>3, <1>4, <1>5, KeptInit, TypeCorrect, PTL DEF Spec
============================================================================
