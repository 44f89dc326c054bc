--------------------------- MODULE SubscribeClient ---------------------------
(***************************************************************************)
(* client_machine of the three programs that subscribe:                    *)
(*                                                                         *)
(*   MQTTSN_SubscribeV2.c  subscribes at QoS 2 and pings                   *)
(*   MQTTSN_PubSubV2.c     registers a topic, publishes to it at QoS 1,    *)
(*                         subscribes to another and pings                 *)
(*   MQTTSN_SleepV2.c      subscribes, sleeps, and wakes up with a PINGREQ *)
(*                                                                         *)
(* The files are copies of one text with different parts commented out, so *)
(* a state that they share is one action here, guarded by "program" where  *)
(* the copies differ; the states of each file are listed at the end.       *)
(* The states for unsubscribing and for updating a will are never entered. *)
(***************************************************************************)
EXTENDS ClientMachine

CONSTANTS
    Programs,      \* the programs tried
    Wildcards,     \* whether the name a program subscribes to is a wildcard filter
    WillFlags,     \* the values of willFlag tried (main sets 0)
    MaxMsgID       \* bound: message ids above it are not published

ASSUME SubscribeAssumption ==
    /\ Programs \subseteq {"SubscribeV2", "PubSubV2", "SleepV2"}
    /\ Wildcards \subseteq BOOLEAN
    /\ WillFlags \subseteq BOOLEAN
    /\ MaxMsgID \in 1..(IdModulus - 2)
    /\ Timers \subseteq {"ping", "publish", "sleep"}

VARIABLES
    program,       \* the program that runs
    wildcard,      \* it subscribes to a filter with a wildcard
    flags,         \* registerFlag, publishFlag, subscribeFlag, sleepFlag, sleepReturn
    history        \* the ids of the PUBLISHes readMsg was given, of those it showed, and
                   \* of those under way when the program was killed

ownVars == <<program, wildcard, flags, history>>

subscriberVars == <<machineVars, ownVars>>

\* The name in the SUBSCRIBE of each program, and the level it asks for.
WantedName ==
    CASE wildcard                  -> Filter
      [] ~wildcard /\ program = "SubscribeV2" -> Topic2
      [] ~wildcard /\ program = "PubSubV2"    -> Topic1
      [] ~wildcard /\ program = "SleepV2"     -> Checking

WantedQos == IF program = "SubscribeV2" THEN 2 ELSE 1

\* The timers each program looks at.
ProgramTimers ==
    CASE program = "SubscribeV2" -> {"ping"}
      [] program = "PubSubV2"    -> {"ping", "publish"}
      [] program = "SleepV2"     -> {"sleep"}

InitialFlags(started) ==
    [register |-> started = "PubSubV2", publish |-> FALSE, subscribe |-> TRUE,
     sleep |-> FALSE, sleepReturn |-> FALSE]

PublishesTo(channel) == {m \in channel : m.type = "PUBLISH"}

SubscriberInit ==
    /\ MachineInit
    /\ program \in Programs
    /\ wildcard \in Wildcards
    /\ \E will \in WillFlags : toGateway \in AfterSend({}, Connect(will))
    /\ toClient = {}
    /\ flags = InitialFlags(program)
    /\ history = [read |-> {}, shown |-> {}, lost |-> {}]

\* readPub prints the payload in whichever state it is called.
Remember(m) ==
    history' = IF m.type = "PUBLISH" /\ m.msgID # 0
               THEN [history EXCEPT
                       !.read  = @ \cup {m.msgID},
                       !.shown = IF Result(m).rc \in {"Q_pubQos1", "Q_pubQos2"}
                                 THEN @ \cup {m.msgID} ELSE @]
               ELSE history

\* What stays when a state changes none of the flags: with a datagram read, without one.
Reading(m) == Remember(m) /\ UNCHANGED <<program, wildcard, flags>>

NotReading == UNCHANGED <<ownVars, client, event, toClient>>

----------------------------------------------------------------------------
(* Q_CONNECTED, in the order of its tests. *)

ToPublish == flags.publish /\ "publish" \in due /\ event.send_msgID <= MaxMsgID

ToSend == flags.register \/ ToPublish \/ flags.subscribe \/ "ping" \in due

SendRegister ==
    /\ flags.register
    /\ SendOrQuit(Register(0, event.send_msgID, Checking), "Q_REGISTERING")
    /\ NotReading
    /\ UNCHANGED <<loopFlag, retries, due>>

SendPublish ==
    /\ ~flags.register /\ ToPublish
    /\ SendOrQuit(Publish(1, PubTopic(1), event.send_msgID), "Q_PUBLISH")
    /\ event' = IF eventID' = "Q_PUBLISH" THEN [event EXCEPT !.topicID = PubTopic(1)] ELSE event
    /\ UNCHANGED <<loopFlag, client, retries, due, toClient, ownVars>>

\* Sent once and never again; without success the program ends, with no DISCONNECT.
SendSubscribe ==
    /\ ~flags.register /\ ~ToPublish /\ flags.subscribe
    /\ \/ /\ ClientSends(Subscribe(WantedQos, event.send_msgID, WantedName))
          /\ eventID' = "Q_SUBSCRIBING"
          /\ event' = [event EXCEPT !.qos = WantedQos]
          /\ flags' = [flags EXCEPT !.subscribe = FALSE]
       \/ /\ SendErrors
          /\ eventID' = "Q_DISCONNECTED"
          /\ UNCHANGED <<toGateway, event, flags>>
    /\ UNCHANGED <<loopFlag, client, retries, due, toClient, program, wildcard, history>>

\* What pingReq returns is not looked at.
SendPing ==
    /\ ~flags.register /\ ~ToPublish /\ ~flags.subscribe /\ "ping" \in due
    /\ \/ ClientSends(PingReq)
       \/ SendErrors /\ UNCHANGED toGateway
    /\ eventID' = "Q_CLIENT_PING"
    /\ NotReading
    /\ UNCHANGED <<loopFlag, retries, due>>

\* No message: a program that may sleep announces it, for sleep_timeout seconds.
SleepTimeout == 15

AnnounceSleep ==
    /\ ~ToSend /\ flags.sleep
    /\ \/ ClientSends(Disconnect(SleepTimeout)) /\ eventID' = "Q_DISCONNECTING"
       \/ SendErrors /\ eventID' = "Q_DISCONNECTED" /\ UNCHANGED toGateway
    /\ NotReading
    /\ UNCHANGED <<loopFlag, retries, due>>

\* No message: one that has slept before sleeps again, unannounced.
FallAsleep ==
    /\ ~ToSend /\ ~flags.sleep /\ flags.sleepReturn
    /\ eventID' = "Q_SLEEP"
    /\ due' = due \ {"sleep"}
    /\ NotReading
    /\ UNCHANGED <<loopFlag, retries, toGateway>>

\* A message: what is done about each code.
TakePublishQos1(m) ==
    /\ Result(m).rc = "Q_pubQos1"
    /\ eventID' = "Q_RCV_QOS1"
    /\ UNCHANGED <<due, toGateway>>

TakePublishQos2(m) ==
    /\ Result(m).rc = "Q_pubQos2"
    /\ \/ ClientSends(Ack("PUBREC", Result(m).event.msgID)) /\ eventID' = "Q_RCV_QOS2"
       \/ SendErrors /\ UNCHANGED <<toGateway, eventID>>
    /\ UNCHANGED due

\* Mutant: the PUBACK accepts what was not shown.
RejectPublishAccepted(m) ==
    /\ Result(m).rc = "Q_ERR_WrongTopicID"
    /\ \/ ClientSends(PubAck(Result(m).event.topicID, Result(m).event.msgID, "accepted"))
       \/ SendErrors /\ UNCHANGED toGateway
    /\ UNCHANGED <<eventID, due>>

RejectPublish(m) ==
    /\ Result(m).rc = "Q_ERR_WrongTopicID"
    /\ \/ ClientSends(PubAck(Result(m).event.topicID, Result(m).event.msgID, "rejected"))
       \/ SendErrors /\ UNCHANGED toGateway
    /\ UNCHANGED <<eventID, due>>

AnswerRegister(m) ==
    LET e        == Result(m).event
        accepted == Result(m).rc \in {"Q_Subscribed", "Q_Wildcard"}
    IN  /\ accepted \/ Result(m).rc = "Q_RejectReg"
        /\ SendOrQuit(RegAck(e.topicID, e.msgID, IF accepted THEN "accepted" ELSE "rejected"),
                      "Q_CONNECTED")
        /\ UNCHANGED due

\* A PINGRESP sends a program that has slept before back to sleep.
TakePingResp(m) ==
    /\ Result(m).rc = "Q_PingRespRead" /\ flags.sleepReturn
    /\ eventID' = "Q_SLEEP"
    /\ due' = due \ {"sleep"}
    /\ UNCHANGED toGateway

\* Read and forgotten; the gateway of this repository sends no PINGREQ.
Forget(m) ==
    /\ Result(m).rc \notin {"Q_pubQos1", "Q_pubQos2", "Q_ERR_WrongTopicID",
                            "Q_Subscribed", "Q_Wildcard", "Q_RejectReg"}
    /\ Result(m).rc = "Q_PingRespRead" => ~flags.sleepReturn
    /\ UNCHANGED <<eventID, due, toGateway>>

ReadConnected(m) ==
    /\ ~ToSend
    /\ Reads(m)
    /\ \/ TakePublishQos1(m) \/ TakePublishQos2(m) \/ RejectPublish(m)
       \/ AnswerRegister(m) \/ TakePingResp(m) \/ Forget(m)
    /\ Reading(m)
    /\ UNCHANGED <<loopFlag, retries>>

Connected ==
    /\ eventID = "Q_CONNECTED"
    /\ \/ SendRegister \/ SendPublish \/ SendSubscribe \/ SendPing
       \/ AnnounceSleep \/ FallAsleep
       \/ \E m \in toClient : ReadConnected(m)

----------------------------------------------------------------------------
(* Q_RCV_QOS1 and Q_RCV_QOS2: a PUBLISH to answer. *)

SendPuback ==
    /\ eventID = "Q_RCV_QOS1"
    /\ \/ ClientSends(PubAck(event.topicID, event.msgID, "accepted"))
       \/ SendErrors /\ UNCHANGED toGateway
    /\ eventID' = "Q_CONNECTED"
    /\ NotReading
    /\ UNCHANGED <<loopFlag, retries, due>>

\* What is no PUBREL is dropped here, a PUBLISH included (but it is shown).
ReleaseUnexpected(m) ==
    /\ Result(m).rc # "Q_PubRelRead"
    /\ eventID' = "Q_CONNECTED"
    /\ UNCHANGED toGateway

\* MQTTSN_PubSubV2.c has no assignment to eventID here.
Release(m) ==
    /\ Result(m).rc = "Q_PubRelRead"
    /\ \/ /\ ClientSends(Ack("PUBCOMP", Result(m).event.msgID))
          /\ eventID' = IF program = "PubSubV2" THEN eventID ELSE "Q_CONNECTED"
       \/ SendErrors /\ UNCHANGED <<toGateway, eventID>>

ReadRelease(m) ==
    /\ eventID = "Q_RCV_QOS2"
    /\ Reads(m)
    /\ ReleaseUnexpected(m) \/ Release(m)
    /\ Reading(m)
    /\ UNCHANGED <<loopFlag, retries, due>>

\* Mutant: silence is waited out.
ReleaseNoMsgWaits ==
    /\ eventID = "Q_RCV_QOS2"
    /\ NotReading
    /\ UNCHANGED <<loopFlag, eventID, retries, due, toGateway>>

ReleaseNoMsg ==
    /\ eventID = "Q_RCV_QOS2"
    /\ eventID' = "Q_CONNECTED"
    /\ NotReading
    /\ UNCHANGED <<loopFlag, retries, due, toGateway>>

Receiving == SendPuback \/ ReleaseNoMsg \/ \E m \in toClient : ReadRelease(m)

----------------------------------------------------------------------------
(* Q_REGISTERING (entered by MQTTSN_PubSubV2.c) and Q_SUBSCRIBING. *)

\* Whatever was read, registering is over and publishing may begin.
RegisteringRead(m) ==
    /\ eventID = "Q_REGISTERING"
    /\ ReadsAndAdvances(m)
    /\ Remember(m)
    /\ eventID' = "Q_CONNECTED"
    /\ flags' = [flags EXCEPT !.register = FALSE, !.publish = TRUE]
    /\ UNCHANGED <<loopFlag, retries, due, toGateway, program, wildcard>>

\* Whatever was read, MQTTSN_SleepV2.c may sleep; MQTTSN_PubSubV2.c keeps the message id.
SubscribingRead(m) ==
    /\ eventID = "Q_SUBSCRIBING"
    /\ IF program = "PubSubV2" THEN Reads(m) ELSE ReadsAndAdvances(m)
    /\ Remember(m)
    /\ eventID' = "Q_CONNECTED"
    /\ flags' = [flags EXCEPT !.sleep = (program = "SleepV2")]
    /\ UNCHANGED <<loopFlag, retries, due, toGateway, program, wildcard>>

\* The SUBSCRIBE is not repeated, the REGISTER is.
JoiningNoMsg ==
    /\ eventID \in {"Q_REGISTERING", "Q_SUBSCRIBING"}
    /\ eventID' = "Q_CONNECTED"
    /\ NotReading
    /\ UNCHANGED <<loopFlag, retries, due, toGateway>>

AskingTopic == JoiningNoMsg \/ \E m \in toClient : RegisteringRead(m) \/ SubscribingRead(m)

----------------------------------------------------------------------------
(* Q_DISCONNECTING and Q_SLEEP, of MQTTSN_SleepV2.c: sleep is announced, answered with *)
(* a DISCONNECT, and ended by a PINGREQ.                                               *)

DisconnectingRead(m) ==
    /\ eventID = "Q_DISCONNECTING"
    /\ Reads(m)
    /\ IF Result(m).rc = "Q_DisconRead"
       THEN eventID' = "Q_SLEEP" /\ due' = due \ {"sleep"}
       ELSE eventID' = "Q_CONNECTED" /\ UNCHANGED due
    /\ Reading(m)
    /\ UNCHANGED <<loopFlag, retries, toGateway>>

\* sleepFlag is still set: sleep will be announced once more.
DisconnectingNoMsg ==
    /\ eventID = "Q_DISCONNECTING"
    /\ eventID' = "Q_CONNECTED"
    /\ NotReading
    /\ UNCHANGED <<loopFlag, retries, due, toGateway>>

WakeUp ==
    /\ eventID = "Q_SLEEP" /\ "sleep" \in due
    /\ \/ ClientSends(PingReq)
       \/ SendErrors /\ UNCHANGED toGateway
    /\ eventID' = "Q_CONNECTED"
    /\ flags' = [flags EXCEPT !.sleep = FALSE, !.sleepReturn = flags.sleep \/ @]
    /\ UNCHANGED <<loopFlag, client, event, retries, due, toClient, program, wildcard, history>>

Sleeping == DisconnectingNoMsg \/ WakeUp \/ \E m \in toClient : DisconnectingRead(m)

----------------------------------------------------------------------------
(* The states of ClientMachine, which change none of the flags. *)

Connecting ==
    \/ ConnectingNoMsg /\ UNCHANGED ownVars
    \/ \E m \in toClient : ConnectingRead(m) /\ Reading(m)

AskedForWill ==
    \/ WillNoMsg /\ UNCHANGED ownVars
    \/ \E m \in toClient : (WillTopReqRead(m) \/ WillMsgReqRead(m)) /\ Reading(m)

Publishing ==
    \/ PublishNoMsg /\ UNCHANGED ownVars
    \/ \E m \in toClient : (PublishAcked(m) \/ PublishUnexpected(m)) /\ Reading(m)

Pinging ==
    \/ (PingRetry \/ PingGiveUp) /\ UNCHANGED ownVars
    \/ \E m \in toClient : (PingAnswered(m) \/ PingUnexpected(m)) /\ Reading(m)

Closing == Close /\ UNCHANGED ownVars

\* The states each file enters.
SubscribeV2Connecting  == program = "SubscribeV2" /\ Connecting
SubscribeV2Will        == program = "SubscribeV2" /\ AskedForWill
SubscribeV2Connected   == program = "SubscribeV2" /\ Connected
SubscribeV2Receiving   == program = "SubscribeV2" /\ Receiving
SubscribeV2Subscribing == program = "SubscribeV2" /\ AskingTopic
SubscribeV2Pinging     == program = "SubscribeV2" /\ Pinging

PubSubV2Connecting     == program = "PubSubV2" /\ Connecting
PubSubV2Will           == program = "PubSubV2" /\ AskedForWill
PubSubV2Connected      == program = "PubSubV2" /\ Connected
PubSubV2Receiving      == program = "PubSubV2" /\ Receiving
PubSubV2Publishing     == program = "PubSubV2" /\ Publishing
PubSubV2AskingTopic    == program = "PubSubV2" /\ AskingTopic
PubSubV2Pinging        == program = "PubSubV2" /\ Pinging

SleepV2Connecting      == program = "SleepV2" /\ Connecting
SleepV2Will            == program = "SleepV2" /\ AskedForWill
SleepV2Connected       == program = "SleepV2" /\ Connected
SleepV2Receiving       == program = "SleepV2" /\ Receiving
SleepV2Subscribing     == program = "SleepV2" /\ AskingTopic
SleepV2Sleeping        == program = "SleepV2" /\ Sleeping

SubscriberStep ==
    /\ loopFlag
    /\ \/ SubscribeV2Connecting \/ SubscribeV2Will \/ SubscribeV2Connected
       \/ SubscribeV2Receiving \/ SubscribeV2Subscribing \/ SubscribeV2Pinging
       \/ PubSubV2Connecting \/ PubSubV2Will \/ PubSubV2Connected \/ PubSubV2Receiving
       \/ PubSubV2Publishing \/ PubSubV2AskingTopic \/ PubSubV2Pinging
       \/ SleepV2Connecting \/ SleepV2Will \/ SleepV2Connected
       \/ SleepV2Receiving \/ SleepV2Subscribing \/ SleepV2Sleeping
       \/ Closing

TimePasses ==
    /\ Tick
    /\ due' \subseteq ProgramTimers
    /\ UNCHANGED ownVars

----------------------------------------------------------------------------
SubscriberStates ==
    {"Q_CONNECTING", "Q_WILL_TOP_REQ", "Q_WILL_MSG_REQ", "Q_CONNECTED", "Q_REGISTERING",
     "Q_SUBSCRIBING", "Q_RCV_QOS1", "Q_RCV_QOS2", "Q_PUBLISH", "Q_CLIENT_PING",
     "Q_DISCONNECTING", "Q_SLEEP", "Q_DISCONNECTED"}

SubscriberClients ==
    [sub_topicID : Seq(Word), pub_topicID : Seq(Word), wildcard_Sub : BOOLEAN,
     wild_topicID : Word, unset : Word]

SubscriberEvents == [msgID : Word, topicID : Word, qos : 0..2, send_msgID : Word]

\* What these programs may send.
SubscriberMessages ==
    [type : {"CONNECT"}, will : BOOLEAN]
      \cup [type : {"WILLTOPIC", "WILLMSG", "PINGREQ"}]
      \cup [type : {"DISCONNECT"}, duration : {0, SleepTimeout}]
      \cup [type : {"REGISTER"}, topicID : {0}, msgID : Word, name : {Checking}]
      \cup [type : {"SUBSCRIBE"}, qos : 1..2, msgID : Word, name : {Topic1, Topic2, Checking, Filter}]
      \cup [type : {"PUBLISH"}, qos : {1}, topicID : Word, msgID : Word]
      \cup [type : {"REGACK", "PUBACK"}, topicID : Word, msgID : Word,
             rc : {"accepted", "rejected"}]
      \cup [type : {"PUBREC", "PUBCOMP"}, msgID : Word]

SubscriberTypeOK ==
    /\ loopFlag \in BOOLEAN
    /\ eventID \in SubscriberStates
    /\ client \in SubscriberClients
    /\ event \in SubscriberEvents
    /\ retries \in 0..(MaxRetry + 1)
    /\ due \subseteq ProgramTimers
    /\ program \in Programs
    /\ wildcard \in BOOLEAN
    /\ flags \in [register : BOOLEAN, publish : BOOLEAN, subscribe : BOOLEAN,
                  sleep : BOOLEAN, sleepReturn : BOOLEAN]
    /\ history \in [read : SUBSET Word, shown : SUBSET Word, lost : SUBSET Word]
    /\ history.shown \subseteq history.read
    /\ toGateway \subseteq SubscriberMessages
============================================================================
