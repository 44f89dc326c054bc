---------------------------- MODULE PublishClient ----------------------------
(***************************************************************************)
(* client_machine of src/tests/MQTTSN_PublishV2.c: a client that registers *)
(* two topics and then publishes for ever, at QoS 0, 1 and 2 in turn.  It  *)
(* never subscribes, so the states Q_RCV_QOS1, Q_RCV_QOS2 and the ones for *)
(* sleeping and (un)subscribing are not entered; Q_SERVER_PING would take  *)
(* a gateway that sends PINGREQ, which this repository's does not.         *)
(***************************************************************************)
EXTENDS ClientMachine

CONSTANTS
    WillFlags,     \* the values of willFlag tried (main sets 0)
    MaxMsgID       \* bound: message ids above it are not published

ASSUME PublishAssumption ==
    /\ WillFlags \subseteq BOOLEAN
    /\ MaxMsgID \in 3..(IdModulus - 2)
    /\ Timers \subseteq {"ping", "publish"}

VARIABLES
    registerFlag,  \* topics are still to be registered
    reg1, reg2,    \* which of the two
    publishFlag,   \* publishing is allowed
    pub            \* 0, 1 or 2: which of pub0, pub1, pub2 is set

flagVars == <<registerFlag, reg1, reg2, publishFlag, pub>>

clientVars == <<machineVars, flagVars>>

\* main has sent CONNECT; the locals of client_machine.
ClientInit ==
    /\ MachineInit
    /\ \E will \in WillFlags : toGateway \in AfterSend({}, Connect(will))
    /\ toClient = {}
    /\ registerFlag = TRUE
    /\ reg1 = TRUE
    /\ reg2 = FALSE
    /\ publishFlag = FALSE
    /\ pub = 0

----------------------------------------------------------------------------
(* Q_CONNECTED, in the order of its tests: register, publish, ping, read. *)

\* The topic reg1 or reg2 asks for: 1 is PubClientV2/Test1, 2 is PubClientV2/Test2.
WantedTopic == IF reg1 THEN 1 ELSE 2

ToRegister == registerFlag /\ (reg1 \/ reg2)

SendRegister ==
    /\ eventID = "Q_CONNECTED"
    /\ ToRegister
    /\ SendOrQuit(Register(0, event.send_msgID, WantedTopic), "Q_REGISTERING")
    /\ UNCHANGED <<loopFlag, client, event, retries, due, toClient, flagVars>>

ToPublish ==
    /\ publishFlag
    /\ "publish" \in due
    /\ event.send_msgID <= MaxMsgID

\* The first topic at QoS 0; publish() replaces the message id by 0.
SendPublishQos0 ==
    /\ eventID = "Q_CONNECTED"
    /\ ~ToRegister /\ ToPublish
    /\ pub = 0
    /\ SendOrQuit(Publish(0, PubTopic(1), 0), "Q_CONNECTED")
    /\ IF eventID' = "Q_CONNECTED"
       THEN /\ event' = [event EXCEPT !.send_msgID = NextMsgID(@)]
            /\ due' = due \ {"publish"}
            /\ pub' = 1
       ELSE UNCHANGED <<event, due, pub>>
    /\ UNCHANGED <<loopFlag, client, retries, toClient,
                   registerFlag, reg1, reg2, publishFlag>>

\* The second topic at QoS 1; the turn passes on before the PUBACK.
SendPublishQos1 ==
    /\ eventID = "Q_CONNECTED"
    /\ ~ToRegister /\ ToPublish
    /\ pub = 1
    /\ SendOrQuit(Publish(1, PubTopic(2), event.send_msgID), "Q_PUBLISH")
    /\ IF eventID' = "Q_PUBLISH"
       THEN pub' = 2 /\ event' = [event EXCEPT !.topicID = PubTopic(2)]
       ELSE UNCHANGED <<event, pub>>
    /\ UNCHANGED <<loopFlag, client, retries, due, toClient,
                   registerFlag, reg1, reg2, publishFlag>>

\* The second topic at QoS 2; event->msgID is what the acknowledgements are matched with.
SendPublishQos2 ==
    /\ eventID = "Q_CONNECTED"
    /\ ~ToRegister /\ ToPublish
    /\ pub = 2
    /\ SendOrQuit(Publish(2, PubTopic(2), event.send_msgID), "Q_PUBLISH")
    /\ IF eventID' = "Q_PUBLISH"
       THEN pub' = 0 /\ event' = [event EXCEPT !.msgID = event.send_msgID]
       ELSE UNCHANGED <<event, pub>>
    /\ UNCHANGED <<loopFlag, client, retries, due, toClient,
                   registerFlag, reg1, reg2, publishFlag>>

\* What pingReq returns is not looked at.
SendPing ==
    /\ eventID = "Q_CONNECTED"
    /\ ~ToRegister /\ ~ToPublish
    /\ "ping" \in due
    /\ \/ ClientSends(PingReq)
       \/ SendErrors /\ UNCHANGED toGateway
    /\ eventID' = "Q_CLIENT_PING"
    /\ UNCHANGED <<loopFlag, client, event, retries, due, toClient, flagVars>>

\* The dispatch on what was read.  A program without a subscription is sent no PUBLISH,
\* no REGISTER and, by this gateway, no PINGREQ; what is left is the code that a PUBACK
\* with the wrong topic id shares with a PUBLISH to reject, which is answered.
Answer(m) ==
    IF Result(m).rc = "Q_ERR_WrongTopicID"
    THEN {PubAck(Result(m).event.topicID, Result(m).event.msgID, "rejected")}
    ELSE {}

AfterAnswer(m) ==
    (UNION {AfterSend(toGateway, answer) : answer \in Answer(m)})
      \cup (IF SendErrors \/ Answer(m) = {} THEN {toGateway} ELSE {})

ReadConnected(m) ==
    /\ eventID = "Q_CONNECTED"
    /\ ~ToRegister /\ ~ToPublish /\ "ping" \notin due
    /\ Reads(m)
    /\ toGateway' \in AfterAnswer(m)
    /\ UNCHANGED <<loopFlag, eventID, retries, due, flagVars>>

----------------------------------------------------------------------------
(* Q_REGISTERING: a REGISTER has been sent. *)

\* Mutant: silence counts as an answer.
RegisteringNoMsgMovesOn ==
    /\ eventID = "Q_REGISTERING"
    /\ eventID' = "Q_CONNECTED"
    /\ registerFlag' = (registerFlag /\ ~reg2)
    /\ reg1' = FALSE
    /\ reg2' = TRUE
    /\ publishFlag' = TRUE
    /\ UNCHANGED <<loopFlag, client, event, retries, due, netVars, pub>>

RegisteringNoMsg ==
    /\ eventID = "Q_REGISTERING"
    /\ eventID' = "Q_CONNECTED"
    /\ UNCHANGED <<loopFlag, client, event, retries, due, netVars, flagVars>>

\* Mutant: the second REGISTER has the message id of the first.
RegisteringReadSameID(m) ==
    /\ eventID = "Q_REGISTERING"
    /\ Reads(m)
    /\ eventID' = "Q_CONNECTED"
    /\ registerFlag' = (registerFlag /\ ~reg2)
    /\ reg1' = FALSE
    /\ reg2' = TRUE
    /\ publishFlag' = TRUE
    /\ UNCHANGED <<loopFlag, retries, due, toGateway, pub>>

\* Whatever was read, a REGACK for this REGISTER or not, the flags move on.
RegisteringRead(m) ==
    /\ eventID = "Q_REGISTERING"
    /\ ReadsAndAdvances(m)
    /\ eventID' = "Q_CONNECTED"
    /\ registerFlag' = (registerFlag /\ ~reg2)
    /\ reg1' = FALSE
    /\ reg2' = TRUE
    /\ publishFlag' = TRUE
    /\ UNCHANGED <<loopFlag, retries, due, toGateway, pub>>

----------------------------------------------------------------------------
\* The states shared with the other programs touch none of the flags.
SharedStates ==
    /\ \/ ConnectingNoMsg \/ WillNoMsg
       \/ PublishNoMsg \/ PubQos2NoMsg
       \/ PingRetry \/ PingGiveUp
       \/ Close
       \/ \E m \in toClient :
             \/ ConnectingRead(m) \/ WillTopReqRead(m) \/ WillMsgReqRead(m)
             \/ PublishAcked(m) \/ PublishReceived(m) \/ PublishUnexpected(m)
             \/ PubQos2Complete(m) \/ PubQos2Unexpected(m)
             \/ PingAnswered(m) \/ PingUnexpected(m)
    /\ UNCHANGED flagVars

OwnStates ==
    \/ SendRegister \/ RegisteringNoMsg
    \/ SendPublishQos0 \/ SendPublishQos1 \/ SendPublishQos2
    \/ SendPing
    \/ \E m \in toClient : ReadConnected(m) \/ RegisteringRead(m)

\* One turn of the loop.
ClientStep == loopFlag /\ (SharedStates \/ OwnStates)

TimePasses == Tick /\ UNCHANGED flagVars

----------------------------------------------------------------------------
States == {"Q_CONNECTING", "Q_WILL_TOP_REQ", "Q_WILL_MSG_REQ", "Q_CONNECTED",
           "Q_REGISTERING", "Q_PUBLISH", "Q_PUB_QOS2", "Q_CLIENT_PING",
           "Q_DISCONNECTED"}

\* *event->client and *event in a program that does not subscribe.
Clients == [sub_topicID : {<<>>}, pub_topicID : Seq(Word),
            wildcard_Sub : {FALSE}, wild_topicID : Word, unset : Word]

Events == [msgID : Word, topicID : Word, qos : {0}, send_msgID : Word]

ClientTypeOK ==
    /\ loopFlag \in BOOLEAN
    /\ eventID \in States
    /\ client \in Clients
    /\ event \in Events
    /\ retries \in 0..(MaxRetry + 1)
    /\ due \subseteq Timers
    /\ registerFlag \in BOOLEAN
    /\ reg1 \in BOOLEAN
    /\ reg2 \in BOOLEAN
    /\ publishFlag \in BOOLEAN
    /\ pub \in 0..2
============================================================================
