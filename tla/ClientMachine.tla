---------------------------- MODULE ClientMachine ----------------------------
(***************************************************************************)
(* The part of client_machine that the four programs of src/tests share:   *)
(* the Client_t and Client_Event_t, the loop variables, and the states     *)
(* whose code is the same text in each program.  One turn of the loop      *)
(* while(loopFlag) is one action: the program is a single thread and the   *)
(* sockets are all it shares.                                              *)
(*                                                                         *)
(* msgReceived waits 400 ms.  A datagram still under way is not seen by    *)
(* it, so Q_NoMsg is possible at any time and Q_MsgPending whenever some   *)
(* datagram is under way.                                                  *)
(*                                                                         *)
(* A timer (now - timer_X > limit) is a member of "due" once it has run    *)
(* out; assigning now to timer_X removes it.                               *)
(***************************************************************************)
EXTENDS ClientReaders, Network

CONSTANTS
    Timers,        \* bound: the timers of the program that run out
    MaxRetry,      \* maxRetry of client_machine
    Uninit         \* what uninitialised uint16_t memory may hold

ASSUME MachineAssumption ==
    /\ MaxRetry \in Nat
    /\ Uninit \subseteq Word
    /\ Uninit # {}

VARIABLES
    loopFlag,      \* the loop is running
    eventID,       \* event->eventID, the state of the machine
    client,        \* *event->client
    event,         \* the other fields of *event
    retries,       \* retransmissions so far
    due            \* the timers that have run out

machineVars == <<loopFlag, eventID, client, event, retries, due>>

\* main: the counters are set, the arrays, msgID, topicID and qos are not.  "unset" is
\* what the entries of pub_topicID hold that nobody has written.
InitialClients ==
    [sub_topicID : {<<>>}, pub_topicID : {<<>>},
     wildcard_Sub : {FALSE}, wild_topicID : Uninit, unset : Uninit]

InitialEvents == [msgID : Uninit, topicID : Uninit, qos : {0}, send_msgID : {1}]

MachineInit ==
    /\ loopFlag = TRUE
    /\ eventID = "Q_CONNECTING"
    /\ client \in InitialClients
    /\ event \in InitialEvents
    /\ retries = 0
    /\ due = {}

\* event->client->pub_topicID[i - 1]
PubTopic(i) ==
    IF i <= Len(client.pub_topicID) THEN client.pub_topicID[i] ELSE client.unset

\* event->send_msgID + 1, converted to uint16_t.
NextMsgID(id) == (id + 1) % IdModulus

\* transport_getdata followed by readMsg; the first form for a state that changes
\* the event no further, the second for one that also moves send_msgID on.
Result(m) == readMsg(m, client, event)

Reads(m) ==
    /\ ClientReceives(m)
    /\ client' = Result(m).client
    /\ event' = Result(m).event

ReadsAndAdvances(m) ==
    /\ ClientReceives(m)
    /\ client' = Result(m).client
    /\ event' = [Result(m).event EXCEPT !.send_msgID = NextMsgID(@)]

\* disconnect(0), whose return code nobody looks at, and the end of the session.
Quit ==
    /\ toGateway' \in AfterSend(toGateway, Disconnect(0))
                        \cup (IF SendErrors THEN {toGateway} ELSE {})
    /\ eventID' = "Q_DISCONNECTED"

\* A sender that must not fail: the session ends if it does.
SendOrQuit(m, next) ==
    \/ ClientSends(m) /\ eventID' = next
    \/ SendErrors /\ Quit

----------------------------------------------------------------------------
(* Q_CONNECTING: connect() has been called by main. *)

ConnectingRead(m) ==
    /\ eventID = "Q_CONNECTING"
    /\ Reads(m)
    /\ \/ /\ Result(m).rc = "Q_ConnackRead"
          /\ eventID' = "Q_CONNECTED"
          /\ retries' = 0
          /\ due' = due \ {"ping"}
          /\ UNCHANGED toGateway
       \/ /\ Result(m).rc = "Q_WillTopReq"
          /\ SendOrQuit(WillTopic, "Q_WILL_TOP_REQ")
          /\ UNCHANGED <<retries, due>>
       \/ /\ Result(m).rc \notin {"Q_ConnackRead", "Q_WillTopReq"}
          /\ eventID' = "Q_DISCONNECTED"
          /\ UNCHANGED <<retries, due, toGateway>>
    /\ UNCHANGED loopFlag

\* Waits again, without a new CONNECT, while there are retries left.
ConnectingNoMsg ==
    /\ eventID = "Q_CONNECTING"
    /\ IF retries < MaxRetry
       THEN retries' = retries + 1 /\ UNCHANGED eventID
       ELSE eventID' = "Q_DISCONNECTED" /\ UNCHANGED retries
    /\ UNCHANGED <<loopFlag, client, event, due, netVars>>

----------------------------------------------------------------------------
(* Q_WILL_TOP_REQ and Q_WILL_MSG_REQ: connecting with a will. *)

WillTopReqRead(m) ==
    /\ eventID = "Q_WILL_TOP_REQ"
    /\ Reads(m)
    /\ IF Result(m).rc = "Q_WillMsgReq"
       THEN SendOrQuit(WillMsg, "Q_WILL_MSG_REQ")
       ELSE Quit
    /\ UNCHANGED <<loopFlag, retries, due>>

WillMsgReqRead(m) ==
    /\ eventID = "Q_WILL_MSG_REQ"
    /\ Reads(m)
    /\ IF Result(m).rc = "Q_ConnackRead"
       THEN eventID' = "Q_CONNECTED" /\ due' = due \ {"ping"} /\ UNCHANGED toGateway
       ELSE Quit /\ UNCHANGED due
    /\ UNCHANGED <<loopFlag, retries>>

WillNoMsg ==
    /\ eventID \in {"Q_WILL_TOP_REQ", "Q_WILL_MSG_REQ"}
    /\ Quit
    /\ UNCHANGED <<loopFlag, client, event, retries, due, toClient>>

----------------------------------------------------------------------------
(* Q_PUBLISH: a PUBLISH of level 1 or 2 has been sent. *)

PublishNoMsg ==
    /\ eventID = "Q_PUBLISH"
    /\ eventID' = "Q_CONNECTED"
    /\ due' = due \ {"publish"}
    /\ UNCHANGED <<loopFlag, client, event, retries, netVars>>

\* PUBACK: done.
PublishAcked(m) ==
    /\ eventID = "Q_PUBLISH"
    /\ Result(m).rc = "Q_PubAckRead"
    /\ ReadsAndAdvances(m)
    /\ eventID' = "Q_CONNECTED"
    /\ due' = due \ {"publish"}
    /\ UNCHANGED <<loopFlag, retries, toGateway>>

\* PUBREC: a PUBREL for event->msgID goes out; if it cannot, the state is kept.
PublishReceived(m) ==
    /\ eventID = "Q_PUBLISH"
    /\ Result(m).rc = "Q_PubRecRead"
    /\ Reads(m)
    /\ \/ /\ ClientSends(Ack("PUBREL", event'.msgID))
          /\ eventID' = "Q_PUB_QOS2"
          /\ UNCHANGED due
       \/ /\ SendErrors
          /\ due' = due \ {"publish"}
          /\ UNCHANGED <<eventID, toGateway>>
    /\ UNCHANGED <<loopFlag, retries>>

\* Anything else is dropped with the publish it interrupts.
PublishUnexpected(m) ==
    /\ eventID = "Q_PUBLISH"
    /\ Result(m).rc \notin {"Q_PubAckRead", "Q_PubRecRead"}
    /\ Reads(m)
    /\ eventID' = "Q_CONNECTED"
    /\ due' = due \ {"publish"}
    /\ UNCHANGED <<loopFlag, retries, toGateway>>

----------------------------------------------------------------------------
(* Q_PUB_QOS2: the PUBREL has been sent. *)

PubQos2Complete(m) ==
    /\ eventID = "Q_PUB_QOS2"
    /\ Result(m).rc = "Q_PubCompRead"
    /\ ReadsAndAdvances(m)
    /\ eventID' = "Q_CONNECTED"
    /\ due' = due \ {"publish"}
    /\ UNCHANGED <<loopFlag, retries, toGateway>>

PubQos2Unexpected(m) ==
    /\ eventID = "Q_PUB_QOS2"
    /\ Result(m).rc # "Q_PubCompRead"
    /\ Reads(m)
    /\ eventID' = "Q_CONNECTED"
    /\ due' = due \ {"publish"}
    /\ UNCHANGED <<loopFlag, retries, toGateway>>

PubQos2NoMsg ==
    /\ eventID = "Q_PUB_QOS2"
    /\ eventID' = "Q_CONNECTED"
    /\ due' = due \ {"publish"}
    /\ UNCHANGED <<loopFlag, client, event, retries, netVars>>

----------------------------------------------------------------------------
(* Q_CLIENT_PING: a PINGREQ has been sent. *)

PingAnswered(m) ==
    /\ eventID = "Q_CLIENT_PING"
    /\ Result(m).rc = "Q_PingRespRead"
    /\ Reads(m)
    /\ eventID' = "Q_CONNECTED"
    /\ retries' = 0
    /\ due' = due \ {"ping"}
    /\ UNCHANGED <<loopFlag, toGateway>>

\* The timer is left as it is, so the next turn in Q_CONNECTED pings again.
PingUnexpected(m) ==
    /\ eventID = "Q_CLIENT_PING"
    /\ Result(m).rc # "Q_PingRespRead"
    /\ Reads(m)
    /\ eventID' = "Q_CONNECTED"
    /\ UNCHANGED <<loopFlag, retries, due, toGateway>>

\* Mutant: one retransmission more.
PingRetryOnceMore ==
    /\ eventID = "Q_CLIENT_PING"
    /\ retries <= MaxRetry + 1
    /\ SendOrQuit(PingReq, "Q_CLIENT_PING")
    /\ retries' = IF eventID' = "Q_DISCONNECTED" THEN retries ELSE retries + 1
    /\ UNCHANGED <<loopFlag, client, event, due, toClient>>

\* Mutant: the retransmissions are not counted.
PingRetryUncounted ==
    /\ eventID = "Q_CLIENT_PING"
    /\ retries <= MaxRetry
    /\ SendOrQuit(PingReq, "Q_CLIENT_PING")
    /\ UNCHANGED <<loopFlag, client, event, retries, due, toClient>>

PingRetry ==
    /\ eventID = "Q_CLIENT_PING"
    /\ retries <= MaxRetry
    /\ SendOrQuit(PingReq, "Q_CLIENT_PING")
    /\ retries' = IF eventID' = "Q_DISCONNECTED" THEN retries ELSE retries + 1
    /\ UNCHANGED <<loopFlag, client, event, due, toClient>>

\* retries is not reset: the next unanswered ping is given up at once.
PingGiveUp ==
    /\ eventID = "Q_CLIENT_PING"
    /\ retries > MaxRetry
    /\ eventID' = "Q_CONNECTED"
    /\ due' = due \ {"ping"}
    /\ UNCHANGED <<loopFlag, client, event, retries, netVars>>

----------------------------------------------------------------------------
(* Q_DISCONNECTED: the socket is closed and the loop ends. *)

Close ==
    /\ eventID = "Q_DISCONNECTED"
    /\ loopFlag' = FALSE
    /\ UNCHANGED <<eventID, client, event, retries, due, netVars>>

\* time(NULL) moves on and a running timer reaches its limit.
Tick ==
    /\ loopFlag
    /\ \E t \in Timers \ due : due' = due \cup {t}
    /\ UNCHANGED <<loopFlag, eventID, client, event, retries, netVars>>
============================================================================
