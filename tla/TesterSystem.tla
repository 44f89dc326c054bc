----------------------------- MODULE TesterSystem -----------------------------
(***************************************************************************)
(* The client library of the gateway tester with the gateway, which is     *)
(* here one step per request: what Gateway.tla and SubscribeGateway.tla    *)
(* say of connecting, registering, publishing, subscribing and sleeping,   *)
(* with the broker's part in it, and nothing of its queues.                *)
(*                                                                         *)
(* A message may be lost, the broker may refuse a client or close its      *)
(* connection, each of which counts as a fault.                            *)
(***************************************************************************)
EXTENDS TesterClient

CONSTANT GatewayIds      \* the predefined topics the gateway has

ASSUME GatewayIdsAssumption == GatewayIds \subseteq PredefinedIds

VARIABLES
    status,            \* Client::_status, "Unknown" when there is no Client
    topics,            \* Client::_topics: the id of each name, 0 for a name not there
    nextTopicId,
    brokerSubs,        \* the topics the broker has a subscription of the client for
    handled            \* ids of the PUBLISHes that were passed on to the broker

sessionVars == <<status, topics, nextTopicId, brokerSubs, handled>>

clientVars == <<proxy, managerVars, todo, tests, faults, noteVars>>

vars == <<clientVars, netVars, sessionVars>>

NoTopics == [name \in Names |-> 0]

Init ==
    /\ TesterInit
    /\ status = "Unknown"
    /\ topics = NoTopics
    /\ nextTopicId = 0
    /\ brokerSubs = {}
    /\ handled = {}

----------------------------------------------------------------------------
(* The gateway's handlers. *)

Takes(m, answers) ==
    /\ toGateway' = Tail(toGateway)
    /\ toClient' = toClient \o answers
    /\ UNCHANGED <<proxy, managerVars, todo, tests, finished, wanted, gaveUp, crashed>>

Resting == status \in {"Asleep", "Awake"}

HandleSearchgw(m) ==
    /\ m.type = "SEARCHGW"
    /\ Takes(m, <<Msg("GWINFO")>>)
    /\ UNCHANGED <<sessionVars, faults, conducted>>

Connack(accepted) == [type |-> "CONNACK", accepted |-> accepted]

\* A client that rests keeps its session; otherwise it begins a clean one.
HandleConnect(m) ==
    /\ m.type = "CONNECT"
    /\ status' = "Active"
    /\ Takes(m, <<Connack(TRUE)>>)
    /\ IF Resting
       THEN UNCHANGED <<topics, brokerSubs, conducted>>
       ELSE topics' = NoTopics /\ brokerSubs' = {} /\ conducted' = FALSE
    /\ UNCHANGED <<nextTopicId, handled, faults>>

HandleConnectRefused(m) ==
    /\ m.type = "CONNECT" /\ ~Resting
    /\ Fault
    /\ status' = "Disconnected"
    /\ topics' = NoTopics /\ brokerSubs' = {} /\ conducted' = FALSE
    /\ Takes(m, <<Connack(FALSE)>>)
    /\ UNCHANGED <<nextTopicId, handled>>

Erase == status' = "Unknown" /\ topics' = NoTopics /\ nextTopicId' = 0 /\ brokerSubs' = {}

\* Without a duration the broker closes the connection, and the Client is erased.
HandleDisconnect(m) ==
    /\ m.type = "DISCONNECT" /\ status # "Unknown"
    /\ Takes(m, <<DisconnectMsg(FALSE)>>)
    /\ IF ~m.sleeps
       THEN Erase
       ELSE /\ status' = IF status = "Active" THEN "Asleep" ELSE "Disconnected"
            /\ UNCHANGED <<topics, nextTopicId, brokerSubs>>
    /\ UNCHANGED <<handled, faults, conducted>>

\* Awake until the PINGRESP.
HandlePingreq(m) ==
    /\ m.type = "PINGREQ" /\ status # "Unknown"
    /\ Takes(m, <<Msg("PINGRESP")>>)
    /\ UNCHANGED <<sessionVars, faults, conducted>>

AddTopic(name) ==
    IF topics[name] # 0 THEN UNCHANGED <<topics, nextTopicId>>
    ELSE nextTopicId' = nextTopicId + 1 /\ topics' = [topics EXCEPT ![name] = nextTopicId']

HandleRegister(m) ==
    /\ m.type = "REGISTER" /\ status = "Active"
    /\ AddTopic(m.topic)
    /\ Takes(m, <<[type |-> "REGACK", msgID |-> m.msgID, id |-> topics'[m.topic]]>>)
    /\ UNCHANGED <<status, brokerSubs, handled, faults, conducted>>

\* At QoS 0 nothing is answered, whatever the topic id.
HandlePublish(m) ==
    /\ m.type = "PUBLISH" /\ status # "Unknown"
    /\ LET valid == \E name \in Names : m.id = topics[name] /\ m.id # 0
       IN  /\ handled' = IF valid /\ m.qos > 0 THEN handled \cup {m.msgID} ELSE handled
           /\ Takes(m, CASE m.qos = 0 -> <<>>
                         [] m.qos = 2 /\ valid -> <<[type |-> "PUBREC", msgID |-> m.msgID]>>
                         [] OTHER -> <<[type |-> "PUBACK", msgID |-> m.msgID, accepted |-> valid]>>)
    /\ UNCHANGED <<status, topics, nextTopicId, brokerSubs, faults, conducted>>

HandlePubrel(m) ==
    /\ m.type = "PUBREL" /\ status = "Active"
    /\ Takes(m, <<[type |-> "PUBCOMP", msgID |-> m.msgID]>>)
    /\ UNCHANGED <<sessionVars, faults, conducted>>

\* A predefined topic must be one of the gateway's.
HandleSubscribe(m) ==
    /\ m.type = "SUBSCRIBE" /\ status # "Unknown"
    /\ IF m.topic \in PredefinedIds \ GatewayIds
       THEN /\ Takes(m, <<[type |-> "SUBACK", msgID |-> m.msgID, topic |-> m.topic, id |-> 0, accepted |-> FALSE]>>)
            /\ UNCHANGED <<topics, nextTopicId, brokerSubs>>
       ELSE /\ IF m.topic \in Names THEN AddTopic(m.topic) ELSE UNCHANGED <<topics, nextTopicId>>
            /\ brokerSubs' = brokerSubs \cup {m.topic}
            /\ Takes(m, <<[type |-> "SUBACK", msgID |-> m.msgID, topic |-> m.topic, accepted |-> TRUE,
                           id |-> IF m.topic \in Names THEN topics'[m.topic] ELSE 0]>>)
    /\ UNCHANGED <<status, handled, faults, conducted>>

HandleUnsubscribe(m) ==
    /\ m.type = "UNSUBSCRIBE" /\ status # "Unknown"
    /\ brokerSubs' = brokerSubs \ {m.topic}
    /\ Takes(m, <<[type |-> "UNSUBACK", msgID |-> m.msgID]>>)
    /\ UNCHANGED <<status, topics, nextTopicId, handled, faults, conducted>>

\* What comes from a client that is not known, or not Active, is discarded.
HandleIgnored(m) ==
    /\ \/ status = "Unknown" /\ m.type \notin {"SEARCHGW", "CONNECT"}
       \/ status # "Active" /\ m.type \in {"REGISTER", "PUBREL"}
    /\ Takes(m, <<>>)
    /\ UNCHANGED <<sessionVars, faults, conducted>>

Handle(m) ==
    \/ HandleSearchgw(m) \/ HandleConnect(m) \/ HandleDisconnect(m) \/ HandlePingreq(m)
    \/ HandleRegister(m) \/ HandlePublish(m) \/ HandlePubrel(m)
    \/ HandleSubscribe(m) \/ HandleUnsubscribe(m) \/ HandleIgnored(m)

\* The broker closes the connection: the Client is erased, and nobody tells the client.
BrokerCloses ==
    /\ status # "Unknown"
    /\ Fault
    /\ Erase
    /\ UNCHANGED <<proxy, managerVars, todo, tests, noteVars, netVars, handled>>

Lose ==
    /\ Fault
    /\ \/ \E i \in DOMAIN toGateway : toGateway' = RemoveAt(toGateway, i) /\ UNCHANGED toClient
       \/ \E i \in DOMAIN toClient  : toClient' = RemoveAt(toClient, i) /\ UNCHANGED toGateway
    /\ UNCHANGED <<proxy, managerVars, todo, tests, noteVars, sessionVars>>

----------------------------------------------------------------------------
\* What the client does between two reads is one with the read: nobody sees it halfway.
ClientWaits == todo = <<>> \/ InGetMessage \/ ConnectWaits \/ In("disconnecting")

ClientStep(A) == A /\ UNCHANGED sessionVars

Next ==
    \/ ClientStep(Proceed) \/ ClientStep(Timeout) \/ ClientStep(Ping)
    \/ ClientStep(RunTest) \/ ClientStep(ProgramEnds)
    \/ toClient # <<>> /\ ClientStep(Receive(Head(toClient)))
    \/ ClientWaits /\ toGateway # <<>> /\ Handle(Head(toGateway))
    \/ ClientWaits /\ toGateway # <<>> /\ HandleConnectRefused(Head(toGateway))
    \/ ClientWaits /\ BrokerCloses
    \/ ClientWaits /\ Lose

Spec == Init /\ [][Next]_vars

\* The library runs, its timers come up when nothing else happens, and no message stays on
\* its way for ever; nobody has to press a key for the next test.
Fairness ==
    /\ WF_vars(ClientStep(Proceed)) /\ WF_vars(ClientStep(Timeout)) /\ WF_vars(ClientStep(Ping))
    /\ WF_vars(toClient # <<>> /\ ClientStep(Receive(Head(toClient))))
    /\ WF_vars(ClientWaits /\ toGateway # <<>> /\ Handle(Head(toGateway)))

FairSpec == Spec /\ Fairness

----------------------------------------------------------------------------
(* What the calls, the messages and the elements of the managers' lists are. *)

Topics == Names \cup PredefinedIds

Calls ==
    [op : {"connect", "writePublish", "reconnected", "waitSubs", "disconnecting", "prompt",
           "busy"}]
      \cup [op : {"publish"}, topic : Names, qos : 0..2]
      \cup [op : {"subscribe", "unsubscribe", "sleep", "disconnect"}, topic : Topics, qos : 0..2]
      \cup [op : {"subscribe"}, topic : Names]
      \cup [op : {"resubscribe"}, type : {"SUBSCRIBE", "UNSUBSCRIBE"}, topic : Topics]
      \cup [op : {"writeSub"}, type : {"SUBSCRIBE", "UNSUBSCRIBE"}, topic : Topics, msgID : Nat]
      \cup [op : {"writeRegister"}, topic : Names, msgID : Nat]

Requests ==
    [type : {"SEARCHGW", "CONNECT", "PINGREQ"}]
      \cup [type : {"DISCONNECT"}, sleeps : BOOLEAN]
      \cup [type : {"PUBLISH"}, id : Nat, topic : Names, qos : 0..2, msgID : Nat]
      \cup [type : {"REGISTER"}, topic : Names, msgID : Nat]
      \cup [type : {"SUBSCRIBE", "UNSUBSCRIBE"}, topic : Topics, msgID : Nat]
      \cup [type : {"PUBREL"}, msgID : Nat]

Answers ==
    [type : {"GWINFO", "PINGRESP"}]
      \cup [type : {"CONNACK"}, accepted : BOOLEAN]
      \cup [type : {"DISCONNECT"}, sleeps : BOOLEAN]
      \cup [type : {"REGACK"}, msgID : Nat, id : Nat]
      \cup [type : {"PUBACK"}, msgID : Nat, accepted : BOOLEAN]
      \cup [type : {"PUBREC", "PUBCOMP", "UNSUBACK"}, msgID : Nat]
      \cup [type : {"SUBACK"}, msgID : Nat, topic : Topics, id : Nat, accepted : BOOLEAN]

\* How often an element is still sent again; it falls below 0 when connections nest.
Retries == {n \in Int : n <= RetryCount}

SubElements ==
    [type : {"SUBSCRIBE", "UNSUBSCRIBE"}, topic : Topics, msgID : Nat, retry : Retries,
     done : BOOLEAN, refused : BOOLEAN]

RegElements == [topic : Names, msgID : Nat, retry : Retries]

PubElements ==
    [topic : Names, qos : 0..2, retry : Retries, msgID : Nat, id : Nat,
     status : {"READY", "SUSPEND", "WAIT_PUBACK", "WAIT_PUBREC", "WAIT_PUBCOMP"}]

ProxyTypeOK ==
    proxy \in [status : {"LOST", "SEARCHING", "CONNECTING", "WAIT_CONNACK", "CONNECTED",
                         "DISCONNECTING", "SLEEPING", "DISCONNECTED", "SLEPT"},
               retry : 0..RetryCount, tSleep : BOOLEAN, tWake : 0..SleepPings - 1,
               waitPing : BOOLEAN, pingRetry : 0..RetryCount, keepAlive : BOOLEAN]

\* _last points to an element, or to one that was freed.
ManagersTypeOK ==
    /\ table \in [Names -> Nat]
    /\ subs \in Seq(SubElements) /\ subLast \in -1..Len(subs)
    /\ reg \in Seq(RegElements) /\ Len(reg) <= 1
    /\ pub \in Seq(PubElements) /\ Len(pub) <= 1
    /\ nextMsgId \in Nat

CallsTypeOK == todo \in Seq(Calls) /\ tests \in 0..MaxTests

ChannelsTypeOK ==
    toGateway \in Seq(Requests) /\ toClient \in Seq(Answers) /\ faults \in 0..MaxFaults

SessionTypeOK ==
    /\ status \in {"Unknown", "Disconnected", "Active", "Asleep"}
    /\ topics \in [Names -> Nat] /\ nextTopicId \in Nat
    /\ brokerSubs \subseteq Topics /\ handled \subseteq Nat

NotesTypeOK ==
    /\ finished \subseteq Nat /\ wanted \subseteq Topics
    /\ conducted \in BOOLEAN /\ gaveUp \in BOOLEAN /\ crashed \in BOOLEAN

\* Every variable has its type.
TypeOK ==
    /\ ProxyTypeOK /\ ManagersTypeOK /\ CallsTypeOK
    /\ ChannelsTypeOK /\ SessionTypeOK /\ NotesTypeOK

\* What is reported as published was passed on to the broker, however many times it was sent,
\* rejected and registered again (LPublishManager.cpp:234).
DoneIsHandled == finished \subseteq handled

Accepted == {subs[i].topic : i \in {j \in DOMAIN subs : /\ subs[j].type = "SUBSCRIBE"
                                                        /\ subs[j].done /\ ~subs[j].refused}}

\* When the program waits for the next test, each topic it was told it has subscribed to is
\* one the broker sends it, if the gateway's session is the one onConnect was called for: a
\* CONNECT that is sent again, or that ends a sleep, may begin another.
SubscriptionsKept ==
    In("prompt") /\ proxy.status = "CONNECTED" /\ status = "Active" /\ conducted
      => Accepted \cap wanted \subseteq brokerSubs

\* A test has begun and not ended, whatever is called meanwhile.
Testing == \E i \in DOMAIN todo : todo[i].op = "busy"

\* Every test ends (LTaskManager::run's inner loop) and the program asks for the next one, in
\* spite of what is lost, sent again, rejected or connected anew, unless the REGISTER its PUBLISH
\* waits for was given up without a word (LRegisterManager.cpp:240) or the program crashed.
TestsEnd == Testing ~> In("prompt") \/ gaveUp \/ crashed

\* A client that was put to sleep while its keep-alive timer ran gets up again
\* (LGwProxy.cpp:381), whichever of its PINGREQs and PINGRESPs are lost.
SleeperWakes == proxy.status = "SLEPT" /\ proxy.keepAlive ~> proxy.status # "SLEPT" \/ todo = <<>>
============================================================================
