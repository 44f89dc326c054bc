----------------------------- MODULE TesterClient -----------------------------
(***************************************************************************)
(* The client library of the gateway tester (MQTTSNGateway/GatewayTester), *)
(* as its test programs run it: one test after another, each of which      *)
(* publishes, subscribes, unsubscribes, sleeps or disconnects.             *)
(*                                                                         *)
(* The library has one thread and waits for messages in three loops:       *)
(* LGwProxy::connect, LGwProxy::disconnect and LGwProxy::getMessage, the   *)
(* last of which LTaskManager::run and LSubscribeManager::onConnect call.  *)
(* They nest: whoever sends calls connect() first, connect() calls         *)
(* onConnect() when a clean session begins, onConnect() handles every      *)
(* message that arrives, and a message or a timeout may send.  "todo" is   *)
(* that stack of calls, the innermost first; an action does what the       *)
(* innermost one does next.                                                *)
(*                                                                         *)
(* A timer is up at any time its owner looks at it; a timeout that comes   *)
(* while the answer is still on its way counts as a fault.                 *)
(***************************************************************************)
EXTENDS Integers, FiniteSets, SequencesExt

CONSTANTS
    Names,             \* names of topics
    PredefinedIds,     \* ids of predefined topics
    SubscribeList,     \* theOnPublishList: names
    Tests,             \* what a test may do: [do, topic, qos]
    MaxTests,          \* length of theTestList
    RetryCount,        \* MQTTSN_RETRY_COUNT
    SleepPings,        \* sleepDuration / keepAlive
    MaxFaults          \* bound: messages lost, timeouts too early, failures of the broker

ASSUME TesterAssumption ==
    /\ Names \cap PredefinedIds = {}
    /\ SubscribeList \in Seq(Names)
    /\ Tests \subseteq
            [do : {"publish"}, topic : Names, qos : 0..2] \cup
            [do : {"subscribe", "unsubscribe", "sleep", "disconnect"},
             topic : Names \cup PredefinedIds, qos : 0..2]
    /\ MaxTests \in Nat /\ MaxFaults \in Nat
    /\ RetryCount \in Nat \ {0} /\ SleepPings \in Nat \ {0}

VARIABLES
    proxy,             \* LGwProxy: see ProxyTypeOK
    table,             \* LTopicTable: the id of each name, 0 for a name not there
    subs,              \* LSubscribeManager: its elements from _first on
    subLast,           \* which of them _last points to: 0 none, -1 one that was freed
    reg,               \* LRegisterManager: its element
    pub,               \* LPublishManager: its element
    nextMsgId,         \* LGwProxy::_nextMsgId
    todo,              \* the calls that have not returned
    tests,             \* tests that have been run
    toGateway, toClient,   \* messages on their way, in order
    faults,
    finished,          \* ids of the PUBLISHes that were reported as published
    wanted,            \* the topics the program has subscribed to
    gaveUp,            \* a REGISTER was given up that a PUBLISH waits for
    conducted,         \* onConnect was called for the session the gateway has
    crashed            \* strlen or strncmp was given a null pointer

netVars     == <<toGateway, toClient>>
managerVars == <<table, subs, subLast, reg, pub, nextMsgId>>
noteVars    == <<finished, wanted, gaveUp, conducted, crashed>>

TesterInit ==
    /\ proxy = [status |-> "LOST", retry |-> 0, tSleep |-> FALSE, tWake |-> 0,
                waitPing |-> FALSE, pingRetry |-> 0, keepAlive |-> FALSE]
    /\ table = [name \in Names |-> 0]
    /\ subs = <<>> /\ subLast = 0
    /\ reg = <<>> /\ pub = <<>>
    /\ nextMsgId = 0
    /\ todo = <<[op |-> "connect"], [op |-> "prompt"]>>
    /\ tests = 0
    /\ toGateway = <<>> /\ toClient = <<>>
    /\ faults = 0
    /\ finished = {} /\ wanted = {} /\ gaveUp = FALSE /\ conducted = FALSE /\ crashed = FALSE

----------------------------------------------------------------------------
(* Calls, messages and timers. *)

In(op)        == todo # <<>> /\ Head(todo).op = op
Call(items)   == todo' = items \o todo
Becomes(items) == todo' = items \o Tail(todo)
Return        == Becomes(<<>>)

SubsDone == \A i \in DOMAIN subs : subs[i].done

\* The loops in which getMessage is called.
InGetMessage == In("prompt") \/ In("busy") \/ (In("waitSubs") /\ ~SubsDone)

Msg(type)              == [type |-> type]
PublishMsg(e)          == [type |-> "PUBLISH", id |-> e.id, topic |-> e.topic, qos |-> e.qos, msgID |-> e.msgID]
TopicMsg(type, topic, msgID) == [type |-> type, topic |-> topic, msgID |-> msgID]
DisconnectMsg(sleeps)  == [type |-> "DISCONNECT", sleeps |-> sleeps]

Write(m)   == toGateway' = Append(toGateway, m) /\ UNCHANGED toClient
Read       == toClient' = Tail(toClient)
ReadOnly(m) == Read /\ UNCHANGED toGateway
ReadAndWrite(m, answer) == Read /\ toGateway' = Append(toGateway, answer)

Pings == {"PINGREQ", "PINGRESP"}
OnTheWay == {(toGateway \o toClient)[i] : i \in 1..Len(toGateway) + Len(toClient)}
Quiet    == \A m \in OnTheWay : m.type \in Pings

Fault == faults < MaxFaults /\ faults' = faults + 1
TimeUp(certain) == IF certain THEN UNCHANGED faults ELSE Fault

----------------------------------------------------------------------------
(* LGwProxy::connect and getConnectResponce *)

ConnectReturns ==
    /\ In("connect") /\ proxy.status = "CONNECTED"
    /\ Return
    /\ UNCHANGED <<proxy, managerVars, tests, netVars, faults, noteVars>>

ConnectSearches ==
    /\ In("connect") /\ proxy.status = "LOST"
    /\ proxy' = [proxy EXCEPT !.status = "SEARCHING", !.retry = RetryCount]
    /\ Write(Msg("SEARCHGW"))
    /\ UNCHANGED <<managerVars, todo, tests, faults, noteVars>>

ConnectSends ==
    /\ In("connect") /\ proxy.status \in {"CONNECTING", "DISCONNECTED", "SLEPT"}
    /\ proxy' = [proxy EXCEPT !.status = "WAIT_CONNACK", !.retry = RetryCount]
    /\ Write(Msg("CONNECT"))
    /\ UNCHANGED <<managerVars, todo, tests, faults, noteVars>>

ConnectFindsGateway(m) ==
    /\ In("connect") /\ m.type = "GWINFO" /\ proxy.status = "SEARCHING"
    /\ ReadOnly(m)
    /\ proxy' = [proxy EXCEPT !.status = "CONNECTING"]
    /\ UNCHANGED <<managerVars, todo, tests, faults, noteVars>>

\* What onConnect does: the list of the program, or the SUBSCRIBEs there are already.
OnConnect ==
    IF subs = <<>>
    THEN [i \in DOMAIN SubscribeList |-> [op |-> "subscribe", topic |-> SubscribeList[i]]]
           \o <<[op |-> "waitSubs"]>>
    ELSE [i \in DOMAIN subs |-> [op |-> "resubscribe", type |-> subs[i].type, topic |-> subs[i].topic]]
           \o <<[op |-> "waitSubs"]>>

\* Mutant: onConnect is for the first session only.
ConnectAcceptedOnce(m) ==
    /\ In("connect") /\ m.type = "CONNACK" /\ proxy.status = "WAIT_CONNACK" /\ m.accepted
    /\ ReadOnly(m)
    /\ proxy' = [proxy EXCEPT !.status = "CONNECTED", !.keepAlive = TRUE, !.tSleep = FALSE]
    /\ IF proxy.tSleep
       THEN UNCHANGED <<table, todo, conducted>>
       ELSE /\ table' = [name \in Names |-> 0]
            /\ IF subs = <<>> THEN Call(OnConnect) ELSE UNCHANGED todo
            /\ conducted' = TRUE
    /\ UNCHANGED <<subs, subLast, reg, pub, nextMsgId, tests, faults, finished, wanted, gaveUp, crashed>>

\* After a sleep the session is taken to be the one there was.  (All the programs ask
\* for clean sessions.)
ConnectAccepted(m) ==
    /\ In("connect") /\ m.type = "CONNACK" /\ proxy.status = "WAIT_CONNACK" /\ m.accepted
    /\ ReadOnly(m)
    /\ proxy' = [proxy EXCEPT !.status = "CONNECTED", !.keepAlive = TRUE, !.tSleep = FALSE]
    /\ IF proxy.tSleep
       THEN UNCHANGED <<table, todo, conducted>>
       ELSE /\ table' = [name \in Names |-> 0]
            /\ Call(OnConnect)
            /\ conducted' = TRUE
    /\ UNCHANGED <<subs, subLast, reg, pub, nextMsgId, tests, faults, finished, wanted, gaveUp, crashed>>

ConnectRefused(m) ==
    /\ In("connect") /\ m.type = "CONNACK" /\ proxy.status = "WAIT_CONNACK" /\ ~m.accepted
    /\ ReadOnly(m)
    /\ proxy' = [proxy EXCEPT !.status = "CONNECTING"]
    /\ UNCHANGED <<managerVars, todo, tests, faults, noteVars>>

ConnectWaits == In("connect") /\ proxy.status \in {"SEARCHING", "WAIT_CONNACK"}

\* Anything else that arrives meanwhile is lost.
ConnectDrops(m) ==
    /\ ConnectWaits
    /\ ~(m.type = "GWINFO" /\ proxy.status = "SEARCHING")
    /\ ~(m.type = "CONNACK" /\ proxy.status = "WAIT_CONNACK")
    /\ ReadOnly(m)
    /\ UNCHANGED <<proxy, managerVars, todo, tests, faults, noteVars>>

\* _connectRetry falls with _retryCount, so the gateway is lost when both are used up.
ConnectTimeout ==
    /\ ConnectWaits
    /\ TimeUp(Quiet)
    /\ IF proxy.retry > 1
       THEN /\ proxy' = [proxy EXCEPT !.retry = @ - 1]
            /\ Write(Msg(IF proxy.status = "SEARCHING" THEN "SEARCHGW" ELSE "CONNECT"))
       ELSE /\ proxy' = [proxy EXCEPT !.status = "LOST", !.retry = 0]
            /\ UNCHANGED netVars
    /\ UNCHANGED <<managerVars, todo, tests, noteVars>>

----------------------------------------------------------------------------
(* LGwProxy::disconnect and getDisconnectResponce *)

DisconnectBegins ==
    /\ In("sleep") \/ In("disconnect")
    /\ LET sleeps == In("sleep")
       IN  /\ proxy' = [proxy EXCEPT !.status = IF sleeps THEN "SLEEPING" ELSE "DISCONNECTING",
                                     !.retry = RetryCount, !.tSleep = sleeps, !.tWake = 0,
                                     !.keepAlive = sleeps /\ @]
           /\ Write(DisconnectMsg(sleeps))
    /\ Becomes(<<[op |-> "disconnecting"]>>)
    /\ UNCHANGED <<managerVars, tests, faults, noteVars>>

DisconnectAnswered(m) ==
    /\ In("disconnecting") /\ m.type = "DISCONNECT"
    /\ ReadOnly(m)
    /\ proxy' = [proxy EXCEPT !.status = IF @ = "SLEEPING" THEN "SLEPT" ELSE "DISCONNECTED"]
    /\ Return
    /\ UNCHANGED <<managerVars, tests, faults, noteVars>>

DisconnectDrops(m) ==
    /\ In("disconnecting") /\ m.type # "DISCONNECT"
    /\ ReadOnly(m)
    /\ UNCHANGED <<proxy, managerVars, todo, tests, faults, noteVars>>

\* _tSleep keeps its value when the gateway is lost.
DisconnectTimeout ==
    /\ In("disconnecting")
    /\ TimeUp(Quiet)
    /\ IF proxy.retry > 0
       THEN /\ proxy' = [proxy EXCEPT !.retry = @ - 1]
            /\ Write(DisconnectMsg(proxy.tSleep))
            /\ UNCHANGED todo
       ELSE /\ proxy' = [proxy EXCEPT !.status = "LOST"]
            /\ Return
            /\ UNCHANGED netVars
    /\ UNCHANGED <<managerVars, tests, noteVars>>

----------------------------------------------------------------------------
(* LPublishManager, LRegisterManager: one PUBLISH and one REGISTER at a time, since the *)
(* next test begins when both lists are empty.                                          *)

SendsPublish  == <<[op |-> "connect"], [op |-> "writePublish"]>>
SendsRegister(topic, msgID) ==
    <<[op |-> "connect"], [op |-> "writeRegister", topic |-> topic, msgID |-> msgID]>>

\* LGwProxy::registerTopic, for the element the PUBLISH e becomes; msgID is the last id taken.
RegisterTopic(topic, msgID, e) ==
    /\ pub' = <<e>>
    /\ IF reg = <<>>
       THEN /\ reg' = <<[topic |-> topic, msgID |-> msgID + 1, retry |-> RetryCount]>>
            /\ nextMsgId' = msgID + 1
       ELSE UNCHANGED reg /\ nextMsgId' = msgID

RegisterCall(topic, msgID) == IF reg = <<>> THEN SendsRegister(topic, msgID + 1) ELSE <<>>

\* LPublishManager::publish
PublishCalled ==
    /\ In("publish")
    /\ LET test  == Head(todo)
           msgID == IF test.qos > 0 THEN nextMsgId + 1 ELSE nextMsgId
           e     == [topic |-> test.topic, qos |-> test.qos, retry |-> RetryCount,
                     msgID |-> IF test.qos > 0 THEN msgID ELSE 0, id |-> table[test.topic],
                     status |-> IF table[test.topic] # 0 THEN "READY" ELSE "SUSPEND"]
       IN  IF e.status = "READY"
           THEN pub' = <<e>> /\ nextMsgId' = msgID /\ UNCHANGED reg /\ Becomes(SendsPublish)
           ELSE RegisterTopic(test.topic, msgID, e) /\ Becomes(RegisterCall(test.topic, msgID))
    /\ UNCHANGED <<proxy, table, subs, subLast, tests, netVars, faults, noteVars>>

\* LPublishManager::sendPublish after connect(); the element may have been freed by then, in
\* which case what is sent has no id that anybody knows.
WritePublish ==
    /\ In("writePublish")
    /\ IF pub = <<>>
       THEN UNCHANGED <<pub, netVars>>
       ELSE LET e == pub[1]
            IN  /\ Write(PublishMsg(e))
                /\ pub' = IF e.qos = 0 THEN <<>>
                          ELSE <<[e EXCEPT !.status = IF e.qos = 1 THEN "WAIT_PUBACK" ELSE "WAIT_PUBREC",
                                           !.retry = @ - 1]>>
    /\ proxy' = [proxy EXCEPT !.keepAlive = TRUE]
    /\ Return
    /\ UNCHANGED <<table, subs, subLast, reg, nextMsgId, tests, faults, noteVars>>

\* LRegisterManager::send has composed the message before connect(), and sends it also when
\* the element was freed by then.  What it then writes to the element may be in the next one.
WriteRegister ==
    /\ In("writeRegister")
    /\ Write(TopicMsg("REGISTER", Head(todo).topic, Head(todo).msgID))
    /\ \/ reg' = [i \in DOMAIN reg |-> [reg[i] EXCEPT !.retry = @ - 1]]
       \/ reg' = reg /\ \A i \in DOMAIN reg : reg[i].msgID # Head(todo).msgID
    /\ Return
    /\ UNCHANGED <<proxy, table, subs, subLast, pub, nextMsgId, tests, faults, noteVars>>

Waits(status) == pub # <<>> /\ pub[1].status \in status

\* Mutant: when the retries are used up nothing happens.
PublishTimeoutIgnored ==
    /\ InGetMessage /\ Waits({"WAIT_PUBACK", "WAIT_PUBREC", "WAIT_PUBCOMP"})
    /\ pub[1].retry >= 0
    /\ TimeUp(Quiet)
    /\ Call(SendsPublish)
    /\ UNCHANGED <<proxy, managerVars, tests, netVars, noteVars>>

\* LPublishManager::checkTimeout: sent again, or the connection is made anew and then
\* the retries begin again.
PublishTimeout ==
    /\ InGetMessage /\ Waits({"WAIT_PUBACK", "WAIT_PUBREC", "WAIT_PUBCOMP"})
    /\ TimeUp(Quiet)
    /\ IF pub[1].retry >= 0
       THEN Call(SendsPublish) /\ UNCHANGED proxy
       ELSE /\ proxy' = [proxy EXCEPT !.status = "DISCONNECTED"]
            /\ Call(<<[op |-> "connect"], [op |-> "reconnected"]>>)
    /\ UNCHANGED <<managerVars, tests, netVars, noteVars>>

Reconnected ==
    /\ In("reconnected")
    /\ pub' = [i \in DOMAIN pub |-> [pub[i] EXCEPT !.retry = RetryCount]]
    /\ Return
    /\ UNCHANGED <<proxy, table, subs, subLast, reg, nextMsgId, tests, netVars, faults, noteVars>>

\* LRegisterManager::checkTimeout: given up without a word when the retries are used up.
RegisterTimeout ==
    /\ InGetMessage /\ reg # <<>>
    /\ TimeUp(Quiet)
    /\ IF reg[1].retry >= 0
       THEN Call(SendsRegister(reg[1].topic, reg[1].msgID)) /\ UNCHANGED <<reg, gaveUp>>
       ELSE reg' = <<>> /\ gaveUp' = (gaveUp \/ Waits({"SUSPEND"})) /\ UNCHANGED todo
    /\ UNCHANGED <<proxy, table, subs, subLast, pub, nextMsgId, tests, netVars,
                   finished, wanted, conducted, crashed>>

\* Mutant: a PUBACK ends the exchange whatever it says.
ReceivePubackAny(m) ==
    /\ InGetMessage /\ m.type = "PUBACK"
    /\ ReadOnly(m)
    /\ IF pub # <<>> /\ pub[1].msgID = m.msgID
       THEN pub' = <<>> /\ finished' = finished \cup {m.msgID}
       ELSE UNCHANGED <<pub, finished>>
    /\ UNCHANGED <<proxy, table, subs, subLast, reg, nextMsgId, todo, tests, faults,
                   wanted, gaveUp, conducted, crashed>>

\* LPublishManager::responce
ReceivePuback(m) ==
    /\ InGetMessage /\ m.type = "PUBACK"
    /\ ReadOnly(m)
    /\ IF pub = <<>> \/ (pub # <<>> /\ pub[1].msgID # m.msgID)
       THEN UNCHANGED <<pub, reg, nextMsgId, todo, finished>>
       ELSE IF m.accepted
       THEN IF Waits({"WAIT_PUBACK"})
            THEN pub' = <<>> /\ finished' = finished \cup {m.msgID} /\ UNCHANGED <<reg, nextMsgId, todo>>
            ELSE UNCHANGED <<pub, reg, nextMsgId, todo, finished>>
       ELSE /\ RegisterTopic(pub[1].topic, nextMsgId,
                             [pub[1] EXCEPT !.status = "SUSPEND", !.id = 0, !.retry = RetryCount])
            /\ Call(RegisterCall(pub[1].topic, nextMsgId))
            /\ UNCHANGED finished
    /\ UNCHANGED <<proxy, table, subs, subLast, tests, faults, wanted, gaveUp, conducted, crashed>>

ReceivePubrec(m) ==
    /\ InGetMessage /\ m.type = "PUBREC"
    /\ IF Waits({"WAIT_PUBREC", "WAIT_PUBCOMP"}) /\ pub[1].msgID = m.msgID
       THEN /\ ReadAndWrite(m, [type |-> "PUBREL", msgID |-> m.msgID])
            /\ pub' = <<[pub[1] EXCEPT !.status = "WAIT_PUBCOMP"]>>
       ELSE ReadOnly(m) /\ UNCHANGED pub
    /\ UNCHANGED <<proxy, table, subs, subLast, reg, nextMsgId, todo, tests, faults, noteVars>>

ReceivePubcomp(m) ==
    /\ InGetMessage /\ m.type = "PUBCOMP"
    /\ ReadOnly(m)
    /\ IF Waits({"WAIT_PUBCOMP"}) /\ pub[1].msgID = m.msgID
       THEN pub' = <<>> /\ finished' = finished \cup {m.msgID}
       ELSE UNCHANGED <<pub, finished>>
    /\ UNCHANGED <<proxy, table, subs, subLast, reg, nextMsgId, todo, tests, faults,
                   wanted, gaveUp, conducted, crashed>>

\* LRegisterManager::responceRegAck, with sendSuspend.
ReceiveRegack(m) ==
    /\ InGetMessage /\ m.type = "REGACK"
    /\ ReadOnly(m)
    /\ IF reg # <<>> /\ reg[1].msgID = m.msgID
       THEN /\ table' = [table EXCEPT ![reg[1].topic] = m.id]
            /\ reg' = <<>>
            /\ IF Waits({"SUSPEND"}) /\ pub[1].topic = reg[1].topic
               THEN /\ pub' = <<[pub[1] EXCEPT !.id = m.id, !.status = "READY"]>>
                    /\ Call(SendsPublish)
               ELSE UNCHANGED <<pub, todo>>
       ELSE UNCHANGED <<table, reg, pub, todo>>
    /\ UNCHANGED <<proxy, subs, subLast, nextMsgId, tests, faults, noteVars>>

----------------------------------------------------------------------------
(* LSubscribeManager *)

\* getElement: a predefined topic has one element, whatever it is for.
Element(type, topic) ==
    SelectInSeq(subs, LAMBDA e : e.topic = topic /\ (e.type = type \/ topic \in PredefinedIds))
WithId(msgID)        == SelectInSeq(subs, LAMBDA e : e.msgID = msgID)

\* getElement compares the name with that of each element of this type, and a predefined
\* topic has none.
MeetsNull(type, topic) ==
    LET found == Element(type, topic)
    IN  \E i \in DOMAIN subs : /\ subs[i].type = type /\ subs[i].topic \in PredefinedIds
                               /\ found = 0 \/ i < found

Crash == todo' = <<>> /\ crashed' = TRUE

\* add: the element there is, or one after _last.
AddElement(e) ==
    LET found == Element(e.type, e.topic)
    IN  CASE found # 0    -> subs' = ReplaceAt(subs, found, e) /\ UNCHANGED subLast
          [] found = 0 /\ subLast = -1 -> UNCHANGED <<subs, subLast>>
          [] OTHER -> subs' = SubSeq(subs, 1, subLast) \o <<e>> /\ subLast' = subLast + 1

\* Mutant: _last is not moved when the element it points to is freed.
RemoveElementOnly(i) == subs' = RemoveAt(subs, i) /\ UNCHANGED subLast

\* remove
RemoveElement(i) ==
    /\ subs' = RemoveAt(subs, i)
    /\ subLast' = CASE i = 1 -> IF Len(subs) = 1 THEN -1 ELSE 1
                    [] i # 1 /\ i = Len(subs) -> i - 1
                    [] OTHER -> IF subLast = i THEN -1 ELSE IF subLast > i THEN subLast - 1 ELSE subLast

SendsSub(type, topic, msgID) ==
    <<[op |-> "connect"], [op |-> "writeSub", type |-> type, topic |-> topic, msgID |-> msgID]>>

\* subscribe and unsubscribe
Ask(type, topic) ==
    IF topic \in Names /\ MeetsNull(type, topic)
    THEN Crash /\ UNCHANGED <<subs, subLast, nextMsgId>>
    ELSE /\ AddElement([type |-> type, topic |-> topic, msgID |-> nextMsgId + 1,
                        retry |-> RetryCount, done |-> FALSE, refused |-> FALSE])
         /\ nextMsgId' = nextMsgId + 1
         /\ Becomes(SendsSub(type, topic, nextMsgId + 1))
         /\ UNCHANGED crashed

SubscribeCalled ==
    /\ \/ /\ In("subscribe")
          /\ Ask("SUBSCRIBE", Head(todo).topic) /\ wanted' = wanted \cup {Head(todo).topic}
       \/ /\ In("unsubscribe")
          /\ Ask("UNSUBSCRIBE", Head(todo).topic) /\ wanted' = wanted \ {Head(todo).topic}
    /\ UNCHANGED <<proxy, table, reg, pub, tests, netVars, faults, finished, gaveUp, conducted>>

\* onConnect asks again by name, and strlen is given the name of a predefined topic; it
\* passes over an UNSUBSCRIBE.
Resubscribe ==
    /\ In("resubscribe")
    /\ IF Head(todo).type # "SUBSCRIBE"
       THEN Return /\ UNCHANGED <<subs, subLast, nextMsgId, crashed>>
       ELSE IF Head(todo).topic \in PredefinedIds
       THEN Crash /\ UNCHANGED <<subs, subLast, nextMsgId>>
       ELSE Ask("SUBSCRIBE", Head(todo).topic)
    /\ UNCHANGED <<proxy, table, reg, pub, tests, netVars, faults, finished, wanted, gaveUp, conducted>>

WriteSub ==
    /\ In("writeSub")
    /\ Write(TopicMsg(Head(todo).type, Head(todo).topic, Head(todo).msgID))
    /\ proxy' = [proxy EXCEPT !.keepAlive = TRUE]
    /\ LET i == Element(Head(todo).type, Head(todo).topic)
       IN  subs' = IF i = 0 THEN subs
                   ELSE [subs EXCEPT ![i].retry = @ - 1]
    /\ Return
    /\ UNCHANGED <<table, subLast, reg, pub, nextMsgId, tests, faults, noteVars>>

\* checkTimeout: sent again, under a new id if it never was, or reported as an error.
SubTimeout(i) ==
    /\ InGetMessage /\ ~subs[i].done
    /\ TimeUp(Quiet)
    /\ LET e     == subs[i]
           msgID == IF e.retry = RetryCount THEN nextMsgId + 1 ELSE e.msgID
       IN  IF e.retry >= 0
           THEN /\ subs' = [subs EXCEPT ![i].msgID = msgID]
                /\ nextMsgId' = IF e.retry = RetryCount THEN msgID ELSE nextMsgId
                /\ Call(SendsSub(e.type, e.topic, msgID))
           ELSE /\ subs' = [subs EXCEPT ![i].done = TRUE, ![i].refused = TRUE]
                /\ UNCHANGED <<nextMsgId, todo>>
    /\ UNCHANGED <<proxy, table, subLast, reg, pub, tests, netVars, noteVars>>

\* responce
ReceiveSuback(m) ==
    /\ InGetMessage /\ m.type = "SUBACK"
    /\ ReadOnly(m)
    /\ LET i == WithId(m.msgID)
       IN  CASE i = 0 -> UNCHANGED <<table, subs, subLast>>
             [] i # 0 /\ m.accepted ->
                  /\ subs' = [subs EXCEPT ![i].done = TRUE, ![i].refused = FALSE]
                  /\ table' = IF m.topic \in Names /\ table[m.topic] = 0
                              THEN [table EXCEPT ![m.topic] = m.id] ELSE table
                  /\ UNCHANGED subLast
             [] OTHER -> RemoveElement(i) /\ UNCHANGED table
    /\ UNCHANGED <<proxy, reg, pub, nextMsgId, todo, tests, faults, noteVars>>

ReceiveUnsuback(m) ==
    /\ InGetMessage /\ m.type = "UNSUBACK"
    /\ ReadOnly(m)
    /\ LET i == WithId(m.msgID)
       IN  IF i = 0 THEN UNCHANGED <<subs, subLast>> ELSE RemoveElement(i)
    /\ UNCHANGED <<proxy, table, reg, pub, nextMsgId, todo, tests, faults, noteVars>>

OnConnectReturns ==
    /\ In("waitSubs") /\ SubsDone
    /\ Return
    /\ UNCHANGED <<proxy, managerVars, tests, netVars, faults, noteVars>>

----------------------------------------------------------------------------
(* LGwProxy::checkPingReq, the PINGRESP, and what getMessage drops *)

Ping ==
    /\ InGetMessage /\ proxy.status \in {"CONNECTED", "SLEPT"} /\ proxy.keepAlive /\ ~proxy.waitPing
    /\ TimeUp(OnTheWay = {})
    /\ proxy' = [proxy EXCEPT !.waitPing = TRUE, !.pingRetry = RetryCount]
    /\ Write(Msg("PINGREQ"))
    /\ UNCHANGED <<managerVars, todo, tests, noteVars>>

PingTimeout ==
    /\ InGetMessage /\ proxy.waitPing
    /\ TimeUp(\A m \in OnTheWay : m.type \notin Pings)
    /\ IF proxy.pingRetry > 1
       THEN proxy' = [proxy EXCEPT !.pingRetry = @ - 1] /\ Write(Msg("PINGREQ"))
       ELSE /\ proxy' = [proxy EXCEPT !.status = "LOST", !.waitPing = FALSE, !.keepAlive = FALSE,
                                      !.pingRetry = 0]
            /\ UNCHANGED netVars
    /\ UNCHANGED <<managerVars, todo, tests, noteVars>>

\* Mutant: the time asleep is not counted.
ReceivePingrespSleepsOn(m) ==
    /\ InGetMessage /\ m.type = "PINGRESP" /\ proxy.waitPing
    /\ ReadOnly(m)
    /\ proxy' = [proxy EXCEPT !.waitPing = FALSE, !.pingRetry = 0, !.keepAlive = TRUE]
    /\ UNCHANGED <<managerVars, todo, tests, faults, noteVars>>

\* In a sleep each answer is the end of one keep-alive interval.
ReceivePingresp(m) ==
    /\ InGetMessage /\ m.type = "PINGRESP" /\ proxy.waitPing
    /\ ReadOnly(m)
    /\ LET wakes == proxy.tSleep /\ proxy.tWake + 1 >= SleepPings
       IN  /\ proxy' = [proxy EXCEPT !.waitPing = FALSE, !.pingRetry = 0, !.keepAlive = TRUE,
                            !.tWake = IF wakes THEN 0 ELSE IF proxy.tSleep THEN @ + 1 ELSE @]
           /\ IF wakes THEN Call(<<[op |-> "connect"]>>) ELSE UNCHANGED todo
    /\ UNCHANGED <<managerVars, tests, faults, noteVars>>

\* A DISCONNECT makes the gateway lost.
ReceiveDisconnect(m) ==
    /\ InGetMessage /\ m.type = "DISCONNECT"
    /\ ReadOnly(m)
    /\ proxy' = [proxy EXCEPT !.status = "LOST", !.keepAlive = FALSE]
    /\ UNCHANGED <<managerVars, todo, tests, faults, noteVars>>

ReceiveOther(m) ==
    /\ InGetMessage
    /\ m.type \in {"GWINFO", "CONNACK"} \/ (m.type = "PINGRESP" /\ ~proxy.waitPing)
    /\ ReadOnly(m)
    /\ UNCHANGED <<proxy, managerVars, todo, tests, faults, noteVars>>

----------------------------------------------------------------------------
(* LTaskManager::run *)

RunTest ==
    /\ In("prompt") /\ tests < MaxTests
    /\ tests' = tests + 1
    /\ \E test \in Tests :
          Call(<<[op |-> test.do, topic |-> test.topic, qos |-> test.qos], [op |-> "busy"]>>)
    /\ UNCHANGED <<proxy, managerVars, netVars, faults, noteVars>>

TestEnds ==
    /\ In("busy") /\ pub = <<>> /\ reg = <<>> /\ SubsDone
    /\ Return
    /\ UNCHANGED <<proxy, managerVars, tests, netVars, faults, noteVars>>

ProgramEnds ==
    /\ In("prompt") /\ tests = MaxTests
    /\ todo' = <<>>
    /\ UNCHANGED <<proxy, managerVars, tests, netVars, faults, noteVars>>

Receive(m) ==
    \/ ConnectFindsGateway(m) \/ ConnectAccepted(m) \/ ConnectRefused(m) \/ ConnectDrops(m)
    \/ DisconnectAnswered(m) \/ DisconnectDrops(m)
    \/ ReceivePuback(m) \/ ReceivePubrec(m) \/ ReceivePubcomp(m) \/ ReceiveRegack(m)
    \/ ReceiveSuback(m) \/ ReceiveUnsuback(m)
    \/ ReceivePingresp(m) \/ ReceiveDisconnect(m) \/ ReceiveOther(m)

Proceed ==
    \/ ConnectReturns \/ ConnectSearches \/ ConnectSends
    \/ DisconnectBegins
    \/ PublishCalled \/ WritePublish \/ WriteRegister \/ Reconnected
    \/ SubscribeCalled \/ Resubscribe \/ WriteSub \/ OnConnectReturns
    \/ TestEnds

Timeout ==
    \/ ConnectTimeout \/ DisconnectTimeout \/ PublishTimeout \/ RegisterTimeout \/ PingTimeout
    \/ \E i \in DOMAIN subs : SubTimeout(i)
============================================================================
