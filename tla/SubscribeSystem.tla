--------------------------- MODULE SubscribeSystem ---------------------------
(***************************************************************************)
(* One of the programs that subscribe, the gateway and the network.        *)
(***************************************************************************)
EXTENDS SubscribeClient, SubscribeGateway

CONSTANT MaxRestarts   \* bound: times the program is killed and started again

ASSUME SubscribeSystemAssumption ==
    /\ MaxRestarts \in Nat
    /\ MaxRestarts > 0 => "CONNECT" \notin Duplicated

VARIABLE restarts

vars == <<subscriberVars, netVars, gatewayVars, subscriptionVars, restarts>>

Init == SubscriberInit /\ SubscribeGatewayInit /\ restarts = 0

\* The program is killed and started again.  Its new socket has another port: what is
\* under way to the old one is lost, and what is under way from the old one comes from
\* an address ClientRecvTask no longer knows once it has seen the new CONNECT, whose
\* client id it does know.
Restart ==
    /\ known /\ restarts < MaxRestarts
    /\ restarts' = restarts + 1
    /\ loopFlag' = TRUE
    /\ eventID' = "Q_CONNECTING"
    /\ \E c \in InitialClients : client' = c
    /\ \E e \in InitialEvents : event' = e
    /\ retries' = 0
    /\ due' = {}
    /\ flags' = InitialFlags(program)
    /\ history' = [history EXCEPT !.lost = @ \cup {m.msgID : m \in PublishesTo(toClient)}]
    /\ \E will \in WillFlags : toGateway' = {Connect(will)}
    /\ toClient' = {}
    /\ UNCHANGED <<program, wildcard, gatewayVars, subscriptionVars>>

\* The CONNECT of a program that was started again is under way.  What the gateway
\* sends until it comes goes to the old port, as if it had been sent before the restart:
\* its steps are taken then, and none now.
Moved == known /\ \E m \in toGateway : m.type = "CONNECT"

Next ==
    \/ (SubscriberStep \/ TimePasses) /\ UNCHANGED <<gatewayVars, subscriptionVars, restarts>>
    \/ /\ SubscribeGatewayStep
       /\ restarts > 0 /\ Moved => ~Moved'
       /\ UNCHANGED <<subscriberVars, restarts>>
    \/ Restart

Spec == Init /\ [][Next]_vars

\* The loop of the program keeps turning, and time keeps passing.
FairSpec ==
    /\ Spec
    /\ WF_vars(SubscriberStep /\ UNCHANGED <<gatewayVars, subscriptionVars, restarts>>)
    /\ WF_vars(TimePasses /\ UNCHANGED <<gatewayVars, subscriptionVars, restarts>>)

----------------------------------------------------------------------------
(* Properties. *)

\* Every variable has its type, and every saved packet finds its place.
TypeOK == SubscriberTypeOK /\ SubscribeGatewayTypeOK

Joining == {"Q_CONNECTING", "Q_WILL_TOP_REQ", "Q_WILL_MSG_REQ"}

InSession == eventID \notin Joining \cup {"Q_DISCONNECTED"}

\* Whatever is lost or late, a program that is not killed never takes another topic id than
\* the gateway's for the name it subscribed to, nor takes that one twice (readSubAck appends
\* without a test), though SUBSCRIBE and PUBLISH of MQTTSN_PubSubV2.c share a message id;
\* unless a message of the handshake, the SUBSCRIBE or its SUBACK comes twice.
SubscriptionAgrees ==
    InSession => client.sub_topicID \in {<<>>, <<topics[WantedName]>>}

\* In a session, what the gateway has acknowledged to the broker by the client's word was
\* shown by the client: no PUBACK or PUBREC is given for a PUBLISH that was rejected, unless
\* the program was killed or a message of the handshake came twice.
AckedIsShown ==
    InSession /\ ~flags.sleep /\ ~flags.sleepReturn =>
        \A r \in Entries(brokerSendQue) \cup Entries(brokerLink) :
            r.type \in {"PUBACK", "PUBREC"} => r.id \in history.shown

\* The ids of the PUBLISHes the gateway still has for the client, or has sent it.
Held ==
    {p.id : p \in Entries(sleepQue) \cup Entries(stored)}
      \cup {w.publish.msgID : w \in Entries(parked)}
      \cup {m.msgID : m \in PublishesTo(toClient)}

\* While a client rests, a PUBLISH the broker was told to forget has reached the client
\* (or the port of one that was killed), or the gateway has it.
AckedIsKept ==
    Resting => acknowledged \subseteq history.read \cup history.lost \cup Held

\* A client is Awake for a reason that ends it: its PINGREQ is held or with the broker, it
\* is connecting again, or the Client is about to be erased with its connection.
AwakeHasReason ==
    status = "Awake" =>
        \/ holdPing
        \/ \E r \in Entries(brokerSendQue) \cup Entries(brokerLink) :
              r.type \in {"PINGREQ", "CONNECT"}
        \/ link = "closed"

\* Whatever is lost, late or refused, the program gets back to Q_CONNECTED, in which it
\* reads what was published, or ends.
Responsive == []<>(eventID \in {"Q_CONNECTED", "Q_DISCONNECTED"})

----------------------------------------------------------------------------
(* Inductive invariants: why SubscriptionAgrees and AckedIsShown hold for a program that is *)
(* not killed, when no message of the handshake comes twice (and, for the first, neither    *)
(* the SUBSCRIBE nor its SUBACK).                                                           *)

\* The SUBSCRIBE on its way to the gateway, among the packets for the broker and with the
\* broker, and its SUBACK on its way to the program.
Subscribes(queue) == {i \in 1..Len(queue) : queue[i].type = "SUBSCRIBE"}
Asked   == {m \in toGateway : m.type = "SUBSCRIBE"}
Queued  == Subscribes(brokerSendQue)
Taken   == Subscribes(brokerLink)
Granted == {m \in toClient : m.type = "SUBACK"}

\* A program that joins has one message of the handshake under way and nothing else, and
\* its Client nothing from an earlier session.
JoinsClean ==
    eventID \in Joining =>
        /\ HandshakeAlone
        /\ flags.subscribe /\ client.sub_topicID = <<>>
        /\ waitedSub = {} /\ brokerSub = 0
        /\ ~Resting /\ sleepQue = <<>> /\ stored = <<>>

\* In the session nothing is under way that would end it or begin another.
NoOtherSession ==
    InSession =>
        /\ known /\ link = "open"
        /\ \A m \in toGateway :
              /\ m.type \notin {"CONNECT", "WILLTOPIC", "WILLMSG"}
              /\ m.type = "DISCONNECT" => m.duration # 0
        /\ \A r \in Entries(brokerSendQue) \cup Entries(brokerLink) :
              r.type \notin {"CONNECT", "DISCONNECT"}

\* The one SUBSCRIBE is in one place, until it is lost or its topic id is in sub_topicID.
OneSubscribe ==
    InSession =>
        /\ \A m, n \in Asked : m = n
        /\ \A i, j \in Queued : i = j
        /\ \A i, j \in Taken : i = j
        /\ \A m, n \in Granted : m = n
        /\ Asked # {} => Queued = {} /\ Taken = {} /\ Granted = {}
        /\ Queued # {} => Taken = {} /\ Granted = {}
        /\ Taken # {} => Granted = {}
        /\ flags.subscribe => client.sub_topicID = <<>> /\ waitedSub = {}
        /\ flags.subscribe \/ client.sub_topicID # <<>> =>
              Asked = {} /\ Queued = {} /\ Taken = {} /\ Granted = {}

\* It carries the name, and from the gateway on the name has the topic id that is granted.
WantedAgrees ==
    InSession =>
        /\ \A m \in Asked : m.name = WantedName
        /\ \A r \in Entries(brokerSendQue) \cup Entries(brokerLink) :
              r.type = "SUBSCRIBE" => r.name = WantedName /\ topics[WantedName] # 0
        /\ \A w \in waitedSub \cup Granted :
              w.topicID = topics[WantedName] /\ topics[WantedName] # 0
        /\ client.sub_topicID # <<>> => topics[WantedName] # 0
        /\ brokerSub \in {0, WantedName}
        /\ brokerSub # 0 => topics[WantedName] # 0

SubscribedOnce == JoinsClean /\ NoOtherSession /\ OneSubscribe /\ WantedAgrees /\ SubscriptionAgrees

\* The program has announced or begun to sleep at least once.
MaySleep == flags.sleep \/ flags.sleepReturn

\* A program acknowledges what it has just shown.
ShownFirst ==
    /\ eventID = "Q_RCV_QOS1" => event.msgID \in history.shown
    /\ \A m \in toGateway :
          m.type = "PUBREC" \/ (m.type = "PUBACK" /\ m.rc = "accepted") => m.msgID \in history.shown

\* For a program that has not announced a sleep the gateway neither saves a PUBLISH nor
\* answers one itself.
NothingSaved ==
    /\ program # "SleepV2" => ~MaySleep
    /\ ~MaySleep => eventID \notin {"Q_DISCONNECTING", "Q_SLEEP"}
    /\ ~MaySleep /\ eventID # "Q_DISCONNECTED" =>
          /\ ~Resting /\ sleepQue = <<>> /\ stored = <<>>
          /\ \A m \in toGateway : m.type # "DISCONNECT"

ShownInvariant == ShownFirst /\ NothingSaved /\ AckedIsShown

----------------------------------------------------------------------------
(* Inductive invariant: why AckedIsKept holds for a program that is not killed, as long as  *)
(* nothing is lost and neither the way to the client nor sleepQue is full.                  *)

\* Room for one more datagram to the client, and for one more PUBLISH to save.
RoomLeft == Cardinality(toClient) < Capacity /\ Len(sleepQue) < MaxSaved

\* A session has begun and the broker has not accepted it, or the client not heard of it.
Opening ==
    \/ eventID \in Joining
    \/ \E m \in toGateway : m.type \in {"CONNECT", "WILLTOPIC", "WILLMSG"}
    \/ \E r \in Entries(brokerSendQue) \cup Entries(brokerLink) : r.type = "CONNECT"

\* The gateway delivers to the client, or saves for it.
Served == status = "Active" \/ Resting

\* What ends, or goes on ending, the delivery of a PUBLISH at the broker.
AnswerTypes == {"PUBACK", "PUBREC", "PUBCOMP"}

Answering == {r \in Entries(brokerSendQue) \cup Entries(brokerLink) : r.type \in AnswerTypes}

Releasing == {m \in toClient : m.type = "PUBREL"} \cup {m \in toGateway : m.type = "PUBCOMP"}

Asking == {r \in Entries(brokerSendQue) \cup Entries(brokerLink) : r.type = "SUBSCRIBE"}

Finished == acknowledged \cup {r.id : r \in Answering} \cup {m.msgID : m \in Releasing}

\* Before the broker accepts the session nothing has been published in it.
Unused ==
    /\ published = 0 /\ brokerSub = 0
    /\ Answering = {} /\ Releasing = {} /\ Asking = {}
    /\ \A m \in toGateway : m.type \notin AnswerTypes \cup {"SUBSCRIBE"}

NothingPublished == Opening => Unused

\* So that no PUBLISH is cancelled: the gateway knows the name of each.
Deliverable(name) == topics[name] # 0 \/ MatchesFilter(name)

NamesKnown ==
    Served =>
        /\ \A r \in Asking : topics[r.name] # 0
        /\ brokerSub # 0 => topics[brokerSub] # 0
        /\ \A p \in Entries(sleepQue) \cup Entries(stored) : Deliverable(p.name)

\* What is, or will be, acknowledged has reached the client or the gateway has it.
FinishedIsKept == Served => Finished \subseteq history.read \cup history.lost \cup Held

KeptInvariant ==
    IsFiniteSet(toClient) /\ NothingPublished /\ NamesKnown /\ FinishedIsKept

----------------------------------------------------------------------------
(* What comments in the code say and the program does not do. *)

\* "client is sleeping. save PUBLISH" (MQTTGWPublishHandler::handlePublish): a program that
\* sleeps has not left for the gateway, which drops the PUBLISHes of a client that has.
SleepIsKnown == eventID = "Q_SLEEP" => status # "Disconnected"
============================================================================
