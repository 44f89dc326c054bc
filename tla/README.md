# A TLA+ model of the MQTT-SN client library and its gateway

This directory models the MQTT-SN client library of this repository
(`src/src`, `src/mqtt-sn-lib`), the programs built on it (`src/tests`), the
gateway they talk to (`src/paho.mqtt-sn.embedded-c/MQTTSNGateway`) and the
client library that comes with the gateway to test it (`GatewayTester`). The
modules are checked with TLC on small instances and, for the properties listed
under *What is proved*, with TLAPS for every value of the constants.

Short names used below: *PublishV2*, *SubscribeV2*, *PubSubV2* and *SleepV2* are
`src/tests/MQTTSN_<name>.c`, *Util.c* is `src/src/Util.c`, and files of the
gateway and of its tester are named without their directory.

## 1. Inventory

### The client side

| Part | State | Operations | Interacts with |
|---|---|---|---|
| Transport (`mqtt-sn-lib/transport.c`) | one UDP socket | `transport_open`, `transport_sendPacketBuffer`, `transport_getdata`, `transport_close` | every sender; `readMsg` through a callback |
| Senders (`Connect.c`, `Register.c`, `Publish.c`, `PubAck.c`, `PubRecRelComp.c`, `PingReq.c`, `PingResp.c`, `RegAck.c`, `Subscribe.c`, `WillTopic.c`, `WillMsg.c`, `Disconnect.c`) | none; they read `Client_t` | serialise one message into a buffer of their own, send it, return a code | the transport, the codecs |
| Readers (Util.c) | write `Client_t` (topic id arrays, wildcard) and `Client_Event_t` (`msgID`, `topicID`) | `msgReceived` (select, 400 ms), `readMsg` and one reader per message type | called once per turn of a program's loop |
| Programs | `eventID`, flags, timers, `retries` in `client_machine` | one `switch` on `eventID` per turn, about 20 states | senders, readers, wall clock |
| Codecs (`mqtt-sn-lib`) | none | serialise, deserialise, length field | senders and readers |

The four programs are copies of one text with different parts commented out; they
differ in `Q_CONNECTED`, `Q_REGISTERING`, `Q_SUBSCRIBING`, `Q_SLEEP` and a few details
(PubSubV2 does not leave `Q_RCV_QOS2` after its PUBCOMP, SubscribeV2 does).

### The gateway

| Part | State | Operations |
|---|---|---|
| `ClientRecvTask` | none | finds or creates the `Client` of a datagram, discards what comes from an unknown address unless it is a CONNECT |
| `PacketHandleTask` | none of its own | one handler per message (`MQTTSN...Handler` for the client's, `MQTTGW...Handler` for the broker's), then `Client::updateStatus`; on a timeout it looks after the adapters |
| `BrokerSendTask` | the TCP connection of each client | opens it for a packet when there is none, replaces it for CONNECT, writes, then `connectSended` |
| `BrokerRecvTask` | - | reads each connection, posts what it reads, erases the `Client` when the connection ends |
| `ClientSendTask` | - | sends datagrams |
| `EventQue`, `Semaphore`, `Process`, `MultiTaskProcess` | three queues, their mutex and semaphore, the last signal, the count of stopped tasks | `post`, `wait`, `timedwait`; start, SIGINT and other signals, stop |
| `Client`, `Topics`, `TopicIdMap` | status, will flag, topic ids, the id counter, message id to topic id maps, the queue of a sleeper, PUBLISHes that wait for a REGACK | called from all tasks |
| `Aggregater`, `MessageIdTable`, `Proxy` | one connection for many clients, the table of packet ids, the proxy's timer and retries | `convertClient`, `addMessageIdTable`, `checkConnection` |
| `MQTTSNPacket`, `MQTTGWPacket` | one packet | read, write, translate between MQTT-SN and MQTT |
| QoS -1 proxy, forwarders, TLS, XBee | - | see *Not modelled* |

The tasks are threads that pass events through FIFO queues; `Client` objects are
shared between them without a lock that spans two steps.

### The gateway tester

| Part | State | Operations |
|---|---|---|
| `LGwProxy` | status, keep-alive, sleep and ping timers, retries | `connect`, `disconnect`, `getMessage`, `reconnect`, `checkPingReq` |
| `LPublishManager`, `LRegisterManager`, `LSubscribeManager` | lists of elements with a retry count | publish, register, subscribe, their answers and `checkTimeout` |
| `LTaskManager` | the list of tests | runs one test after the other |

One thread; the loops that wait for messages call each other.

### What is hard, and what makes it correct

* *Unreliable delivery.* UDP may lose, delay and repeat. The programs retransmit
  nothing but PINGREQ. Every waiting state must still be left (`Responsive`), and a late
  answer must not be taken for another one (`RegisteredTopics`, `TopicsAgree`,
  `FirstTopicKnown`, `SubscriptionAgrees`; `PublishOnlyRegistered` is what a comment says
  and the code does not do). The tester does retransmit: what it reports as published
  must have been passed on (`DoneIsHandled`), and its tests must end (`TestsEnd`).
* *Two ends with their own idea of the session.* The program thinks it is connected; the
  gateway has, or no longer has, a `Client` with an open broker connection and topics
  (`SessionHasLink`, `TopicsAgree`, `SubscriptionsKept`).
* *Sleep.* A program announces that it sleeps, and the gateway acknowledges to the broker
  what it has not delivered (`AckedIsKept`, `AckedIsShown`); both must get out of it
  (`AwakeHasReason`, `SleeperWakes`; `SleepIsKnown` fails).
* *Tables kept by hand.* `sub_topicID` and `pub_topicID` have ten entries and are
  appended to without a test; the map for PUBACKs is filled at QoS 1 and 2 and emptied by
  PUBACK only; `MessageIdTable` is filled by a request and emptied by its answer
  (`RegisteredTopics`, `WaitedIsTopic`, `PubackIsWaitedFor`, `TableOK`, `Exchanges`).
* *Threads of the gateway.* A queue's size is read without its mutex and a semaphore is
  posted only when its value is 0 (`NoEventSleeps`, `Delivers`); the end of the gateway
  is an event like others, and begins with a signal that the next one overwrites
  (`GatewayStops`).
* *Boundaries.* The length field changes from one byte to three, MQTT's remaining length
  from one to two, message ids are looked for at fixed places, a buffer has the size another
  function has computed, or a fixed one that is not looked at (`ArrivesWhole`,
  `LongIsRejected`, `SentIsRead`, `MeaningKept`, `UnreadIsKnown`, `BuffersSuffice`).
* *Lists written by hand.* Each class links its elements in its own way (`ListsAgree`,
  `TreeHolds`).

`PROJECT.json` lists every component with its status and every hazard at its
line, the ones no property covers with the reason.

## 2. Modules

| Module | Models |
|---|---|
| `Network` | the two UDP directions, as sets of datagrams under way |
| `Messages` | the messages, reduced to the fields either end looks at |
| `ClientReaders` | `readMsg` and the readers, as operators from (datagram, client, event) to (code, client, event) |
| `ClientMachine` | the state shared by all programs and the states of `client_machine` whose text they share: connecting, wills, `Q_PUBLISH`, `Q_PUB_QOS2`, `Q_CLIENT_PING`, `Q_DISCONNECTED` |
| `PublishClient` | PublishV2: `Q_CONNECTED` and `Q_REGISTERING`, the program's flags, one turn of the loop |
| `Gateway` | handlers, tasks and tables of the gateway for one client with a clean session that registers and publishes; the broker as an external party |
| `PublishSystem` | PublishV2, network and gateway: the composition, its specification and its properties |
| `SubscribeClient` | SubscribeV2, PubSubV2 and SleepV2 |
| `SubscribeGateway` | `Gateway` with subscriptions, PUBLISHes of the broker, REGISTERs of the gateway and the states Asleep and Awake |
| `SubscribeSystem` | their composition, and a program that is killed and started again |
| `PacketLength` | the length field of PUBLISH from `publish` over `recvfrom` to `readMsg` |
| `Octets` | the length field, ids, flags and texts of MQTT-SN, octet by octet |
| `ClientCodec`, `GatewayCodec` | every serialise and deserialise function of the client library and of the gateway, `MQTTSNPacket` and the encapsulation of forwarders |
| `BrokerCodec` | `MQTTGWPacket`, and what the handlers make of an MQTT-SN message for the broker and back |
| `Senders` | the senders: the size of the buffer each computes for itself, and what it writes into it |
| `Codecs` | a message on its way through all of these |
| `TesterClient` | the tester's client library, with the stack of its nested calls |
| `TesterSystem` | the tester with a gateway of one step per request |
| `Aggregator` | aggregated clients, `MessageIdTable`, the proxy, one connection to the broker |
| `Exchange` | abstract: what a shared connection promises its clients |
| `Tasks` | the gateway's threads, `EventQue::post`, `wait` and `timedwait` step by step, the signals SIGINT, SIGTERM and SIGHUP |
| `Mailbox` | abstract: what a queue promises its reader |
| `Lists` | the linked lists of the gateway and of the tester: the text of eleven classes that links and unlinks an element |
| `Tree23` | the gateway's 2-3 tree, `add` and `remove` with their rebalancing |
| `Containers` | one list or one tree and every order of its operations |
| `MCTester`, `MCAggregator` | the instances of the two that need sets of records as constants; the constants of the others are plain values which the `.cfg` files give |
| `PublishProofs` | theorems about `PublishSystem` |
| `SubscribeProofs` | theorems about `SubscribeSystem` |
| `CodecProofs` | theorems about `Codecs` |
| `ListsProofs` | theorems about `Lists` |
| `TesterProofs`, `TasksProofs`, `AggregatorProofs` | theorems about `TesterSystem`, `Tasks` and `Aggregator`; those about `PacketLength` are in that module |

Each definition's lines in the source are in `PROJECT.json` under `map`. `Network`,
`Messages`, `ClientReaders`, `ClientMachine` and `Gateway` are used by both systems of
programs: `SubscribeGateway` has its own form of the handlers in which a subscriber or a
sleeper makes a difference, and takes the others from `Gateway`.

### How the model corresponds to the code

* *One action per branch.* `client_machine` is a single thread, and what it
  shares with the world are sockets. One turn of `while(loopFlag)` is one
  atomic action; every `break` of the source ends one. `Q_CONNECTED` tests in
  order whether to register, publish, subscribe, ping, and then reads: the actions
  for the later tests carry the negations of the earlier ones.
* *Polling.* `msgReceived` waits 400 ms. A datagram that is still under way is
  not there yet, so "no message" is possible in every state at any time, and the
  set of datagrams under way lets `recvfrom` return any of them.
* *Timers.* `now - timer > limit` becomes true by the action `TimePasses`, which
  adds a timer to `due`; assigning `timer = now` removes it.
* *Arrays.* `pub_topicID` and `sub_topicID` are the sequences of the entries written;
  their counters are the lengths. `PubTopic(i)` reads an entry, and returns
  `client.unset`, an arbitrary value of `Uninit`, for one that was never written:
  `Client_t` lives on the stack of `main`, which does not initialise the arrays.
* *Return codes.* A code keeps its name when some state compares with it; all
  that are only printed are `"Q_ERR"`.
* *Gateway handlers* are one action each, including the `updateStatus` that
  `PacketHandleTask` calls after every handler. The queue between
  `ClientRecvTask` and `PacketHandleTask` and the one of `ClientSendTask` only
  delay, as the network does, and are part of it. The queue of `BrokerSendTask`
  is kept, because the order of packets to the broker and the moment of
  `connectSended` matter. That the queues are queues, for all their semaphores, is
  `Tasks`.
* *The broker* answers one connection's requests in order, ignores QoS 0, closes
  the connection after DISCONNECT and may refuse a CONNECT if `BrokerRefuses`. In
  `SubscribeGateway` it publishes once a subscription is taken, and a REGACK or an
  acknowledgement of the client goes back to it; each PUBLISH has an id of its own.
* *A restart* (`SubscribeSystem!Restart`) gives the program a new port; the gateway
  knows the client id, so that the CONNECT finds the `Client` and its saved PUBLISHes.
* *Nested calls.* In `TesterClient` `todo` is the stack of calls that are waiting, the
  innermost first, since `connect` may call `onConnect`, that subscribes and reads
  messages, which may time out and connect. An action does what the innermost does next.
  Its gateway is one atomic step per request: the interleavings inside the gateway
  are the subject of `Gateway` and `SubscribeGateway`.
* *Codecs.* A message is a record; a serialiser gives a sequence of octets or the empty
  sequence for its error, a deserialiser a record or `Rejected`. Broker data structures
  (MQTT 3.1.1 itself) are external. A sender of the client, and `MQTTGWPacket::send`, give
  the size of their buffer as well, as the code computes it or declares it. When more octets
  are written than that (`Overruns`), what comes of it is undefined in C: the message ends at
  the place `"overrun"`, and no later property speaks of it. What a program has no sender for
  (a short topic, an UNSUBSCRIBE, the messages of a QoS -1 client) is written by the library
  into a buffer of its caller that is large enough (`Given`). The CONNECT and the will topic
  that go with a WILLMSG are fixed (`Connected`, `WillOf`).
* *Threads.* In `Tasks` a step is what one thread does between two things another
  can see: `sem_getvalue` and `sem_post` are two steps, and so are the look at the
  size and the semaphore. What events are about is left out: a task that handles an
  event, or a timeout, may make any number of events for the queues its handlers post to
  (`Work`, `TimeoutWork`), as `sendStoredPublish` does in a loop. `theSignaled` is the last
  signal: `signalHandler` is installed for SIGINT, SIGTERM and SIGHUP
  (MQTTSNGWProcess.cpp:84-86) and overwrites it, and whoever looks at it asks for SIGINT
  alone; what is not SIGINT is `"other"`.

## 3. Runs

| Run | Question | Result |
|---|---|---|
| `session` | loss, reordering, failing `sendto`, a broker that refuses, with and without a will: do the program's session and topic ids agree with the gateway's? | `TypeOK`, `RegisteredTopics`, `SessionHasLink`, `TopicsAgree`, `FirstTopicKnown`, `WaitedIsTopic`, `PubackIsWaitedFor` hold (1.2 million states) |
| `responsive` | does the program always get back to `Q_CONNECTED`, or end, when the network and the gateway may stop at any time, and REGISTER and REGACK datagrams come again and again? | `Responsive` holds under `FairSpec`; the inductive invariants `LinkInvariant` and `SlotInvariant` hold, which imply `SessionHasLink` and `RegisteredTopics` |
| `packet` | payloads of 0 to 1700 bytes against the buffer of 1600 | `ArrivesWhole`, `LongIsRejected` hold |
| `subscribe` | SubscribeV2 and PubSubV2 with loss, reordering, failing `sendto` and refusals, for a name and a filter | `SubscriptionAgrees`: no wrong topic id and none twice. `AckedIsShown`: the broker is acknowledged only what the program showed |
| `sleep` | SleepV2, everything may be late, the program may be killed once | `AckedIsKept`: what was acknowledged for a sleeper has reached it, or its old port, or is still held. `AwakeHasReason`: no client stays Awake unless a PINGREQ or CONNECT that ends it is held, queued or with the broker, or its connection is closed. `Responsive` under `FairSpec` |
| `codec` | every message with every flag, for lengths around every boundary, from writer to reader, with and without a forwarder, translated to MQTT and back: is it read as it was written, does it keep its meaning, and into which buffer does it not fit? | the seven properties of `Codecs` hold (39 thousand states); `BuffersSuffice` says for which texts a buffer is overrun, see *Findings* |
| `tester` | three tests of any kind (publish, subscribe, unsubscribe, sleep, disconnect) with one fault: a lost message, an early timeout, a refusal, a closed connection | `DoneIsHandled`, `SubscriptionsKept`; under `FairSpec` `TestsEnd` (a test that has begun ends and the program asks for the next one, whatever retries and reconnections it takes) and `SleeperWakes` (632 thousand states) |
| `aggregate` | two aggregated clients that use the same message ids, with one fault: a lost or late datagram, a client that gives up or is restarted, a connection that is closed | `TableOK`; `Exchanges`: `Aggregator` implements `Exchange`; under `FairSpec` `ProxyRecovers` |
| `tasks` | five tasks, three queues, two events, any signals at any time | `NoEventSleeps`; `Delivers`: each queue implements `Mailbox` with its liveness; `GatewayStops`: after SIGINT the gateway ends, unless its EtStop was deleted or a later SIGTERM or SIGHUP came before the main thread and both receivers had looked (340 thousand states) |
| `containers` | every order of operations on each class of list and on the tree | `ListsAgree`: a search meets what was put in and not taken out, and the end, the counter and the pointers back agree with it; `TreeHolds`: the tree is a map and stays balanced (184 thousand states) |
| `registered`, `sleeper` | does the code do what a comment says? | no: see *Findings* |

### Bounds

* `Capacity = 2` datagrams under way per direction, more are lost. Two are what
  an old answer overtaking, or overtaken by, the current one takes; the programs
  send one request at a time. In `sleep` and `sleeper` nothing is lost, so that
  `Capacity = 10` is more than the messages there are.
* `MaxMsgID = 4` for PublishV2: ids 1 and 2 are the REGISTERs, 3 and 4 let a publish of
  each QoS follow another that was given up under the same id, and one complete.
  `MaxMsgID = 2` for the subscribers, which send one SUBSCRIBE, or a REGISTER, a
  SUBSCRIBE and a PUBLISH. Beyond it the program still pings and reads.
* `MaxTopicID = 3`: one id more than topics, so that an id can be given out anew
  after a clean session.
* `MaxQueue = 1` packet in the queue to the broker and one unanswered at the
  broker: two outstanding requests, the ones of two successive publishes.
* `MaxPublishes = 1` PUBLISH of the broker, at either QoS: it may be saved, stored,
  parked for a REGACK, under way and acknowledged while the program does anything.
  `MaxSaved = 2` is not reached by it; the limit of 20 in the code is a hazard no
  property covers.
* `MaxRetry = 1` (the code has 3): every comparison with it is decided both ways;
  0 for the subscribers, whose ping is PublishV2's.
* `Uninit = {9}`: a topic id the gateway never gives out, so a read of an unwritten
  entry is visible.
* `IdModulus = 65536`, `MaxInflight = 10` and `Q_BUF_LEN = 1600` are the code's own.
  `MaxMsgID` keeps ids from wrapping.
* `Timers`, `Loss`, `Duplicated`, `SendErrors`, `WillFlags`, `BrokerRefuses` choose
  the faults of a run. The types in `Duplicated` may be repeated without limit.
* `MaxRestarts = 1`: SleepV2 may be killed in any state, also just after it fell asleep.
* `codec`: `TextLengths` has the lengths around every boundary (128 and 256 octets of a
  packet, less what else each message has; a client id of 1009 octets, a will of 1000 and a
  payload of 1013 with a name of four, the last that fit into the buffer of `send`; and the
  most a datagram takes), `ShortLengths` those that are combined with
  every flag; `Ids` has both octets zero, different and all ones.
* `tester`: `MaxTests = 3` lets a test follow one that left something behind, and be
  followed by one that meets it. `RetryCount = 1` (3 in the code), `SleepPings = 2`: a
  sleep in which the program wakes once to ping and once to get up. `MaxFaults = 1`: one
  lost message, early timeout or failure anywhere.
* `aggregate`: `MaxMsgId = 1`, so that the two clients collide on every id;
  `MaxPacketId = 3`, one more than their requests; `MaxTableSize = 1`, a table that is
  full with two; `MaxQueue = 2`, `MaxFaults = 1`.
* `tasks`: `MaxSize = 2`, `MaxEvents = 2`: an EtStop and an event in one queue, and a
  packetEventQue that is full when its EtStop comes. Every thread can be between any two
  steps. `NoEventSleeps` and the order of each queue are proved for all values.

* `containers`: `Nodes` and `Keys` have four elements and `MaxElements = 2`, so that a list
  has a first, a middle and a last element and one that is refused; the limits of the code
  are 10 to 500. `TreeKeys` has eight keys: a tree of three levels, whose root splits and
  melts again.

`CHECK_DEADLOCK FALSE` everywhere: a program that has ended with the network drained
has nothing left to do, a message that was read ends `Codecs` and `PacketLength`, and
the gateway stops.

### Fairness

* `PublishSystem!FairSpec` and `SubscribeSystem!FairSpec` assume weak fairness of the
  program's turn and of `TimePasses`: the loop runs without blocking (`select` has a
  timeout) and `time(NULL)` moves on. Nothing is assumed of the network or of the gateway,
  so `Responsive` holds for a gateway that has died.
* `TesterSystem!FairSpec`: the library's thread runs, its timers come up when it waits and
  nothing is on the way, a message on the way arrives (losing it is an action of its own)
  and the gateway answers. `TestsEnd` needs a gateway that answers, since the tester
  reconnects for ever to one that does not: it speaks of the whole stack of calls (`Testing`),
  so that a test that retries or reconnects for ever has not ended.
* `Aggregator!FairSpec`: the five tasks run, and the time between two calls of
  `checkConnection` passes. Clients need not send anything.
* `Tasks!FairSpec`: each thread that can go on is scheduled. Threads that receive need not
  receive; a `sem_wait` or a mutex that stays free is got (weak fairness, as only one thread
  waits for a semaphore and the holder of a mutex never waits for another).

## 4. What is proved

| Theorem | Statement |
|---|---|
| `PublishProofs!TypeCorrect` | `Spec => []TypeOK` |
| `PublishProofs!WaitedAlwaysTopic` | `Spec => []WaitedIsTopic` |
| `PublishProofs!LinkAlways` | if not `BrokerRefuses`: `Spec => []LinkInvariant` |
| `PublishProofs!SessionAlwaysLinked` | if not `BrokerRefuses`: `Spec => []SessionHasLink` |
| `PublishProofs!SlotAlways` | if not `BrokerRefuses`: `Spec => []SlotInvariant` |
| `PublishProofs!AlwaysRegisteredTopics` | if not `BrokerRefuses`: `Spec => []RegisteredTopics` |
| `PublishProofs!OnceAlways` | if *H*: `Spec => []OnceInvariant` |
| `PublishProofs!SessionLinkedOnce` | if *H*: `Spec => []SessionHasLink` |
| `PublishProofs!AlwaysTopicsAgree` | if *H*: `Spec => []TopicsAgree` |
| `PublishProofs!FirstTopicAlwaysKnown` | if *H*: `Spec => []FirstTopicKnown` |
| `PublishProofs!PubackAlwaysWaitedFor` | if *H*, PUBLISH is not repeated and `MaxMsgID <= 2 * MaxInflight`: `Spec => []PubackIsWaitedFor` |
| `SubscribeProofs!TypeCorrect` | `Spec => []TypeOK` |
| `SubscribeProofs!AwakeAlwaysHasReason` | `Spec => []AwakeHasReason` |
| `SubscribeProofs!SessionIsOnly` | if *H* and `MaxRestarts = 0`: `Spec => []OnlySession` |
| `SubscribeProofs!AckedAlwaysShown` | if *H* and `MaxRestarts = 0`: `Spec => []AckedIsShown` |
| `SubscribeProofs!AckedAlwaysKept` | if *H*, `MaxRestarts = 0` and `Loss = FALSE`: `Spec /\ []RoomLeft => []AckedIsKept` |
| `SubscribeProofs!SubscriptionAlwaysAgrees` | if *H*, `MaxRestarts = 0` and neither SUBSCRIBE nor SUBACK is repeated: `Spec => []SubscriptionAgrees` |
| `CodecProofs!WayAlways` | `Spec => []WayInv` |
| `CodecProofs!AlwaysRead` | `Spec => []SentIsRead` |
| `CodecProofs!NodeAlwaysKnown` | `Spec => []NodeIsKnown` |
| `CodecProofs!UnreadAlwaysKnown` | `Spec => []UnreadIsKnown` |
| `CodecProofs!BrokerWayAlways` | `Spec => []BrokerWayInv` |
| `CodecProofs!IdAlwaysReplaced` | `Spec => []IdIsReplaced` |
| `CodecProofs!BuffersAlwaysSuffice` | `Spec => []BuffersSuffice` |
| `CodecProofs!AlwaysTold` | `Spec => []ClientIsTold` |
| `CodecProofs!MeaningAlwaysKept` | `Spec => []MeaningKept` |
| `CodecProofs!OctetsAlways` | `Spec => []TypeOK` |
| `PacketLength!PublishArrivesWhole` | `Spec => []ArrivesWhole` |
| `PacketLength!LongPublishIsRejected` | `Spec => []LongIsRejected` |
| `TesterProofs!TypeCorrect` | `Spec => []TypeOK` |
| `TesterProofs!DoneAlwaysHandled` | `Spec => []DoneIsHandled` |
| `TesterProofs!SubscriptionsAlwaysKept` | `Spec => []SubscriptionsKept` |
| `TasksProofs!TypeCorrect` | `Spec => []TypeOK` |
| `TasksProofs!NoWakeupLost` | `Spec => []NoEventSleeps` |
| `TasksProofs!PacketQueIsMailbox`, `BrokerQueIsMailbox`, `ClientQueIsMailbox` | `Spec => PacketBox!Spec` and so on: the safety part of `Delivers` |
| `AggregatorProofs!TypeCorrect` | `Spec => []TypeOK` |
| `AggregatorProofs!TableCorrect` | `Spec => []TableOK` |
| `AggregatorProofs!ImplementsExchange` | `Spec => Exchanges` |
| `ListsProofs!ListsAlwaysAgree` | `ListSpec => []ListsAgree` |

*H* is `Duplicated \cap Handshake = {}`: no CONNECT, CONNACK or message of the will comes
twice. Every other message may, without limit, and all may be lost or late.

They hold for every value of the constants that satisfies the named assumptions of
the modules (`NetworkAssumption`, `MessagesAssumption`, `MachineAssumption`,
`PublishAssumption`, `GatewayAssumption`, `PublishSystemAssumption`, `SubscribeAssumption`,
`SubscribeGatewayAssumption`, `SubscribeSystemAssumption`,
`IdsAssumption`, `LengthsAssumption`, `PacketLengthAssumption`, `TesterAssumption`, `GatewayIdsAssumption`, `TasksAssumption`,
`AggregatorAssumption`, `ListsAssumption`); so for any
capacity, any retry limit, any set of repeated datagram types, with or without loss and
send errors, any number of aggregated clients, any size of the queues, any number of
elements of a list and of keys, any message id and any length of a text that fits into a
datagram. Three assumptions are more than typing:
`MaxMsgID <= IdModulus - 2` says the message id does not wrap, `MaxTopicID < IdModulus - 1`
that the gateway does not reach 0xffff, which it treats apart, and `LengthsAssumption` that
a text has at most 1015 octets, what is left of the gateway's buffers of 1024
(MQTTSNGWDefines.h:46) beside the length, the type, the flags, a topic id and a message
id. `Aggregator` likewise uses packet ids up to `MaxPacketId` once.

The arguments:

* `PublishProofs!TypeCorrect`: `TypeOK` is inductive. The proof has one lemma per
  group of actions with the same effect (a turn that reads nothing, one that reads, the
  senders, the handlers of the gateway, its queues).
* `WaitedAlwaysTopic`: inductive with `TypeOK`. An entry is added after the topic
  was found, and whatever removes topics empties the map in the same handler.
* `SessionAlwaysLinked`: `SessionHasLink` is not inductive, as a CONNACK that is
  already under way, or a DISCONNECT in a queue, could break it. `LinkInvariant`
  adds that until the program itself disconnects, no DISCONNECT is under way or
  queued, nothing is closed, and that before there is a connection neither a CONNACK
  nor anything but joining messages exists. It needs a broker that refuses nobody,
  because `ConnackRefused` closes the connection under a repeated CONNECT; without
  repeats (the run `session`) the property also holds with refusals.
* `AlwaysRegisteredTopics`: `SlotInvariant` follows the message ids. REGISTER 1 is
  outstanding exactly while the first topic is, REGISTER 2 while the second is, and
  every copy of a REGISTER or REGACK carries the message id of its topic
  (`NumbersAgree`); an entry is written only while its own message id is
  outstanding (`EntriesInTurn`), so each REGACK counts once however often it comes.
  Two topics never get one id because the counter is only reset when the `Client` is
  erased, and `LinkInvariant` shows that cannot happen before the DISCONNECT.
* `OnceAlways`: the properties of a session with a broker that may refuse. A repeated
  CONNECT would begin a clean session under a running one, and a repeated CONNACK would end
  a registration; so *H* is what is needed, and without it TLC finds `TopicsAgree` and
  `FirstTopicKnown` violated. `OneHandshake` says that while the program
  joins there is one message of the handshake anywhere (in the air, in the queue to the
  broker, with the broker) and nothing else. `FirstConnect` says that the gateway's Client
  has seen no session before, and `NoOtherSession` that afterwards no CONNECT or DISCONNECT
  is under way. `TopicsAgree` then follows from the message ids of `SlotInvariant`: a REGACK
  carries the id that `Topics` has for the name of its REGISTER.
* `PubackAlwaysWaitedFor`: a PUBLISH at QoS 1 has an element in the map from the moment the
  gateway takes it until the broker's PUBACK. That needs each message id to be on its way
  at one place only (`OnePublish`) and room in the map: the elements of QoS 2 are never
  taken out (MQTTSNGWPublishHandler.cpp:116 puts them in, only a PUBACK takes them out), so
  that a long session fills it, `TopicIdMap::add` then refuses, and PUBACKs are dropped.
  `MaxMsgID <= 2 * MaxInflight` bounds the session below that; the bound is where the
  property ends in the code, too.
* `SubscribeProofs!TypeCorrect`: inductive. Beyond the types it carries the facts a type
  rests on: every PUBLISH that is saved, stored or parked is accounted for, within the
  bounds of the queues.
* `AwakeAlwaysHasReason`: inductive with `TypeOK`; no step takes the last reason away. Only a
  PINGREQ makes the client Awake, and it holds it or passes it on to the broker, whose
  PINGRESP puts the client to sleep again. When the broker closes the connection behind a
  DISCONNECT, packets queued after it are lost; the connection is then closed and the Client
  about to be erased, which is the third reason.
* `SessionIsOnly` and the two after it: `JoinsClean` and `NoOtherSession` say of the subscribers what
  `OneHandshake` and `NoOtherSession` say of PublishV2. `WantedAgrees` follows the name
  of the subscription: the SUBSCRIBE carries it, from the gateway on it has a topic id
  in `Topics`, which no step takes away, and that is the one granted. `OneSubscribe` says
  the SUBSCRIBE is in one of four places (to the gateway, queued for the broker, with the
  broker, its SUBACK to the program) until it is lost or its topic id is in `sub_topicID`:
  so it is appended once. For `AckedIsShown`, `ShownFirst` says that a program that is about
  to acknowledge at QoS 1, and every accepted PUBACK and every PUBREC under way, has its
  PUBLISH in `history.shown`; `NothingSaved` that the gateway, which acknowledges
  itself what it saves for a sleeper, saves nothing for a program that has not announced a
  sleep. A restart is excluded because the new program has shown nothing of what the old
  one acknowledged.
* `AckedAlwaysKept`: the inductive invariant `KeptInvariant` has three parts, proved with
  `ShownInvariant`. `FinishedIsKept` says of what is acknowledged and of what is on its
  way to be (PUBACK, PUBREC and PUBCOMP queued for the broker or with it, PUBREL and
  PUBCOMP of the client under way) what `AckedIsKept` says of the first: it reached the
  program, or is under way to it, saved, stored or parked. A PUBLISH is acknowledged and
  thrown away only when the gateway has no topic id for its name
  (MQTTGWPublishHandler.cpp:109); `NamesKnown` says that a subscription that is asked for
  or granted has one. `NothingPublished` is for the start of a session, which deletes what
  the old one left: until the broker has accepted it, nothing was published in it. The
  hypothesis `[]RoomLeft` is where the property ends in the code, too: `sleepQue` keeps
  `MAX_SAVED_PUBLISH` PUBLISHes and `handlePublish` acknowledges the one it could not
  keep, and a full socket buffer loses the datagram. `SendErrors` may be TRUE: the
  `sendto` that fails is the program's. The theorem is about one session of a program that
  is not killed; with a restart the property is model-checked.
* `CodecProofs`: for every message and every text that what one library writes is what the
  other reads. The lemmas go from the parts to the whole: `IntOctets` (two octets and the
  number in them), `InFirst`, `Second`, `ReadSecond` (two sequences one behind the other),
  `Around`, `BeforeInt`, `BehindInt` (a number between two of them), `LengthField` and
  `PacketParts` (the length field, the type and the body of a packet), then one lemma for
  each message: `ConnectArrives` to `PublishLongArrives` for the client's, `AdvertiseTold` to
  `RegisterTold` for the gateway's. `SameForClient` and `SameForGateway` say that the two
  libraries, which are compiled from different files, share the primitives; everything that
  is theirs alone is unfolded message by message. A body of 254 octets, whose length field
  grows by what it counts, is where the lemmas and `SentIsRead` end (`Cut`). `WayInv` is the
  inductive invariant: at every place of its way a message is the octets its writer made,
  inside the header of the forwarder or out of it (`HeaderComesOff`). `Sending` says that a
  sender writes more than its buffer takes for a body of 254 octets and no other, and `Sized`
  says it of each message, by its text (`OfTheWrongLength`).
* `UnreadAlwaysKnown`: `Holding` says that a packet has a number between a front and a rest.
  Overwriting the number keeps both (`Overwritten`, `WithId`), so that a reader of the result
  finds the new id and the rest unchanged (`IdIsKnown`); each message then only has to be shown to
  have its id where the setter of the gateway looks for it (`PublishPlace`, `FixedId`, `AckId`).
* `BrokerWayAlways`, `IdAlwaysReplaced`, `AlwaysTold`: one lemma for each message of the broker says what the gateway hears
  (`Heard`), one lemma for each kind what the client is told after `ToSn`; `BrokerWayInv` puts
  them at their places.
* `BuffersAlwaysSuffice`: an exact statement, for every text, of which buffers are large
  enough and which are overrun. The gateway's `set` functions have room, which `HasRoom`
  states message by message: the longest is REGISTER, whose name may have 1015 octets and no
  more. That is `LengthsAssumption`; the attempt to prove it for 1016 showed that it fails
  there. `Sized` is the clients' half. For the buffer of 1024 octets in `MQTTGWPacket::send`,
  `FramedBytes` gives the length of a packet behind its header, one lemma for each packet the
  length of its data (`Carries`: `ToConnectBytes`, `ToPublishBytes`, ...), and
  `TranslationSize` brings both together: the packet is too long for the buffer exactly when
  the text of the client was (`TooLongForMqtt`), also when the gateway has read a packet that
  was cut (`CutIsSound`).
* `MeaningAlwaysKept`: the other way, to the broker. The remaining length of MQTT is written by
  a recursive function, but of at most three digits: `DigitsWritten` gives the function on
  `0 .. MaxRemainingLength` explicitly and `RecursionWrites` says that it satisfies the
  recursion, so that no induction is needed; `RemainingRead` reads the digits back. Then one
  lemma for each packet says what the broker is told by it (`ConnectTells`, `PublishTells`,
  ...), one for each message that its translation is the packet that says what the client
  meant (`PublishMeans`, ...), and `ToldInv` adds to `WayInv` what is on the way to the broker.
* `OctetsAlways`: that no element of a packet exceeds 255. For every writer one lemma says so
  (`ConnectBytes` to `PublishLongBytes`, `GatewayAckBytes`, `BrokerWritesBytes`, ...). The hard
  step is the gateway's translation of a packet that was cut, of which the theorems above say
  nothing: `CutBody` gives the 252 octets its reader has, and for each message either that
  the fields taken from them still have their range and the topic its name, so that the
  packet for the broker is made of octets (`Sound`, `CutIsSound`, `TranslatedBytes`), or that
  the gateway does not translate it. A short or a predefined filter cannot be cut, since its
  packet has not that size: the one that is cut is a long name, two octets too short.
* `PublishArrivesWhole`, `LongPublishIsRejected`: arithmetic on the length field,
  with the round trip of encode and decode as lemmas.
* `TesterProofs!TypeCorrect`: inductive. The types of the calls on the stack, of the messages
  and of the elements of the managers' lists are sets of records (`Calls`, `Requests`,
  `Answers`, `SubElements`, ...), so that the type says of each call and each message which
  arguments it has; `_last` points into the list of subscriptions, or to an element that was
  freed, through every `add` and `remove`.
* `DoneAlwaysHandled`: `DoneIsHandled` is not inductive, as it says nothing of a PUBACK or a
  PUBREC that is still on its way. `HandledFirst` adds that each of them that confirms a
  PUBLISH has an id the gateway has passed on, and so has the element that has seen its
  PUBREC. It does not depend on message ids being unique.
* `SubscriptionsAlwaysKept`: `SubscriptionsKept` speaks of the moments at which the program
  waits for a test. `SubsKept` is what holds in between, at any depth of nested calls. What
  it comes to is `HeldOK`: a topic the program wants is `Served` (the broker has the
  subscription and no UNSUBSCRIBE for it is under way) once its element is `Granted`
  (accepted, or the SUBACK that accepts is under way), unless onConnect is still to ask for
  it again. The rest is what keeps that true. A SUBACK is for the topic of the element it is
  found for, since a message id stands for one topic, on the stack, in the list and in the
  air (`IdsOK`); `getElement` finds the only element there is (`UniqueOK`, through every add,
  replacement and removal); no UNSUBSCRIBE follows a SUBSCRIBE of a wanted topic on the way to
  the gateway (`OrderOK`), because none is sent, now or again, for a wanted topic
  (`UnsubsOK`): the program unsubscribes from the bottom of the stack and its test does not
  end before the answer (`StackOK`). The exception of `UnsubsOK` is a list that is empty while
  `_last` points to an element that was freed: nothing is added to it any more, so that what
  is wanted and what is asked for part, and no topic is `Granted` again. Most steps have to do
  with no subscription; they are shown to be a `PlainStep`, which keeps `SubsKept`.
* `NoWakeupLost`: inductive with two facts about the thread that posts. `MutexOK`: a thread
  is between `sem_getvalue` and `sem_post` exactly while it holds the mutex of the queue it
  posts to. `ValueOK`: a value of 0 it has read is still the value, because nobody else can
  post. So what makes the unlocked look at the size safe is that the look at the value is
  not. A reader that goes to wait with an event in its queue therefore finds the semaphore
  posted, or a thread that is about to post it.
* The three queues: under the refinement mapping (`items` is the queue, `closed` that its
  task has stopped) every step is a `Put` of the poster, a `Take` of the reader or a
  stutter; an event that a full queue refuses was never put.
* `ImplementsExchange`: a step of the gateway is `Take` when the broker reads a request
  and `Acknowledge` when the answer is sent to a client. That the answer is that client's
  needs the history of the packet id: `QueueOK` says the id of a queued request, if the
  table has it, belongs to its client and message id, which this client has made,
  `AnswersOK` the same of an answer and that its request was taken, and `TableOK` that an
  id is nobody else's. A request that is sent again after its element was removed goes to
  the broker under id 0, that is in no element.
* `ListsAlwaysAgree`: `ListSpec` is one list of any class, which is what `Containers` does
  when its class is not the tree. `Agrees` is the inductive invariant: there is a sequence of
  elements, each once, that the pointers of memory go along (`Chain`), whose keys are
  `contents` (`HasKeys`), with an end and pointers back as far as the class keeps them
  (`EndKnown`, `BackKnown`, `HeadKnown`). The classes differ in their texts; `AppendsTo` and
  `Unlinks` say what an insertion and a removal have to do to the pointers of the elements
  that stay, and each text is shown to do it: `LinkedAppends`, `LinkedAtEndAppends`,
  `UnlinkedUnlinks`, `ErasedElmUnlinks` (which leaves a pointer back wrong, where nobody
  follows it), `PoppedUnlinks`, `PassedOverUnlinks`; the four cases of `MessageIdTable::clear`
  come to the text of the others (`ClearedIsUnlinked`). `eraseNormal` removes several in one
  walk: `WalkedTo` is what holds in the middle of it.
  Walks along pointers are recursive functions. That a solution exists is shown by giving it
  (`WalkIs`) or by prolonging one (`WalkErasingIs`); that what is chosen is that one, by
  `SetInduction`, which says of a set that contains 0 and the successor of each of its numbers
  that it contains them all, and follows from the well-foundedness of inclusion on finite
  sets: the induction theorems of the library have an operator as a parameter.

Only model-checked:

* `AckedIsKept` for a program that is killed and starts again (run `sleep`): the theorem is
  for one session, because the start of a session deletes what the old one left.
* `TreeHolds`: the operations of `Tree23` are RECURSIVE operators, for which the prover has
  no SMT backend.
* All liveness properties: liveness under fairness and ENABLED are beyond the prover.

## 5. Findings

* `PublishOnlyRegistered` (run `registered`): PublishV2:590 expects an accepted REGACK in
  `Q_REGISTERING`; any datagram ends the state as if it were one, because the branch
  for the error lacks a `break`. The second topic is then published to with an entry
  nobody wrote.
* `SleepIsKnown` (run `sleeper`): MQTTGWPublishHandler.cpp:46 says that PUBLISHes for a
  sleeping client are saved. When the first answer to its announcement is late, SleepV2
  announces its sleep again; the gateway, whose client is Asleep already, does not look at
  the duration (MQTTSNGWClient.cpp:271), makes it Disconnected and drops its PUBLISHes.

`BuffersSuffice` holds because it names its exceptions, and these are writes beyond the end of
an array on the stack, of which the repository says nothing:

* With 254 octets behind the type of a message, `MQTTSNPacket_len` gives 256, which is the
  size of the sender's buffer and what its writer compares with it, and
  `MQTTSNPacket_encode` then writes three octets for the length: 258 octets go into a buffer
  of 256 (WillMsg.c:36-44, mqtt-sn-lib/MQTTSNPacket.c:54-81, and every sender that has a
  text). `OfTheWrongLength` lists the texts: a client id of 250 octets, a will message of
  254, a payload of 249, and so on.
* `MQTTGWPacket::send` copies the packet into `buf[1024]` without looking at its length
  (MQTTGWPacket.cpp:234-241). A CONNECT whose client id has 1010 octets or more fits into a
  datagram and is longer than that when it is translated, and so are a long will message and
  a long PUBLISH at QoS 1 or 2 (`TooLongForMqtt`).

The model also shows behaviour that contradicts no more than an expectation: a PUBACK that
comes after its publish was given up ends the next one at QoS 2 (PublishV2:426); the map
for PUBACKs keeps entries of QoS 2 (MQTTSNGWPublishHandler.cpp:116); `connectSended` may
overwrite Active (MQTTSNGWBrokerSendTask.cpp:122); a PUBLISH with a body of 255 bytes
announces 256 and sends 258 (mqtt-sn-lib/MQTTSNPacket.c:56); an EtStop that finds
`packetEventQue` full is deleted, and the gateway then does not end
(MQTTSNGateway.cpp:410, an exception in `GatewayStops`); a SIGTERM or SIGHUP that follows a
SIGINT before the main thread, which sleeps a second at a time, and both receivers have
looked hides it, and the gateway does not end either (MQTTSNGWProcess.cpp:45-48, the other
exception); a REGISTER of the tester that is
given up leaves its PUBLISH suspended (LRegisterManager.cpp:239, the exception in
`TestsEnd`). They are listed as hazards. In the containers, `ClientList::createClient`,
`TopicIdMap::add` and `MessageIdTable::add` test for more than the limit and so hold one
element more; `TopicIdMap::erase` counts down also when it finds nothing, and
`Forwarder::eraseClient`, which nobody can reach, uses a pointer it never assigns.

## 6. Not modelled

* *Payloads, printing and configuration.* Nothing compares payloads; the gateway's
  parameters, its log (`RingBuffer`) and its prompts have no state that matters.
* *TLS, addresses and sockets* (`linux/Network.cpp`, XBee, UDP6): plain input and output. Of
  the broker connection its closing is modelled, and for the aggregater a failing
  `connect` as well. A gateway that restarts keeps nothing and is one that has died.
* *More than one client* outside `Aggregator`: clients share no state in the gateway except
  the client list and the queues.
* *Access to a `Client` that `BrokerRecvTask` has deleted*, and to elements the tester has
  freed: below this level; the models erase what is queued with the object.
* *Will updates*: `WillTopicUpd.c` and `WillMsgUpd.c` do not compile and no program calls
  them; their codecs are in `ClientCodec`. *QoS -1 proxy and forwarders*: no program of
  this repository uses them; the encapsulated packets of a forwarder are in `Codecs`, and the
  proxy's connection is the aggregater's.
* *Operations nobody calls*, such as `LTopicTable::remove` and `Forwarder::eraseClient`, are left
  out of the models.
* *`LSubscribeManager::remove` in the middle of its list* leaves `elm->next->prev` as it is
  (LSubscribeManager.cpp:345-353), so that a later `remove` of the element behind it writes to
  freed memory. `TesterClient` keeps the elements as a sequence with `_last` beside it: the back
  pointers, and what goes wrong through them, are below its level, and `Lists` has other
  classes.
* *In the tester*: wills, the QoS -1 and forwarder modes, the PUBLISHes and REGISTERs it is
  sent, `LTopicTable` beyond its links and the set of known names, the loop of its client mode.
* *In the aggregater*: PUBLISHes of the broker, which reach nobody (`createClientList` is
  a ToDo in the code).
* *The wrap of message ids* and tables that are full after hundreds of entries: excluded
  by bounds, and listed as hazards.
* *`MQTTSNClient`, `MQTTSNPacket/samples` and the test programs of the paho project*:
  third-party code that no program of this repository runs. `Tree23` and `List`, which only a
  disabled test of theirs uses, are in `Containers`.
