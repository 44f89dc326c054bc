-------------------------------- MODULE Tasks --------------------------------
(***************************************************************************)
(* The threads of the gateway and the three EventQues between them.        *)
(*                                                                         *)
(* EventQue::post puts an event into the Que and posts the semaphore, with *)
(* the mutex held; Semaphore::post looks at the value first, so that it is *)
(* never more than 1.  EventQue::wait and timedwait look at the size of    *)
(* the Que without the mutex, wait for the semaphore when it is 0, and     *)
(* then look again.  After SIGINT the main thread sends every task that    *)
(* reads a queue an EtStop and waits until all tasks have stopped; the     *)
(* other signals do nothing but overwrite what the threads look at.        *)
(***************************************************************************)
EXTENDS Naturals, Sequences

CONSTANTS
    MaxSize,           \* _maxSize of packetEventQue, MAX_INFLIGHTMESSAGES * MAX_CLIENTS
    MaxEvents          \* bound: events that are made

ASSUME TasksAssumption == MaxSize \in Nat \ {0} /\ MaxEvents \in Nat

Queues == {"packetEventQue", "brokerSendQue", "clientSendQue"}

\* The task that reads a queue.
Reader == [packetEventQue |-> "PacketHandleTask", brokerSendQue |-> "BrokerSendTask",
           clientSendQue |-> "ClientSendTask"]

Readers == {Reader[q] : q \in Queues}
Receivers == {"ClientRecvTask", "BrokerRecvTask"}
Threads == Readers \cup Receivers \cup {"main"}

Events == {"EtStop", "EtOther"}

\* signalHandler is installed for SIGINT, SIGTERM and SIGHUP, and nothing tells the last two,
\* or no signal, apart.
Signals == {"SIGINT", "other"}

VARIABLES
    que,               \* EventQue::_que
    sem,               \* EventQue::_sem
    mutex,             \* who holds EventQue::_mutex
    pc,                \* where each thread is
    posts,             \* what each thread has to post: [que, event]
    val,               \* what sem_getvalue returned to it, until Semaphore::post returns
    theSignaled,       \* the last signal
    stopCount,         \* MultiTaskProcess::_stopCount
    stopLost,          \* an EtStop was deleted because the queue was full
    made               \* events made so far

queVars == <<que, sem, mutex>>
threadVars == <<pc, posts, val>>
stopVars == <<theSignaled, stopCount, stopLost>>
vars == <<queVars, threadVars, stopVars, made>>

Init ==
    /\ que = [q \in Queues |-> <<>>] /\ sem = [q \in Queues |-> 0] /\ mutex = [q \in Queues |-> "none"]
    /\ pc = [t \in Threads |-> IF t = "main" THEN "sleep" ELSE "run"]
    /\ posts = [t \in Threads |-> <<>>] /\ val = [t \in Threads |-> 0]
    /\ theSignaled = "other" /\ stopCount = 0 /\ stopLost = FALSE
    /\ made = 0

At(t, place) == pc[t] = place
Goes(t, place) == pc' = [pc EXCEPT ![t] = place]

\* The thread has nothing to post and is where its loop begins.
AtLoop(t) == At(t, "run") /\ posts[t] = <<>>

\* It makes events for these queues.
Makes(t, queues) ==
    /\ made + Len(queues) <= MaxEvents
    /\ made' = made + Len(queues)
    /\ posts' = [posts EXCEPT ![t] = [i \in DOMAIN queues |-> [que |-> queues[i], event |-> "EtOther"]]]

----------------------------------------------------------------------------
(* EventQue::post *)

IsFull(q) == q = "packetEventQue" /\ Len(que[q]) = MaxSize

\* Mutant: the oldest event is deleted for the new one.
PostInstead(t) ==
    /\ At(t, "run") /\ posts[t] # <<>>
    /\ LET q == Head(posts[t]).que
       IN  /\ mutex[q] = "none" /\ IsFull(q)
           /\ que' = [que EXCEPT ![q] = Append(Tail(@), Head(posts[t]).event)]
    /\ posts' = [posts EXCEPT ![t] = Tail(@)]
    /\ UNCHANGED <<sem, mutex, pc, val, stopVars, made>>

\* The Que takes no more: the event is deleted.
PostFull(t) ==
    /\ At(t, "run") /\ posts[t] # <<>>
    /\ LET q == Head(posts[t]).que
       IN  /\ mutex[q] = "none" /\ IsFull(q)
           /\ stopLost' = (stopLost \/ Head(posts[t]).event = "EtStop")
    /\ posts' = [posts EXCEPT ![t] = Tail(@)]
    /\ UNCHANGED <<queVars, pc, val, theSignaled, stopCount, made>>

Post(t) ==
    /\ At(t, "run") /\ posts[t] # <<>>
    /\ LET q == Head(posts[t]).que
       IN  /\ mutex[q] = "none" /\ ~IsFull(q)
           /\ mutex' = [mutex EXCEPT ![q] = t]
           /\ que' = [que EXCEPT ![q] = Append(@, Head(posts[t]).event)]
    /\ Goes(t, "getvalue")
    /\ UNCHANGED <<sem, posts, val, stopVars, made>>

\* Semaphore::post, first half
GetValue(t) ==
    /\ At(t, "getvalue")
    /\ val' = [val EXCEPT ![t] = sem[Head(posts[t]).que]]
    /\ Goes(t, "sem_post")
    /\ UNCHANGED <<queVars, posts, stopVars, made>>

\* Mutant: the value is not looked at.
SemPostAlways(t) ==
    /\ At(t, "sem_post")
    /\ LET q == Head(posts[t]).que
       IN  /\ sem' = [sem EXCEPT ![q] = @ + 1]
           /\ mutex' = [mutex EXCEPT ![q] = "none"]
    /\ posts' = [posts EXCEPT ![t] = Tail(@)]
    /\ val' = [val EXCEPT ![t] = 0]
    /\ Goes(t, "run")
    /\ UNCHANGED <<que, stopVars, made>>

\* Second half, and the mutex is unlocked.
SemPost(t) ==
    /\ At(t, "sem_post")
    /\ LET q == Head(posts[t]).que
       IN  /\ sem' = IF val[t] = 0 THEN [sem EXCEPT ![q] = @ + 1] ELSE sem
           /\ mutex' = [mutex EXCEPT ![q] = "none"]
    /\ posts' = [posts EXCEPT ![t] = Tail(@)]
    /\ val' = [val EXCEPT ![t] = 0]
    /\ Goes(t, "run")
    /\ UNCHANGED <<que, stopVars, made>>

----------------------------------------------------------------------------
(* EventQue::wait and timedwait, and what the task does with the event. *)

\* Mutant: the semaphore is waited for whatever the size is.
ReadSizeNot(q) ==
    /\ AtLoop(Reader[q])
    /\ Goes(Reader[q], "sem_wait")
    /\ UNCHANGED <<queVars, posts, val, stopVars, made>>

ReadSize(q) ==
    /\ AtLoop(Reader[q])
    /\ Goes(Reader[q], IF que[q] = <<>> THEN "sem_wait" ELSE "lock")
    /\ UNCHANGED <<queVars, posts, val, stopVars, made>>

SemWait(q) ==
    /\ At(Reader[q], "sem_wait") /\ sem[q] > 0
    /\ sem' = [sem EXCEPT ![q] = @ - 1]
    /\ Goes(Reader[q], "lock")
    /\ UNCHANGED <<que, mutex, posts, val, stopVars, made>>

\* timedwait
TimedOut ==
    /\ At("PacketHandleTask", "sem_wait")
    /\ Goes("PacketHandleTask", "lock")
    /\ UNCHANGED <<queVars, posts, val, stopVars, made>>

\* Any number of events for these queues, in any order
Several(queues) == UNION {[1..n -> queues] : n \in 0..MaxEvents}

\* An EtTimeout may be the time for an ADVERTISE and for a message of each adapter.
TimeoutWork(q) ==
    IF q = "packetEventQue" THEN Several({"clientSendQue", "packetEventQue"}) ELSE {<<>>}

\* Nothing is there: wait begins again, timedwait returns an EtTimeout.
Nothing(q) ==
    /\ At(Reader[q], "lock") /\ mutex[q] = "none" /\ que[q] = <<>>
    /\ Goes(Reader[q], "run")
    /\ \E queues \in TimeoutWork(q) : Makes(Reader[q], queues)
    /\ UNCHANGED <<queVars, val, stopVars>>

\* PacketHandleTask answers clients, passes messages on to the broker, and makes events for
\* itself (the stored PUBLISHes of a client, one for each client of the aggregator).  What
\* cannot be sent to the broker is a DISCONNECT for PacketHandleTask, and an adapter that is
\* sent a CONNACK frees all it has kept.
Work(q) ==
    CASE q = "packetEventQue" -> Several(Queues)
      [] q = "clientSendQue"  -> Several({"packetEventQue"})
      [] OTHER                -> {<<>>, <<"packetEventQue">>}

Handle(q) ==
    /\ At(Reader[q], "lock") /\ mutex[q] = "none" /\ que[q] # <<>>
    /\ Head(que[q]) = "EtOther"
    /\ que' = [que EXCEPT ![q] = Tail(@)]
    /\ Goes(Reader[q], "run")
    /\ \E queues \in Work(q) : Makes(Reader[q], queues)
    /\ UNCHANGED <<sem, mutex, val, stopVars>>

Stops(t) ==
    /\ Goes(t, "stopped")
    /\ stopCount' = stopCount + 1

HandleStop(q) ==
    /\ At(Reader[q], "lock") /\ mutex[q] = "none" /\ que[q] # <<>>
    /\ Head(que[q]) = "EtStop"
    /\ que' = [que EXCEPT ![q] = Tail(@)]
    /\ Stops(Reader[q])
    /\ UNCHANGED <<sem, mutex, posts, val, theSignaled, stopLost, made>>

----------------------------------------------------------------------------
(* ClientRecvTask and BrokerRecvTask look for SIGINT whenever they have waited a second, or *)
(* half a second, for something to read.                                                    *)

Receive(t) ==
    /\ AtLoop(t) /\ t \in Receivers
    /\ Makes(t, <<"packetEventQue">>)
    /\ UNCHANGED <<queVars, pc, val, stopVars>>

ReceiverStops(t) ==
    /\ AtLoop(t) /\ t \in Receivers
    /\ theSignaled = "SIGINT"
    /\ Stops(t)
    /\ UNCHANGED <<queVars, posts, val, theSignaled, stopLost, made>>

\* The main thread

\* signalHandler: the last signal is the one that counts.  A thread that waits for its
\* semaphore may be interrupted by the signal.
Signal(sig) ==
    /\ theSignaled' = sig
    /\ \/ UNCHANGED pc
       \/ \E t \in Readers : At(t, "sem_wait") /\ Goes(t, "lock")
    /\ UNCHANGED <<queVars, posts, val, stopCount, stopLost, made>>

\* Mutant: ClientSendTask is forgotten.
PostStopsTwo ==
    /\ At("main", "sleep") /\ theSignaled = "SIGINT"
    /\ posts' = [posts EXCEPT !["main"] =
                    [i \in 1..2 |-> [que |-> <<"packetEventQue", "brokerSendQue">>[i], event |-> "EtStop"]]]
    /\ Goes("main", "run")
    /\ UNCHANGED <<queVars, val, stopVars, made>>

\* Gateway::run, "stop Tasks"
PostStops ==
    /\ At("main", "sleep") /\ theSignaled = "SIGINT"
    /\ posts' = [posts EXCEPT !["main"] =
                    [i \in 1..3 |-> [que |-> <<"packetEventQue", "brokerSendQue", "clientSendQue">>[i],
                                     event |-> "EtStop"]]]
    /\ Goes("main", "run")
    /\ UNCHANGED <<queVars, val, stopVars, made>>

\* waitStop has seen that every task has stopped.
GatewayEnds ==
    /\ AtLoop("main") /\ stopCount = 5
    /\ Goes("main", "stopped")
    /\ UNCHANGED <<queVars, posts, val, stopVars, made>>

----------------------------------------------------------------------------

PostStep(t) == PostFull(t) \/ Post(t) \/ GetValue(t) \/ SemPost(t)

ReaderStep(q) ==
    \/ ReadSize(q) \/ SemWait(q) \/ Nothing(q) \/ Handle(q) \/ HandleStop(q)
    \/ q = "packetEventQue" /\ TimedOut

MainStep == PostStops \/ GatewayEnds

Next ==
    \/ \E t \in Threads : PostStep(t)
    \/ \E q \in Queues : ReaderStep(q)
    \/ \E t \in Receivers : Receive(t) \/ ReceiverStops(t)
    \/ \E sig \in Signals : Signal(sig)
    \/ MainStep

Spec == Init /\ [][Next]_vars

\* Every thread that can go on is scheduled; nobody has to send anything, or to stop the gateway.
Fairness ==
    /\ \A t \in Threads : WF_vars(PostStep(t))
    /\ \A q \in Queues : WF_vars(ReaderStep(q))
    /\ \A t \in Receivers : WF_vars(ReceiverStops(t))
    /\ WF_vars(MainStep)

FairSpec == Spec /\ Fairness

----------------------------------------------------------------------------

\* The thread is in EventQue::post, with the mutex.
Posting(t) == pc[t] \in {"getvalue", "sem_post"}

\* The variables have their types: in particular a semaphore never counts more than 1.
TypeOK ==
    /\ que \in [Queues -> Seq(Events)] /\ Len(que["packetEventQue"]) <= MaxSize
    /\ sem \in [Queues -> {0, 1}]
    /\ mutex \in [Queues -> Threads \cup {"none"}]
    /\ pc \in [Threads -> {"run", "sleep", "getvalue", "sem_post", "sem_wait", "lock", "stopped"}]
    /\ posts \in [Threads -> Seq([que : Queues, event : Events])]
    /\ val \in [Threads -> {0, 1}]
    /\ theSignaled \in Signals /\ stopCount \in Nat /\ stopLost \in BOOLEAN
    /\ made \in 0..MaxEvents

\* EventQue::wait: a task that waits for the semaphore while there is an event in its queue
\* is about to be woken: the semaphore is posted, or the thread that has put the event
\* there still holds the mutex and is going to post it.  wait looks at the size without the
\* mutex and Semaphore::post does nothing when the value is not 0; neither loses an event.
NoEventSleeps ==
    \A q \in Queues :
        At(Reader[q], "sem_wait") /\ que[q] # <<>> /\ sem[q] = 0 =>
            \E t \in Threads :
                /\ mutex[q] = t
                /\ At(t, "getvalue") \/ (At(t, "sem_post") /\ val[t] = 0)

PacketBox == INSTANCE Mailbox WITH items <- que["packetEventQue"], closed <- At("PacketHandleTask", "stopped")
BrokerBox == INSTANCE Mailbox WITH items <- que["brokerSendQue"], closed <- At("BrokerSendTask", "stopped")
ClientBox == INSTANCE Mailbox WITH items <- que["clientSendQue"], closed <- At("ClientSendTask", "stopped")

\* Each EventQue, with its semaphore, its mutex and the loop of its task, is a Mailbox: events
\* are taken in order and none waits for ever.
Delivers == PacketBox!FairSpec /\ BrokerBox!FairSpec /\ ClientBox!FairSpec

\* A later signal has hidden SIGINT from a thread that had still to look for it.
Hidden ==
    /\ theSignaled # "SIGINT"
    /\ At("main", "sleep") \/ \E t \in Receivers : ~At(t, "stopped")

\* Gateway::run, "wait until all Task stop": after SIGINT the gateway ends, unless
\* packetEventQue was full and has deleted the EtStop, or SIGTERM or SIGHUP came before the
\* main thread and both receivers had looked.
GatewayStops == theSignaled = "SIGINT" ~> At("main", "stopped") \/ stopLost \/ Hidden
===============================================================================
