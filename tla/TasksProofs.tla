----------------------------- MODULE TasksProofs -----------------------------
(***************************************************************************)
(* What holds of the gateway's threads for every size of packetEventQue    *)
(* and however many events are made: the variables have their types, no    *)
(* task sleeps while there is an event for it, and each EventQue gives its *)
(* task the events in their order, each of them once.                      *)
(***************************************************************************)
EXTENDS Tasks, SequenceTheorems, TLAPS

\* The mutex of a queue is held by the thread that is in post for that queue.
MutexOK ==
    /\ \A t \in Threads : Posting(t) => posts[t] # <<>>
    /\ \A q \in Queues, t \in Threads : mutex[q] = t <=> Posting(t) /\ Head(posts[t]).que = q

\* Between sem_getvalue and sem_post nobody else posts the semaphore.
ValueOK ==
    \A q \in Queues, t \in Threads : At(t, "sem_post") /\ mutex[q] = t /\ val[t] = 0 => sem[q] = 0

TasksInv == TypeOK /\ MutexOK /\ ValueOK /\ NoEventSleeps

\* Each queue has a task of its own, and no task is called "none".
LEMMA ReaderFacts ==
    /\ \A q \in Queues : Reader[q] \in Threads
    /\ \A q, r \in Queues : Reader[q] = Reader[r] => q = r
    /\ "none" \notin Threads /\ "main" \in Threads /\ Receivers \subseteq Threads
    /\ \A q \in Queues : Reader[q] # "main" /\ Reader[q] \notin Receivers
    /\ "PacketHandleTask" = Reader["packetEventQue"] /\ "packetEventQue" \in Queues
    /\ Readers \subseteq Threads
BY DEF Reader, Readers, Queues, Threads, Receivers

LEMMA InitInv == Init => TasksInv
<1> SUFFICES ASSUME Init PROVE TasksInv
  OBVIOUS
<1>1. TypeOK
  <2>1. /\ <<>> \in Seq(Events) /\ Len(<<>>) = 0
        /\ <<>> \in Seq([que : Queues, event : Events])
    BY EmptySeq
  <2>2. que \in [Queues -> Seq(Events)] /\ Len(que["packetEventQue"]) <= MaxSize
    BY <2>1, TasksAssumption, ReaderFacts DEF Init
  <2>3. posts \in [Threads -> Seq([que : Queues, event : Events])]
    BY <2>1 DEF Init
  <2>4. sem \in [Queues -> {0, 1}] /\ mutex \in [Queues -> Threads \cup {"none"}]
    BY DEF Init
  <2>5. pc \in [Threads -> {"run", "sleep", "getvalue", "sem_post", "sem_wait", "lock", "stopped"}]
    BY DEF Init
  <2>6. val \in [Threads -> {0, 1}]
    BY DEF Init
  <2>7. stopCount \in Nat /\ made \in 0..MaxEvents
    BY TasksAssumption DEF Init
  <2>8. theSignaled \in Signals /\ stopLost \in BOOLEAN
    BY Zenon DEF Init, Signals
  <2> QED BY <2>2, <2>3, <2>4, <2>5, <2>6, <2>7, <2>8 DEF TypeOK
<1>2. MutexOK /\ ValueOK /\ NoEventSleeps
  BY ReaderFacts DEF Init, MutexOK, ValueOK, NoEventSleeps, Posting, At
<1> QED BY <1>1, <1>2 DEF TasksInv

\* What a thread makes are events for queues.
LEMMA MakesType ==
    ASSUME TypeOK, NEW t \in Threads, NEW queues \in Seq(Queues), Makes(t, queues)
    PROVE  /\ posts' \in [Threads -> Seq([que : Queues, event : Events])]
           /\ made' \in 0..MaxEvents
           /\ \A u \in Threads \ {t} : posts'[u] = posts[u]
<1> DEFINE new == [i \in DOMAIN queues |-> [que |-> queues[i], event |-> "EtOther"]]
<1>1. new \in Seq([que : Queues, event : Events])
  <2>1. DOMAIN queues = 1..Len(queues) /\ Len(queues) \in Nat
    OBVIOUS
  <2>2. \A i \in 1..Len(queues) : new[i] \in [que : Queues, event : Events]
    BY <2>1 DEF Events
  <2>3. DOMAIN new = 1..Len(queues) /\ new = [i \in 1..Len(queues) |-> new[i]]
    BY <2>1 DEF new
  <2>4. new \in [1..Len(queues) -> [que : Queues, event : Events]]
    BY <2>2, <2>3
  <2> QED BY <2>1, <2>4
<1>2. posts' = [posts EXCEPT ![t] = new]
  BY DEF Makes
<1> HIDE DEF new
<1>3. made' \in 0..MaxEvents
  BY TasksAssumption DEF Makes, TypeOK
<1> QED BY <1>1, <1>2, <1>3 DEF TypeOK

\* What a thread has to post next
LEMMA PostsFacts ==
    ASSUME TypeOK, NEW t \in Threads, posts[t] # <<>>
    PROVE  /\ Head(posts[t]).que \in Queues /\ Head(posts[t]).event \in Events
           /\ Tail(posts[t]) \in Seq([que : Queues, event : Events])
<1>1. posts[t] \in Seq([que : Queues, event : Events])
  BY DEF TypeOK
<1>2. Head(posts[t]) \in [que : Queues, event : Events]
  BY <1>1, HeadTailProperties
<1>3. Tail(posts[t]) \in Seq([que : Queues, event : Events])
  BY <1>1, HeadTailProperties
<1> QED BY <1>2, <1>3

\* What a task takes from its queue
LEMMA QueFacts ==
    ASSUME TypeOK, NEW q \in Queues
    PROVE  /\ que[q] \in Seq(Events) /\ Len(que[q]) \in Nat
           /\ que[q] # <<>> => /\ Tail(que[q]) \in Seq(Events)
                              /\ Len(Tail(que[q])) = Len(que[q]) - 1
           /\ \A e \in Events : /\ Append(que[q], e) \in Seq(Events)
                                 /\ Append(que[q], e) # <<>>
                                 /\ Len(Append(que[q], e)) = Len(que[q]) + 1
<1>1. que[q] \in Seq(Events)
  BY DEF TypeOK
<1>2. Len(que[q]) \in Nat
  BY <1>1, LenProperties
<1>3. que[q] # <<>> => /\ Tail(que[q]) \in Seq(Events)
                      /\ Len(Tail(que[q])) = Len(que[q]) - 1
  BY <1>1, HeadTailProperties
<1>4. \A e \in Events : /\ Append(que[q], e) \in Seq(Events)
                         /\ Append(que[q], e) # <<>>
                         /\ Len(Append(que[q], e)) = Len(que[q]) + 1
  BY <1>1, AppendProperties
<1> QED BY <1>1, <1>2, <1>3, <1>4

\* The type of each variable, in the next state
QueType == que' \in [Queues -> Seq(Events)] /\ Len(que'["packetEventQue"]) <= MaxSize
PostsType == posts' \in [Threads -> Seq([que : Queues, event : Events])]
PcType == pc' \in [Threads -> {"run", "sleep", "getvalue", "sem_post", "sem_wait", "lock", "stopped"}]
LockType == sem' \in [Queues -> {0, 1}] /\ mutex' \in [Queues -> Threads \cup {"none"}]
                /\ val' \in [Threads -> {0, 1}]
CountType == stopCount' \in Nat /\ made' \in 0..MaxEvents
StopType == theSignaled' \in Signals /\ stopLost' \in BOOLEAN

LEMMA NextType == QueType /\ PostsType /\ PcType /\ LockType /\ CountType /\ StopType => TypeOK'
BY DEF QueType, PostsType, PcType, LockType, CountType, StopType, TypeOK

LEMMA PostsTail ==
    ASSUME TypeOK, NEW t \in Threads, posts[t] # <<>>, posts' = [posts EXCEPT ![t] = Tail(@)]
    PROVE  PostsType
<1>1. Tail(posts[t]) \in Seq([que : Queues, event : Events])
  BY PostsFacts
<1> QED BY <1>1 DEF PostsType, TypeOK

LEMMA QueTail ==
    ASSUME TypeOK, NEW q \in Queues, que[q] # <<>>, que' = [que EXCEPT ![q] = Tail(@)]
    PROVE  QueType
<1>1. Tail(que[q]) \in Seq(Events) /\ Len(Tail(que[q])) = Len(que[q]) - 1 /\ Len(que[q]) \in Nat
  BY QueFacts
<1>2. que' \in [Queues -> Seq(Events)]
  BY <1>1 DEF TypeOK
<1>3. Len(que'["packetEventQue"]) <= MaxSize
  <2>1. CASE q = "packetEventQue"
    BY <2>1, <1>1, TasksAssumption DEF TypeOK
  <2>2. CASE q # "packetEventQue"
    BY <2>2 DEF TypeOK
  <2> QED BY <2>1, <2>2
<1> QED BY <1>2, <1>3 DEF QueType

LEMMA PostType ==
    ASSUME TypeOK, MutexOK, ValueOK, NEW t \in Threads, PostStep(t)
    PROVE  TypeOK'
<1>1. CASE PostFull(t)
  <2>1. QueType /\ PcType /\ LockType /\ CountType
    BY <1>1 DEF PostFull, queVars, QueType, PcType, LockType, CountType, TypeOK
  <2>2. PostsType
    BY <1>1, PostsTail DEF PostFull
  <2>3. StopType
    BY <1>1, Zenon DEF PostFull, StopType, TypeOK
  <2> QED BY <2>1, <2>2, <2>3, NextType
<1>2. CASE Post(t)
  <2> DEFINE q == Head(posts[t]).que
             e == Head(posts[t]).event
  <2>1. q \in Queues /\ e \in Events
    BY <1>2, PostsFacts DEF Post
  <2>2. que' = [que EXCEPT ![q] = Append(@, e)] /\ mutex' = [mutex EXCEPT ![q] = t] /\ ~IsFull(q)
    BY <1>2 DEF Post
  <2> HIDE DEF q, e
  <2>3. Append(que[q], e) \in Seq(Events) /\ Len(Append(que[q], e)) = Len(que[q]) + 1 /\ Len(que[q]) \in Nat
    BY <2>1, QueFacts
  <2>4. que' \in [Queues -> Seq(Events)]
    BY <2>1, <2>2, <2>3 DEF TypeOK
  <2>5. Len(que'["packetEventQue"]) <= MaxSize
    <3>1. CASE q = "packetEventQue"
      BY <3>1, <2>1, <2>2, <2>3, TasksAssumption DEF TypeOK, IsFull
    <3>2. CASE q # "packetEventQue"
      BY <3>2, <2>1, <2>2 DEF TypeOK
    <3> QED BY <3>1, <3>2
  <2>6. LockType
    <3>1. mutex' \in [Queues -> Threads \cup {"none"}]
      BY <2>1, <2>2 DEF TypeOK
    <3> QED BY <1>2, <3>1 DEF Post, LockType, TypeOK
  <2>7. PcType
    BY <1>2 DEF Post, Goes, PcType, TypeOK
  <2>8. PostsType /\ CountType /\ StopType
    BY <1>2, Zenon DEF Post, stopVars, PostsType, CountType, StopType, TypeOK
  <2> QED BY <2>4, <2>5, <2>6, <2>7, <2>8, NextType DEF QueType
<1>3. CASE GetValue(t)
  <2>1. Head(posts[t]).que \in Queues
    BY <1>3, PostsFacts DEF GetValue, MutexOK, Posting, At
  <2>2. LockType
    BY <1>3, <2>1 DEF GetValue, queVars, LockType, TypeOK
  <2>3. PcType
    BY <1>3 DEF GetValue, Goes, PcType, TypeOK
  <2>4. QueType /\ PostsType /\ CountType
    BY <1>3 DEF GetValue, queVars, stopVars, QueType, PostsType, CountType, TypeOK
  <2>5. StopType
    BY <1>3, Zenon DEF GetValue, stopVars, StopType, TypeOK
  <2> QED BY <2>2, <2>3, <2>4, <2>5, NextType
<1>4. CASE SemPost(t)
  <2> DEFINE q == Head(posts[t]).que
  <2>1. q \in Queues /\ posts[t] # <<>>
    BY <1>4, PostsFacts DEF SemPost, MutexOK, Posting, At
  <2>2. mutex[q] = t
    BY <1>4, <2>1 DEF SemPost, MutexOK, Posting, At
  <2>3. val[t] = 0 => sem[q] = 0
    BY <1>4, <2>1, <2>2 DEF SemPost, ValueOK
  <2>4. LockType
    <3>1. sem' = IF val[t] = 0 THEN [sem EXCEPT ![q] = @ + 1] ELSE sem
      BY <1>4 DEF SemPost
    <3>2. mutex' = [mutex EXCEPT ![q] = "none"] /\ val' = [val EXCEPT ![t] = 0]
      BY <1>4 DEF SemPost
    <3> HIDE DEF q
    <3>3. sem' \in [Queues -> {0, 1}]
      BY <3>1, <2>1, <2>3 DEF TypeOK
    <3>4. mutex' \in [Queues -> Threads \cup {"none"}] /\ val' \in [Threads -> {0, 1}]
      BY <3>2, <2>1 DEF TypeOK
    <3> QED BY <3>3, <3>4 DEF LockType
  <2>5. PostsType
    BY <1>4, <2>1, PostsTail DEF SemPost
  <2>6. PcType
    BY <1>4 DEF SemPost, Goes, PcType, TypeOK
  <2>7. QueType /\ CountType
    BY <1>4 DEF SemPost, stopVars, QueType, CountType, TypeOK
  <2>8. StopType
    BY <1>4, Zenon DEF SemPost, stopVars, StopType, TypeOK
  <2> QED BY <2>4, <2>5, <2>6, <2>7, <2>8, NextType
<1> QED BY <1>1, <1>2, <1>3, <1>4 DEF PostStep

LEMMA SeveralType == \A queues \in SUBSET Queues : Several(queues) \subseteq Seq(Queues)
<1> SUFFICES ASSUME NEW queues \in SUBSET Queues, NEW n \in 0..MaxEvents, NEW s \in [1..n -> queues]
             PROVE  s \in Seq(Queues)
  BY DEF Several
<1>1. s \in [1..n -> Queues] /\ n \in Nat
  BY TasksAssumption
<1> QED BY <1>1

LEMMA WorkType == \A q \in Queues : Work(q) \subseteq Seq(Queues) /\ TimeoutWork(q) \subseteq Seq(Queues)
<1> SUFFICES ASSUME NEW q \in Queues
             PROVE  Work(q) \subseteq Seq(Queues) /\ TimeoutWork(q) \subseteq Seq(Queues)
  OBVIOUS
<1>1. /\ <<>> \in Seq(Queues)
      /\ "packetEventQue" \in Queues => <<"packetEventQue">> \in Seq(Queues)
  OBVIOUS
<1>2. "packetEventQue" \in Queues /\ "clientSendQue" \in Queues
  BY DEF Queues
<1>3. Several(Queues) \subseteq Seq(Queues) /\ Several({"packetEventQue"}) \subseteq Seq(Queues)
      /\ Several({"clientSendQue", "packetEventQue"}) \subseteq Seq(Queues)
  BY <1>2, SeveralType
<1>4. Work(q) \subseteq Seq(Queues)
  BY <1>1, <1>2, <1>3, Zenon DEF Work
<1>5. TimeoutWork(q) \subseteq Seq(Queues)
  BY <1>1, <1>3, Zenon DEF TimeoutWork
<1> QED BY <1>4, <1>5

LEMMA ReaderType ==
    ASSUME TypeOK, NEW q \in Queues, ReaderStep(q)
    PROVE  TypeOK'
<1>0. Reader[q] \in Threads
  BY ReaderFacts
<1>1. CASE ReadSize(q)
  <2>1. PcType
    BY <1>0, <1>1 DEF ReadSize, Goes, PcType, TypeOK
  <2>2. QueType /\ PostsType /\ LockType /\ CountType
    BY <1>1 DEF ReadSize, queVars, stopVars, QueType, PostsType, LockType, CountType, TypeOK
  <2>3. StopType
    BY <1>1, Zenon DEF ReadSize, stopVars, StopType, TypeOK
  <2> QED BY <2>1, <2>2, <2>3, NextType
<1>2. CASE SemWait(q)
  <2>1. PcType
    BY <1>0, <1>2 DEF SemWait, Goes, PcType, TypeOK
  <2>2. LockType
    BY <1>2 DEF SemWait, LockType, TypeOK
  <2>3. QueType /\ PostsType /\ CountType
    BY <1>2 DEF SemWait, stopVars, QueType, PostsType, CountType, TypeOK
  <2>4. StopType
    BY <1>2, Zenon DEF SemWait, stopVars, StopType, TypeOK
  <2> QED BY <2>1, <2>2, <2>3, <2>4, NextType
<1>3. CASE Nothing(q)
  <2>1. PcType
    BY <1>0, <1>3 DEF Nothing, Goes, PcType, TypeOK
  <2>2. QueType /\ LockType /\ stopCount' \in Nat
    BY <1>3 DEF Nothing, queVars, stopVars, QueType, LockType, TypeOK
  <2>3. PostsType /\ made' \in 0..MaxEvents
    <3>1. PICK queues \in TimeoutWork(q) : Makes(Reader[q], queues)
      BY <1>3 DEF Nothing
    <3>2. queues \in Seq(Queues)
      BY WorkType
    <3> QED BY <1>0, <3>1, <3>2, MakesType DEF PostsType
  <2>4. StopType
    BY <1>3, Zenon DEF Nothing, stopVars, StopType, TypeOK
  <2> QED BY <2>1, <2>2, <2>3, <2>4, NextType DEF CountType
<1>4. CASE Handle(q)
  <2>1. PcType
    BY <1>0, <1>4 DEF Handle, Goes, PcType, TypeOK
  <2>2. QueType
    BY <1>4, QueTail DEF Handle
  <2>3. LockType /\ stopCount' \in Nat
    BY <1>4 DEF Handle, stopVars, LockType, TypeOK
  <2>4. PostsType /\ made' \in 0..MaxEvents
    <3>1. PICK queues \in Work(q) : Makes(Reader[q], queues)
      BY <1>4 DEF Handle
    <3>2. queues \in Seq(Queues)
      BY WorkType
    <3> QED BY <1>0, <3>1, <3>2, MakesType DEF PostsType
  <2>5. StopType
    BY <1>4, Zenon DEF Handle, stopVars, StopType, TypeOK
  <2> QED BY <2>1, <2>2, <2>3, <2>4, <2>5, NextType DEF CountType
<1>5. CASE HandleStop(q)
  <2>1. PcType /\ CountType
    BY <1>0, <1>5 DEF HandleStop, Stops, Goes, PcType, CountType, TypeOK
  <2>2. QueType
    BY <1>5, QueTail DEF HandleStop
  <2>3. PostsType /\ LockType
    BY <1>5 DEF HandleStop, PostsType, LockType, TypeOK
  <2>4. StopType
    BY <1>5, Zenon DEF HandleStop, StopType, TypeOK
  <2> QED BY <2>1, <2>2, <2>3, <2>4, NextType
<1>6. CASE TimedOut
  <2>1. PcType
    BY <1>6, ReaderFacts DEF TimedOut, Goes, PcType, TypeOK
  <2>2. QueType /\ PostsType /\ LockType /\ CountType
    BY <1>6 DEF TimedOut, queVars, stopVars, QueType, PostsType, LockType, CountType, TypeOK
  <2>3. StopType
    BY <1>6, Zenon DEF TimedOut, stopVars, StopType, TypeOK
  <2> QED BY <2>1, <2>2, <2>3, NextType
<1> QED BY <1>1, <1>2, <1>3, <1>4, <1>5, <1>6 DEF ReaderStep

LEMMA OtherType ==
    ASSUME TypeOK, \/ \E sig \in Signals : Signal(sig)
                   \/ MainStep
                   \/ \E t \in Receivers : Receive(t) \/ ReceiverStops(t)
    PROVE  TypeOK'
<1>1. ASSUME NEW t \in Receivers, Receive(t) PROVE TypeOK'
  <2>1. t \in Threads /\ <<"packetEventQue">> \in Seq(Queues)
    BY ReaderFacts DEF Queues
  <2>2. PostsType /\ made' \in 0..MaxEvents
    BY <1>1, <2>1, MakesType DEF Receive, PostsType
  <2>3. QueType /\ PcType /\ LockType /\ stopCount' \in Nat
    BY <1>1 DEF Receive, queVars, stopVars, QueType, PcType, LockType, TypeOK
  <2>4. StopType
    BY <1>1, Zenon DEF Receive, stopVars, StopType, TypeOK
  <2> QED BY <2>2, <2>3, <2>4, NextType DEF CountType
<1>2. ASSUME NEW t \in Receivers, ReceiverStops(t) PROVE TypeOK'
  <2>1. PcType /\ CountType
    BY <1>2, ReaderFacts DEF ReceiverStops, Stops, Goes, PcType, CountType, TypeOK
  <2>2. QueType /\ PostsType /\ LockType
    BY <1>2 DEF ReceiverStops, queVars, QueType, PostsType, LockType, TypeOK
  <2>3. StopType
    BY <1>2, Zenon DEF ReceiverStops, StopType, TypeOK
  <2> QED BY <2>1, <2>2, <2>3, NextType
<1>3. ASSUME NEW sig \in Signals, Signal(sig) PROVE TypeOK'
  <2>1. PcType
    BY <1>3, ReaderFacts DEF Signal, Goes, PcType, TypeOK
  <2>2. QueType /\ PostsType /\ LockType /\ CountType
    BY <1>3 DEF Signal, queVars, QueType, PostsType, LockType, CountType, TypeOK
  <2>3. StopType
    BY <1>3, Zenon DEF Signal, StopType, TypeOK
  <2> QED BY <2>1, <2>2, <2>3, NextType
<1>4. CASE PostStops
  <2> DEFINE stops == [i \in 1..3 |-> [que |-> <<"packetEventQue", "brokerSendQue", "clientSendQue">>[i],
                                       event |-> "EtStop"]]
  <2>1. stops \in Seq([que : Queues, event : Events])
    BY DEF Queues, Events
  <2>2. posts' = [posts EXCEPT !["main"] = stops]
    BY <1>4 DEF PostStops
  <2> HIDE DEF stops
  <2>3. PostsType
    BY <2>1, <2>2 DEF PostsType, TypeOK
  <2>4. PcType
    BY <1>4 DEF PostStops, Goes, PcType, TypeOK
  <2>5. QueType /\ LockType /\ CountType
    BY <1>4 DEF PostStops, queVars, stopVars, QueType, LockType, CountType, TypeOK
  <2>6. StopType
    BY <1>4, Zenon DEF PostStops, stopVars, StopType, TypeOK
  <2> QED BY <2>3, <2>4, <2>5, <2>6, NextType
<1>5. CASE GatewayEnds
  <2>1. PcType
    BY <1>5 DEF GatewayEnds, Goes, PcType, TypeOK
  <2>2. QueType /\ PostsType /\ LockType /\ CountType
    BY <1>5 DEF GatewayEnds, queVars, stopVars, QueType, PostsType, LockType, CountType, TypeOK
  <2>3. StopType
    BY <1>5, Zenon DEF GatewayEnds, stopVars, StopType, TypeOK
  <2> QED BY <2>1, <2>2, <2>3, NextType
<1> QED BY <1>1, <1>2, <1>3, <1>4, <1>5 DEF MainStep

----------------------------------------------------------------------------
(* The mutex, the value read and the sleeping task *)

\* A step that puts nothing into a queue and is not made by a thread in post keeps what is
\* said of them, if nobody goes to sleep but where nothing is in the queue.
LEMMA QuietStep ==
    ASSUME TasksInv, NEW t \in Threads, ~Posting(t),
           UNCHANGED <<mutex, val>>,
           \A q \in Queues : sem'[q] = sem[q] \/ (sem[q] > 0 /\ t = Reader[q]),
           \A q \in Queues : que'[q] # <<>> => que[q] # <<>>,
           \A u \in Threads \ {t} : pc'[u] = pc[u] /\ posts'[u] = posts[u],
           pc'[t] \notin {"getvalue", "sem_post"},
           \A q \in Queues : pc'[t] = "sem_wait" /\ t = Reader[q] => que[q] = <<>>
    PROVE  MutexOK' /\ ValueOK' /\ NoEventSleeps'
<1>1. MutexOK'
  BY DEF TasksInv, MutexOK, Posting
<1>2. ValueOK'
  BY DEF TasksInv, ValueOK, At
<1>3. NoEventSleeps'
  <2> SUFFICES ASSUME NEW q \in Queues,
                      (At(Reader[q], "sem_wait") /\ que[q] # <<>> /\ sem[q] = 0)'
               PROVE  \E u \in Threads :
                          (mutex[q] = u /\ (At(u, "getvalue") \/ (At(u, "sem_post") /\ val[u] = 0)))'
    BY DEF NoEventSleeps
  <2>1. Reader[q] \in Threads
    BY ReaderFacts
  <2>2. Reader[q] # t /\ At(Reader[q], "sem_wait")
    BY <2>1 DEF At
  <2>3. PICK u \in Threads : mutex[q] = u /\ (At(u, "getvalue") \/ (At(u, "sem_post") /\ val[u] = 0))
    BY <2>2 DEF TasksInv, NoEventSleeps
  <2>4. u # t
    BY <2>3 DEF At, Posting
  <2> QED BY <2>3, <2>4 DEF At
<1> QED BY <1>1, <1>2, <1>3

LEMMA PostKeeps ==
    ASSUME TasksInv, NEW t \in Threads, PostStep(t)
    PROVE  MutexOK' /\ ValueOK' /\ NoEventSleeps'
<1> USE DEF TasksInv
<1>1. CASE PostFull(t)
  <2>1. ~Posting(t) /\ pc' = pc /\ pc[t] = "run"
    BY <1>1 DEF PostFull, At, Posting
  <2>2. \A u \in Threads \ {t} : posts'[u] = posts[u]
    BY <1>1 DEF PostFull, TypeOK
  <2> QED BY <1>1, <2>1, <2>2, QuietStep DEF PostFull, queVars
<1>2. CASE Post(t)
  <2> DEFINE q == Head(posts[t]).que
  <2>1. q \in Queues /\ posts[t] # <<>> /\ ~Posting(t)
    BY <1>2, PostsFacts DEF Post, At, Posting
  <2>2. mutex[q] = "none" /\ mutex' = [mutex EXCEPT ![q] = t] /\ pc' = [pc EXCEPT ![t] = "getvalue"]
        /\ UNCHANGED <<sem, posts, val>>
    BY <1>2 DEF Post, Goes
  <2>3. \A r \in Queues : r # q => que'[r] = que[r] /\ mutex'[r] = mutex[r]
    BY <1>2, <2>1 DEF Post, TypeOK
  <2>4. \A u \in Threads : u # t => pc'[u] = pc[u]
    BY <2>2 DEF TypeOK
  <2>5. pc'[t] = "getvalue" /\ mutex'[q] = t
    BY <2>1, <2>2 DEF TypeOK
  <2>7. posts[t] # <<>> /\ q = Head(posts[t]).que
    BY <2>1
  <2> HIDE DEF q
  <2>8. MutexOK'
    <3>1. \A u \in Threads : (Posting(u) => posts[u] # <<>>)'
      BY <2>2, <2>4, <2>7 DEF MutexOK, Posting
    <3>2. ASSUME NEW r \in Queues, NEW u \in Threads
          PROVE  (mutex[r] = u <=> Posting(u) /\ Head(posts[u]).que = r)'
      <4>1. CASE r = q
        <5>1. CASE u = t
          BY <4>1, <5>1, <2>2, <2>5, <2>7 DEF Posting
        <5>2. CASE u # t
          <6>1. ~(Posting(u) /\ Head(posts[u]).que = q)
            BY <2>1, <2>2, ReaderFacts DEF MutexOK
          <6> QED BY <4>1, <5>2, <6>1, <2>2, <2>4, <2>5 DEF Posting
        <5> QED BY <5>1, <5>2
      <4>2. CASE r # q
        BY <4>2, <2>1, <2>2, <2>3, <2>4, <2>5, <2>7 DEF MutexOK, Posting
      <4> QED BY <4>1, <4>2
    <3> QED BY <3>1, <3>2 DEF MutexOK
  <2>9. ValueOK'
    BY <2>2, <2>3, <2>4, <2>5, <2>1 DEF ValueOK, At
  <2>10. NoEventSleeps'
    <3> SUFFICES ASSUME NEW r \in Queues,
                        (At(Reader[r], "sem_wait") /\ que[r] # <<>> /\ sem[r] = 0)'
                 PROVE  \E u \in Threads :
                            (mutex[r] = u /\ (At(u, "getvalue") \/ (At(u, "sem_post") /\ val[u] = 0)))'
      BY DEF NoEventSleeps
    <3>1. CASE r = q
      BY <3>1, <2>5 DEF At
    <3>2. CASE r # q
      <4>1. At(Reader[r], "sem_wait")
        BY <2>4, <2>5, ReaderFacts DEF At
      <4>2. PICK u \in Threads : mutex[r] = u /\ (At(u, "getvalue") \/ (At(u, "sem_post") /\ val[u] = 0))
        BY <3>2, <4>1, <2>2, <2>3 DEF NoEventSleeps
      <4>3. u # t
        BY <4>2, <2>1 DEF Posting, At
      <4> QED BY <3>2, <4>2, <4>3, <2>2, <2>3, <2>4 DEF At
    <3> QED BY <3>1, <3>2
  <2> QED BY <2>8, <2>9, <2>10
<1>3. CASE GetValue(t)
  <2> DEFINE q == Head(posts[t]).que
  <2>1. q \in Queues /\ mutex[q] = t /\ Posting(t)
    BY <1>3, PostsFacts DEF GetValue, MutexOK, Posting, At
  <2>2. val' = [val EXCEPT ![t] = sem[q]] /\ pc' = [pc EXCEPT ![t] = "sem_post"]
        /\ UNCHANGED <<que, sem, mutex, posts>>
    BY <1>3 DEF GetValue, Goes, queVars
  <2>3. \A u \in Threads : u # t => pc'[u] = pc[u] /\ val'[u] = val[u]
    BY <2>2 DEF TypeOK
  <2>4. pc'[t] = "sem_post" /\ val'[t] = sem[q]
    BY <2>2 DEF TypeOK
  <2>5. \A r \in Queues : mutex[r] = t => r = q
    BY <2>1 DEF MutexOK
  <2> HIDE DEF q
  <2>6. MutexOK'
    BY <2>1, <2>2, <2>3, <2>4 DEF MutexOK, Posting
  <2>7. ValueOK'
    BY <2>1, <2>2, <2>3, <2>4, <2>5 DEF ValueOK, At
  <2>8. NoEventSleeps'
    <3> SUFFICES ASSUME NEW r \in Queues,
                        (At(Reader[r], "sem_wait") /\ que[r] # <<>> /\ sem[r] = 0)'
                 PROVE  \E u \in Threads :
                            (mutex[r] = u /\ (At(u, "getvalue") \/ (At(u, "sem_post") /\ val[u] = 0)))'
      BY DEF NoEventSleeps
    <3>1. At(Reader[r], "sem_wait") /\ que[r] # <<>> /\ sem[r] = 0
      BY <2>2, <2>3, <2>4, ReaderFacts DEF At
    <3>2. PICK u \in Threads : mutex[r] = u /\ (At(u, "getvalue") \/ (At(u, "sem_post") /\ val[u] = 0))
      BY <3>1 DEF NoEventSleeps
    <3>3. CASE u = t
      BY <3>1, <3>2, <3>3, <2>2, <2>4, <2>5 DEF At
    <3>4. CASE u # t
      BY <3>2, <3>4, <2>2, <2>3 DEF At
    <3> QED BY <3>3, <3>4
  <2> QED BY <2>6, <2>7, <2>8
<1>4. CASE SemPost(t)
  <2> DEFINE q == Head(posts[t]).que
  <2>1. q \in Queues /\ mutex[q] = t /\ Posting(t) /\ At(t, "sem_post")
    BY <1>4, PostsFacts DEF SemPost, MutexOK, Posting, At
  <2>2. /\ sem' = IF val[t] = 0 THEN [sem EXCEPT ![q] = @ + 1] ELSE sem
        /\ mutex' = [mutex EXCEPT ![q] = "none"] /\ pc' = [pc EXCEPT ![t] = "run"]
        /\ posts' = [posts EXCEPT ![t] = Tail(@)] /\ val' = [val EXCEPT ![t] = 0]
        /\ UNCHANGED que
    BY <1>4 DEF SemPost, Goes
  <2>3. \A u \in Threads : u # t => pc'[u] = pc[u] /\ posts'[u] = posts[u] /\ val'[u] = val[u]
    BY <2>2 DEF TypeOK
  <2>4. \A r \in Queues : r # q => mutex'[r] = mutex[r] /\ sem'[r] = sem[r]
    BY <2>2 DEF TypeOK
  <2>5. pc'[t] = "run" /\ mutex'[q] = "none" /\ "none" \notin Threads
    BY <2>1, <2>2, ReaderFacts DEF TypeOK
  <2>6. \A r \in Queues : mutex[r] = t => r = q
    BY <2>1 DEF MutexOK
  <2>7. val[t] = 0 => sem'[q] = 1
    BY <2>1, <2>2 DEF ValueOK, TypeOK
  <2>8. \A u \in Threads : u # t => ~(Posting(u) /\ Head(posts[u]).que = q)
    BY <2>1 DEF MutexOK
  <2> HIDE DEF q
  <2>9. MutexOK'
    <3>1. \A u \in Threads : (Posting(u) => posts[u] # <<>>)'
      BY <2>3, <2>5 DEF MutexOK, Posting
    <3>2. ASSUME NEW r \in Queues, NEW u \in Threads
          PROVE  (mutex[r] = u <=> Posting(u) /\ Head(posts[u]).que = r)'
      <4>1. CASE r = q
        <5>1. ~(mutex'[r] = u)
          BY <4>1, <2>5
        <5>2. CASE u = t
          BY <5>1, <5>2, <2>5 DEF Posting
        <5>3. CASE u # t
          BY <4>1, <5>1, <5>3, <2>3, <2>8 DEF Posting
        <5> QED BY <5>2, <5>3
      <4>2. CASE r # q
        BY <4>2, <2>3, <2>4, <2>5, <2>6 DEF MutexOK, Posting
      <4> QED BY <4>1, <4>2
    <3> QED BY <3>1, <3>2 DEF MutexOK
  <2>10. ValueOK'
    BY <2>2, <2>3, <2>4, <2>5 DEF ValueOK, At
  <2>11. NoEventSleeps'
    <3> SUFFICES ASSUME NEW r \in Queues,
                        (At(Reader[r], "sem_wait") /\ que[r] # <<>> /\ sem[r] = 0)'
                 PROVE  \E u \in Threads :
                            (mutex[r] = u /\ (At(u, "getvalue") \/ (At(u, "sem_post") /\ val[u] = 0)))'
      BY DEF NoEventSleeps
    <3>1. At(Reader[r], "sem_wait") /\ que[r] # <<>>
      BY <2>2, <2>3, <2>5, ReaderFacts DEF At
    <3>2. r # q
      <4>1. SUFFICES ASSUME r = q PROVE FALSE
        OBVIOUS
      <4>2. val[t] # 0 /\ sem[q] = 0
        BY <4>1, <2>2, <2>7
      <4>3. PICK u \in Threads : mutex[q] = u /\ (At(u, "getvalue") \/ (At(u, "sem_post") /\ val[u] = 0))
        BY <4>1, <4>2, <3>1 DEF NoEventSleeps
      <4> QED BY <4>2, <4>3, <2>1 DEF At
    <3>3. PICK u \in Threads : mutex[r] = u /\ (At(u, "getvalue") \/ (At(u, "sem_post") /\ val[u] = 0))
      BY <3>1, <3>2, <2>4 DEF NoEventSleeps
    <3>4. u # t
      BY <3>2, <3>3, <2>6
    <3> QED BY <3>2, <3>3, <3>4, <2>2, <2>3, <2>4 DEF At
  <2> QED BY <2>9, <2>10, <2>11
<1> QED BY <1>1, <1>2, <1>3, <1>4 DEF PostStep

LEMMA ReaderKeeps ==
    ASSUME TasksInv, NEW q \in Queues, ReaderStep(q)
    PROVE  MutexOK' /\ ValueOK' /\ NoEventSleeps'
<1> USE DEF TasksInv
<1> DEFINE t == Reader[q]
<1>0. t \in Threads /\ \A r \in Queues : Reader[r] = t => r = q
  BY ReaderFacts
<1> HIDE DEF t
<1>1. CASE ReadSize(q)
  <2>1. ~Posting(t) /\ UNCHANGED <<que, sem, mutex, val, posts>>
        /\ pc' = [pc EXCEPT ![t] = IF que[q] = <<>> THEN "sem_wait" ELSE "lock"]
    BY <1>1 DEF t, ReadSize, AtLoop, At, Posting, Goes, queVars
  <2>2. (\A u \in Threads \ {t} : pc'[u] = pc[u]) /\ pc'[t] = IF que[q] = <<>> THEN "sem_wait" ELSE "lock"
    BY <1>0, <2>1 DEF TypeOK
  <2> QED BY <1>0, <2>1, <2>2, QuietStep
<1>2. CASE SemWait(q)
  <2>1. ~Posting(t) /\ UNCHANGED <<que, mutex, val, posts>> /\ pc' = [pc EXCEPT ![t] = "lock"]
        /\ sem[q] > 0 /\ sem' = [sem EXCEPT ![q] = @ - 1]
    BY <1>2 DEF t, SemWait, At, Posting, Goes
  <2>2. (\A u \in Threads \ {t} : pc'[u] = pc[u]) /\ pc'[t] = "lock"
    BY <1>0, <2>1 DEF TypeOK
  <2>3. \A r \in Queues : sem'[r] = sem[r] \/ (sem[r] > 0 /\ t = Reader[r])
    BY <2>1 DEF t, TypeOK
  <2> QED BY <1>0, <2>1, <2>2, <2>3, QuietStep
<1>3. CASE Nothing(q)
  <2>1. ~Posting(t) /\ UNCHANGED <<que, sem, mutex, val>> /\ pc' = [pc EXCEPT ![t] = "run"]
    BY <1>3 DEF t, Nothing, At, Posting, Goes, queVars
  <2>2. (\A u \in Threads \ {t} : pc'[u] = pc[u]) /\ pc'[t] = "run"
    BY <1>0, <2>1 DEF TypeOK
  <2>3. \A u \in Threads \ {t} : posts'[u] = posts[u]
    BY <1>0, <1>3 DEF t, Nothing, Makes, TypeOK
  <2> QED BY <1>0, <2>1, <2>2, <2>3, QuietStep
<1>4. CASE Handle(q)
  <2>1. ~Posting(t) /\ UNCHANGED <<sem, mutex, val>> /\ pc' = [pc EXCEPT ![t] = "run"]
        /\ que[q] # <<>> /\ que' = [que EXCEPT ![q] = Tail(@)]
    BY <1>4 DEF t, Handle, At, Posting, Goes
  <2>2. (\A u \in Threads \ {t} : pc'[u] = pc[u]) /\ pc'[t] = "run"
    BY <1>0, <2>1 DEF TypeOK
  <2>3. \A u \in Threads \ {t} : posts'[u] = posts[u]
    BY <1>0, <1>4 DEF t, Handle, Makes, TypeOK
  <2>4. \A r \in Queues : que'[r] # <<>> => que[r] # <<>>
    BY <2>1 DEF TypeOK
  <2> QED BY <1>0, <2>1, <2>2, <2>3, <2>4, QuietStep
<1>5. CASE HandleStop(q)
  <2>1. ~Posting(t) /\ UNCHANGED <<sem, mutex, val, posts>> /\ pc' = [pc EXCEPT ![t] = "stopped"]
        /\ que[q] # <<>> /\ que' = [que EXCEPT ![q] = Tail(@)]
    BY <1>5 DEF t, HandleStop, Stops, At, Posting, Goes
  <2>2. (\A u \in Threads \ {t} : pc'[u] = pc[u]) /\ pc'[t] = "stopped"
    BY <1>0, <2>1 DEF TypeOK
  <2>3. \A r \in Queues : que'[r] # <<>> => que[r] # <<>>
    BY <2>1 DEF TypeOK
  <2> QED BY <1>0, <2>1, <2>2, <2>3, QuietStep
<1>6. CASE q = "packetEventQue" /\ TimedOut
  <2>1. ~Posting(t) /\ UNCHANGED <<que, sem, mutex, val, posts>> /\ pc' = [pc EXCEPT ![t] = "lock"]
    BY <1>6, ReaderFacts DEF t, TimedOut, At, Posting, Goes, queVars
  <2>2. (\A u \in Threads \ {t} : pc'[u] = pc[u]) /\ pc'[t] = "lock"
    BY <1>0, <2>1 DEF TypeOK
  <2> QED BY <1>0, <2>1, <2>2, QuietStep
<1> QED BY <1>1, <1>2, <1>3, <1>4, <1>5, <1>6 DEF ReaderStep

\* Nothing happens to the queues and the threads.
LEMMA StutterKeeps ==
    ASSUME TasksInv, UNCHANGED <<que, sem, mutex, pc, posts, val>>
    PROVE  MutexOK' /\ ValueOK' /\ NoEventSleeps'
BY DEF TasksInv, MutexOK, ValueOK, NoEventSleeps, Posting, At

LEMMA OtherKeeps ==
    ASSUME TasksInv, \/ \E sig \in Signals : Signal(sig)
                     \/ MainStep
                     \/ \E t \in Receivers : Receive(t) \/ ReceiverStops(t)
    PROVE  MutexOK' /\ ValueOK' /\ NoEventSleeps'
<1> USE DEF TasksInv
<1>1. ASSUME NEW t \in Receivers, Receive(t) PROVE MutexOK' /\ ValueOK' /\ NoEventSleeps'
  <2>1. ~Posting(t) /\ UNCHANGED <<que, sem, mutex, pc, val>> /\ pc[t] = "run" /\ t \in Threads
    BY <1>1, ReaderFacts DEF Receive, AtLoop, At, Posting, queVars
  <2>2. \A u \in Threads \ {t} : posts'[u] = posts[u]
    BY <1>1, <2>1 DEF Receive, Makes, TypeOK
  <2> QED BY <2>1, <2>2, QuietStep
<1>2. ASSUME NEW t \in Receivers, ReceiverStops(t) PROVE MutexOK' /\ ValueOK' /\ NoEventSleeps'
  <2>1. ~Posting(t) /\ UNCHANGED <<que, sem, mutex, posts, val>> /\ t \in Threads
        /\ pc' = [pc EXCEPT ![t] = "stopped"]
    BY <1>2, ReaderFacts DEF ReceiverStops, Stops, Goes, AtLoop, At, Posting, queVars
  <2>2. (\A u \in Threads \ {t} : pc'[u] = pc[u]) /\ pc'[t] = "stopped"
    BY <2>1 DEF TypeOK
  <2> QED BY <2>1, <2>2, QuietStep
<1>3. ASSUME NEW sig \in Signals, Signal(sig) PROVE MutexOK' /\ ValueOK' /\ NoEventSleeps'
  <2>1. CASE UNCHANGED pc
    BY <1>3, <2>1, StutterKeeps DEF Signal, queVars
  <2>2. ASSUME NEW t \in Readers, At(t, "sem_wait"), Goes(t, "lock")
        PROVE  MutexOK' /\ ValueOK' /\ NoEventSleeps'
    <3>1. ~Posting(t) /\ t \in Threads /\ pc' = [pc EXCEPT ![t] = "lock"]
      BY <2>2, ReaderFacts DEF At, Posting, Goes
    <3>2. (\A u \in Threads \ {t} : pc'[u] = pc[u]) /\ pc'[t] = "lock"
      BY <3>1 DEF TypeOK
    <3> QED BY <1>3, <3>1, <3>2, QuietStep DEF Signal, queVars
  <2> QED BY <1>3, <2>1, <2>2 DEF Signal
<1>4. CASE PostStops
  <2>1. ~Posting("main") /\ "main" \in Threads /\ UNCHANGED <<que, sem, mutex, val>>
        /\ pc' = [pc EXCEPT !["main"] = "run"]
    BY <1>4, ReaderFacts DEF PostStops, At, Posting, Goes, queVars
  <2>2. (\A u \in Threads \ {"main"} : pc'[u] = pc[u]) /\ pc'["main"] = "run"
    BY <2>1 DEF TypeOK
  <2>3. \A u \in Threads \ {"main"} : posts'[u] = posts[u]
    BY <1>4 DEF PostStops, TypeOK
  <2> QED BY <2>1, <2>2, <2>3, QuietStep
<1>5. CASE GatewayEnds
  <2>1. ~Posting("main") /\ "main" \in Threads /\ UNCHANGED <<que, sem, mutex, posts, val>>
        /\ pc' = [pc EXCEPT !["main"] = "stopped"]
    BY <1>5, ReaderFacts DEF GatewayEnds, AtLoop, At, Posting, Goes, queVars
  <2>2. (\A u \in Threads \ {"main"} : pc'[u] = pc[u]) /\ pc'["main"] = "stopped"
    BY <2>1 DEF TypeOK
  <2> QED BY <2>1, <2>2, QuietStep
<1> QED BY <1>1, <1>2, <1>3, <1>4, <1>5 DEF MainStep

LEMMA InvStep == TasksInv /\ [Next]_vars => TasksInv'
<1> SUFFICES ASSUME TasksInv, [Next]_vars PROVE TasksInv'
  OBVIOUS
<1>1. ASSUME NEW t \in Threads, PostStep(t) PROVE TasksInv'
  BY <1>1, PostType, PostKeeps DEF TasksInv
<1>2. ASSUME NEW q \in Queues, ReaderStep(q) PROVE TasksInv'
  BY <1>2, ReaderType, ReaderKeeps DEF TasksInv
<1>3. CASE \/ \E sig \in Signals : Signal(sig)
           \/ MainStep
           \/ \E t \in Receivers : Receive(t) \/ ReceiverStops(t)
  BY <1>3, OtherType, OtherKeeps DEF TasksInv
<1>4. CASE UNCHANGED vars
  <2>1. TypeOK'
    BY <1>4 DEF TasksInv, TypeOK, vars, queVars, threadVars, stopVars
  <2> QED BY <1>4, <2>1, StutterKeeps DEF TasksInv, vars, queVars, threadVars
<1> QED BY <1>1, <1>2, <1>3, <1>4 DEF Next

LEMMA InvAlways == Spec => []TasksInv
<1>1. Init => TasksInv
  BY InitInv
<1>2. TasksInv /\ [Next]_vars => TasksInv'
  BY InvStep
<1> QED BY <1>1, <1>2, PTL DEF Spec

\* The variables have their types: EventQue's semaphore is 0 or 1, and packetEventQue holds no
\* more than its maximum.
THEOREM TypeCorrect == Spec => []TypeOK
<1>1. TasksInv => TypeOK
  BY DEF TasksInv
<1> QED BY <1>1, InvAlways, PTL

\* No task sleeps in EventQue::wait or timedwait while an event is in its queue, unless the
\* thread that has put it there is about to wake it.
THEOREM NoWakeupLost == Spec => []NoEventSleeps
<1>1. TasksInv => NoEventSleeps
  BY DEF TasksInv
<1> QED BY <1>1, InvAlways, PTL

----------------------------------------------------------------------------
(* Each EventQue is a Mailbox. *)

\* What may happen to the queue q in a step
BoxTake(q) ==
    /\ que[q] # <<>> /\ ~At(Reader[q], "stopped")
    /\ que'[q] = Tail(que[q])

BoxPut(q) ==
    /\ \E e \in Events : que'[q] = Append(que[q], e)
    /\ At(Reader[q], "stopped")' <=> At(Reader[q], "stopped")

BoxStutter(q) ==
    /\ que'[q] = que[q]
    /\ At(Reader[q], "stopped")' <=> At(Reader[q], "stopped")

LEMMA BoxStep ==
    ASSUME TypeOK, [Next]_vars, NEW q \in Queues
    PROVE  BoxTake(q) \/ BoxPut(q) \/ BoxStutter(q)
<1> DEFINE Goal == BoxTake(q) \/ BoxPut(q) \/ BoxStutter(q)
<1>0. Reader[q] \in Threads /\ Reader[q] # "main" /\ Reader[q] \notin Receivers
  BY ReaderFacts
<1>1. ASSUME NEW t \in Threads, PostStep(t) PROVE Goal
  <2>1. CASE PostFull(t)
    BY <2>1 DEF PostFull, queVars, BoxStutter, At
  <2>2. CASE Post(t)
    <3> DEFINE r == Head(posts[t]).que
               e == Head(posts[t]).event
    <3>1. r \in Queues /\ e \in Events /\ pc[t] = "run"
      BY <2>2, PostsFacts DEF Post, At
    <3>2. que' = [que EXCEPT ![r] = Append(@, e)] /\ pc' = [pc EXCEPT ![t] = "getvalue"]
      BY <2>2 DEF Post, Goes
    <3> HIDE DEF r, e
    <3>3. At(Reader[q], "stopped")' <=> At(Reader[q], "stopped")
      BY <1>0, <3>1, <3>2 DEF At, TypeOK
    <3>4. CASE r = q
      BY <3>1, <3>2, <3>3, <3>4 DEF BoxPut, TypeOK
    <3>5. CASE r # q
      BY <3>2, <3>3, <3>5 DEF BoxStutter, TypeOK
    <3> QED BY <3>4, <3>5
  <2>3. CASE GetValue(t)
    BY <1>0, <2>3 DEF GetValue, Goes, queVars, BoxStutter, At, TypeOK
  <2>4. CASE SemPost(t)
    BY <1>0, <2>4 DEF SemPost, Goes, BoxStutter, At, TypeOK
  <2> QED BY <1>1, <2>1, <2>2, <2>3, <2>4 DEF PostStep
<1>2. ASSUME NEW r \in Queues, ReaderStep(r) PROVE Goal
  <2>0. Reader[r] \in Threads /\ (r # q => Reader[r] # Reader[q])
    BY ReaderFacts
  <2>1. CASE ReadSize(r)
    BY <1>0, <2>0, <2>1 DEF ReadSize, AtLoop, Goes, queVars, BoxStutter, At, TypeOK
  <2>2. CASE SemWait(r)
    BY <1>0, <2>0, <2>2 DEF SemWait, Goes, BoxStutter, At, TypeOK
  <2>3. CASE Nothing(r)
    BY <1>0, <2>0, <2>3 DEF Nothing, Goes, queVars, BoxStutter, At, TypeOK
  <2>4. CASE Handle(r)
    <3>1. que[r] # <<>> /\ que' = [que EXCEPT ![r] = Tail(@)] /\ pc[Reader[r]] = "lock"
          /\ pc' = [pc EXCEPT ![Reader[r]] = "run"]
      BY <2>4 DEF Handle, At, Goes
    <3>2. CASE r = q
      BY <3>1, <3>2 DEF BoxTake, At, TypeOK
    <3>3. CASE r # q
      BY <1>0, <2>0, <3>1, <3>3 DEF BoxStutter, At, TypeOK
    <3> QED BY <3>2, <3>3
  <2>5. CASE HandleStop(r)
    <3>1. que[r] # <<>> /\ que' = [que EXCEPT ![r] = Tail(@)] /\ pc[Reader[r]] = "lock"
          /\ pc' = [pc EXCEPT ![Reader[r]] = "stopped"]
      BY <2>5 DEF HandleStop, Stops, At, Goes
    <3>2. CASE r = q
      BY <3>1, <3>2 DEF BoxTake, At, TypeOK
    <3>3. CASE r # q
      BY <1>0, <2>0, <3>1, <3>3 DEF BoxStutter, At, TypeOK
    <3> QED BY <3>2, <3>3
  <2>6. CASE TimedOut
    BY <1>0, <2>6, ReaderFacts DEF TimedOut, Goes, queVars, BoxStutter, At, TypeOK
  <2> QED BY <1>2, <2>1, <2>2, <2>3, <2>4, <2>5, <2>6 DEF ReaderStep
<1>3. ASSUME NEW t \in Receivers, Receive(t) \/ ReceiverStops(t) PROVE Goal
  <2>1. CASE Receive(t)
    BY <2>1 DEF Receive, queVars, BoxStutter, At
  <2>2. CASE ReceiverStops(t)
    BY <1>0, <2>2 DEF ReceiverStops, Stops, Goes, queVars, BoxStutter, At, TypeOK
  <2> QED BY <1>3, <2>1, <2>2
<1>4. ASSUME NEW sig \in Signals, Signal(sig) PROVE Goal
  <2>1. que' = que
    BY <1>4 DEF Signal, queVars
  <2>2. At(Reader[q], "stopped")' <=> At(Reader[q], "stopped")
    <3>1. CASE UNCHANGED pc
      BY <3>1 DEF At
    <3>2. ASSUME NEW t \in Readers, At(t, "sem_wait"), Goes(t, "lock")
          PROVE  At(Reader[q], "stopped")' <=> At(Reader[q], "stopped")
      BY <1>0, <3>2 DEF At, Goes, TypeOK
    <3> QED BY <1>4, <3>1, <3>2 DEF Signal
  <2> QED BY <2>1, <2>2 DEF BoxStutter
<1>5. CASE MainStep
  BY <1>0, <1>5 DEF MainStep, PostStops, GatewayEnds, Goes, queVars, BoxStutter, At, TypeOK
<1>6. CASE UNCHANGED vars
  BY <1>6 DEF vars, queVars, threadVars, BoxStutter, At
<1> QED BY <1>1, <1>2, <1>3, <1>4, <1>5, <1>6 DEF Next

\* packetEventQue, on which all but main post: PacketHandleTask is given its events in the
\* order in which they were put there, each of them once.
THEOREM PacketQueIsMailbox == Spec => PacketBox!Spec
<1>1. Init => PacketBox!Init
  BY ReaderFacts DEF Init, PacketBox!Init, At, Queues, Threads, Readers, Reader
<1>2. TypeOK /\ [Next]_vars => [PacketBox!Next]_(PacketBox!vars)
  <2> SUFFICES ASSUME TypeOK, [Next]_vars PROVE [PacketBox!Next]_(PacketBox!vars)
    OBVIOUS
  <2>1. "packetEventQue" \in Queues /\ Reader["packetEventQue"] = "PacketHandleTask"
    BY DEF Queues, Reader
  <2>2. BoxTake("packetEventQue") \/ BoxPut("packetEventQue") \/ BoxStutter("packetEventQue")
    BY <2>1, BoxStep
  <2> QED BY <2>1, <2>2 DEF BoxTake, BoxPut, BoxStutter, At, PacketBox!Next, PacketBox!Take,
                            PacketBox!Put, PacketBox!vars
<1> QED BY <1>1, <1>2, TypeCorrect, PTL DEF Spec, PacketBox!Spec

\* brokerSendQue: BrokerSendTask is given its events in their order, each of them once.
THEOREM BrokerQueIsMailbox == Spec => BrokerBox!Spec
<1>1. Init => BrokerBox!Init
  BY DEF Init, BrokerBox!Init, At, Queues, Threads, Readers, Reader
<1>2. TypeOK /\ [Next]_vars => [BrokerBox!Next]_(BrokerBox!vars)
  <2> SUFFICES ASSUME TypeOK, [Next]_vars PROVE [BrokerBox!Next]_(BrokerBox!vars)
    OBVIOUS
  <2>1. "brokerSendQue" \in Queues /\ Reader["brokerSendQue"] = "BrokerSendTask"
    BY DEF Queues, Reader
  <2>2. BoxTake("brokerSendQue") \/ BoxPut("brokerSendQue") \/ BoxStutter("brokerSendQue")
    BY <2>1, BoxStep
  <2> QED BY <2>1, <2>2 DEF BoxTake, BoxPut, BoxStutter, At, BrokerBox!Next, BrokerBox!Take,
                            BrokerBox!Put, BrokerBox!vars
<1> QED BY <1>1, <1>2, TypeCorrect, PTL DEF Spec, BrokerBox!Spec

\* clientSendQue: ClientSendTask is given its events in their order, each of them once.
THEOREM ClientQueIsMailbox == Spec => ClientBox!Spec
<1>1. Init => ClientBox!Init
  BY DEF Init, ClientBox!Init, At, Queues, Threads, Readers, Reader
<1>2. TypeOK /\ [Next]_vars => [ClientBox!Next]_(ClientBox!vars)
  <2> SUFFICES ASSUME TypeOK, [Next]_vars PROVE [ClientBox!Next]_(ClientBox!vars)
    OBVIOUS
  <2>1. "clientSendQue" \in Queues /\ Reader["clientSendQue"] = "ClientSendTask"
    BY DEF Queues, Reader
  <2>2. BoxTake("clientSendQue") \/ BoxPut("clientSendQue") \/ BoxStutter("clientSendQue")
    BY <2>1, BoxStep
  <2> QED BY <2>1, <2>2 DEF BoxTake, BoxPut, BoxStutter, At, ClientBox!Next, ClientBox!Take,
                            ClientBox!Put, ClientBox!vars
<1> QED BY <1>1, <1>2, TypeCorrect, PTL DEF Spec, ClientBox!Spec
==============================================================================
