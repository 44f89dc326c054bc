----------------------------- MODULE TesterProofs -----------------------------
(***************************************************************************)
(* What holds of the gateway tester's client library for any topics, any   *)
(* tests and any number of faults: the variables have their types, what it *)
(* reports as published was passed on to the broker, and the broker has    *)
(* the subscriptions the library was told it has and that are wanted.      *)
(***************************************************************************)
EXTENDS TesterSystem, WellFoundedInduction, SequenceTheorems, TLAPS

----------------------------------------------------------------------------
(* Sequences. *)

\* What is in a sequence.
Elements(s) == {s[i] : i \in 1..Len(s)}

LEMMA HeadElement ==
    ASSUME NEW S, NEW s \in Seq(S), s # <<>>
    PROVE  /\ Head(s) \in Elements(s) /\ Head(s) \in S
           /\ Tail(s) \in Seq(S) /\ Elements(Tail(s)) \subseteq Elements(s)
<1>1. Len(s) \in Nat /\ Len(s) > 0 /\ Head(s) = s[1]
  OBVIOUS
<1>2. Head(s) \in Elements(s)
  BY <1>1 DEF Elements
<1>3. /\ Head(s) \in S /\ Tail(s) \in Seq(S) /\ Len(Tail(s)) = Len(s) - 1
      /\ \A i \in 1..Len(Tail(s)) : Tail(s)[i] = s[i + 1]
  BY HeadTailProperties
<1>4. ASSUME NEW i \in 1..Len(Tail(s)) PROVE Tail(s)[i] \in Elements(s)
  BY <1>1, <1>3 DEF Elements
<1> QED
  BY <1>2, <1>3, <1>4 DEF Elements

LEMMA ConcatElements ==
    ASSUME NEW S, NEW s \in Seq(S), NEW t \in Seq(S)
    PROVE  s \o t \in Seq(S) /\ Elements(s \o t) = Elements(s) \cup Elements(t)
<1>1. /\ s \o t \in Seq(S) /\ Len(s \o t) = Len(s) + Len(t)
      /\ \A i \in 1..Len(s) + Len(t) : (s \o t)[i] = IF i <= Len(s) THEN s[i] ELSE t[i - Len(s)]
  BY ConcatProperties
<1>2. Len(s) \in Nat /\ Len(t) \in Nat
  OBVIOUS
<1>3. ASSUME NEW i \in 1..Len(s) + Len(t)
      PROVE  (s \o t)[i] \in Elements(s) \cup Elements(t)
  <2>1. CASE i <= Len(s)
    BY <1>1, <1>2, <2>1 DEF Elements
  <2>2. CASE i > Len(s)
    <3>1. i - Len(s) \in 1..Len(t) /\ (s \o t)[i] = t[i - Len(s)]
      BY <1>1, <1>2, <2>2
    <3> QED
      BY <3>1 DEF Elements
  <2> QED
    BY <1>2, <2>1, <2>2
<1>4. ASSUME NEW i \in 1..Len(s)
      PROVE  s[i] \in Elements(s \o t)
  <2>1. i \in 1..Len(s) + Len(t) /\ (s \o t)[i] = s[i]
    BY <1>1, <1>2
  <2> QED
    BY <1>1, <2>1 DEF Elements
<1>5. ASSUME NEW i \in 1..Len(t)
      PROVE  t[i] \in Elements(s \o t)
  <2>1. i + Len(s) \in 1..Len(s) + Len(t) /\ (s \o t)[i + Len(s)] = t[i]
    BY <1>1, <1>2
  <2> QED
    BY <1>1, <2>1 DEF Elements
<1>6. Elements(s \o t) \subseteq Elements(s) \cup Elements(t)
  BY <1>1, <1>3 DEF Elements
<1>7. Elements(s) \cup Elements(t) \subseteq Elements(s \o t)
  <2>1. Elements(s) \subseteq Elements(s \o t)
    BY <1>4 DEF Elements
  <2>2. Elements(t) \subseteq Elements(s \o t)
    BY <1>5 DEF Elements
  <2> QED
    BY <2>1, <2>2
<1> QED
  BY <1>1, <1>6, <1>7

LEMMA FewElements ==
    /\ Elements(<<>>) = {}
    /\ \A a : Elements(<<a>>) = {a}
BY DEF Elements

LEMMA WithoutElement ==
    ASSUME NEW S, NEW s \in Seq(S), NEW i \in 1..Len(s)
    PROVE  /\ RemoveAt(s, i) \in Seq(S) /\ Len(RemoveAt(s, i)) = Len(s) - 1
           /\ Elements(RemoveAt(s, i)) \subseteq Elements(s)
           /\ \A j \in 1..Len(s) - 1 : RemoveAt(s, i)[j] = IF j < i THEN s[j] ELSE s[j + 1]
<1> DEFINE before == SubSeq(s, 1, i - 1)
           after  == SubSeq(s, i + 1, Len(s))
<1>1. Len(s) \in Nat /\ i \in Nat /\ i >= 1 /\ i <= Len(s)
  OBVIOUS
<1>2. /\ before \in Seq(S) /\ Len(before) = i - 1
      /\ \A j \in 1..i - 1 : before[j] = s[j]
  BY <1>1, SubSeqProperties
<1>3. after \in Seq(S) /\ Len(after) = Len(s) - i
  BY <1>1, SubSeqProperties
<1>4. \A j \in 1..Len(s) - i : after[j] = s[j + i]
  BY <1>1, SubSeqProperties
<1>5. RemoveAt(s, i) = before \o after
  BY DEF RemoveAt
<1> HIDE DEF before, after
<1>6. /\ before \o after \in Seq(S) /\ Len(before \o after) = Len(s) - 1
  BY <1>1, <1>2, <1>3
<1>7. \A j \in 1..Len(s) - 1 : (before \o after)[j] = IF j < i THEN s[j] ELSE s[j + 1]
  <2> SUFFICES ASSUME NEW j \in 1..Len(s) - 1
               PROVE  (before \o after)[j] = IF j < i THEN s[j] ELSE s[j + 1]
    OBVIOUS
  <2>1. CASE j < i
    BY <1>1, <1>2, <1>3, <2>1
  <2>2. CASE j >= i
    <3>1. j - (i - 1) \in 1..Len(s) - i /\ (before \o after)[j] = after[j - (i - 1)]
      BY <1>1, <1>2, <1>3, <2>2
    <3>2. after[j - (i - 1)] = s[j - (i - 1) + i]
      BY <1>4, <3>1
    <3>3. j - (i - 1) + i = j + 1
      BY <1>1
    <3> QED
      BY <2>2, <3>1, <3>2, <3>3
  <2>3. j < i \/ j >= i
    BY <1>1
  <2> QED
    BY <2>1, <2>2, <2>3
<1>8. ASSUME NEW j \in 1..Len(s) - 1 PROVE (before \o after)[j] \in Elements(s)
  <2>1. j \in 1..Len(s) /\ j + 1 \in 1..Len(s)
    BY <1>1
  <2> QED
    BY <1>7, <2>1 DEF Elements
<1> QED
  BY <1>1, <1>5, <1>6, <1>7, <1>8 DEF Elements

\* The first element of a kind, or 0.
LEMMA LeastOf ==
    ASSUME NEW n \in Nat, NEW I, I \subseteq 1..n, I # {}
    PROVE  Min(I) \in I
<1>1. IsWellFoundedOn(OpToRel(<, Nat), Nat)
  BY NatLessThanWellFounded
<1>2. PICK x \in I : \A y \in I : <<y, x>> \notin OpToRel(<, Nat)
  <2>1. I \subseteq Nat
    OBVIOUS
  <2> QED
    BY <1>1, <2>1, WFMin
<1>3. \A y \in I : x <= y
  <2>1. \A y \in I : y \in Nat /\ x \in Nat
    OBVIOUS
  <2>2. \A y \in I : ~(y < x)
    BY <1>2, <2>1 DEF OpToRel
  <2> QED
    BY <2>1, <2>2
<1>4. \E y \in I : \A z \in I : y =< z
  BY <1>3
<1> QED
  BY <1>4 DEF Min

LEMMA ElementFound ==
    ASSUME ManagersTypeOK, NEW type, NEW topic, NEW msgID
    PROVE  /\ WithId(msgID) \in 0..Len(subs)
           /\ WithId(msgID) # 0 => subs[WithId(msgID)].msgID = msgID
           /\ Element(type, topic) \in 0..Len(subs)
           /\ Element(type, topic) # 0 => subs[Element(type, topic)].topic = topic
<1>1. Len(subs) \in Nat
  BY DEF ManagersTypeOK
<1> DEFINE I == {i \in 1..Len(subs) : subs[i].msgID = msgID}
           J == {i \in 1..Len(subs) : subs[i].topic = topic /\ (subs[i].type = type \/ topic \in PredefinedIds)}
<1>2. WithId(msgID) = IF I # {} THEN Min(I) ELSE 0
  BY DEF WithId, SelectInSeq
<1>3. Element(type, topic) = IF J # {} THEN Min(J) ELSE 0
  BY DEF Element, SelectInSeq
<1>4. I # {} => Min(I) \in I
  BY <1>1, LeastOf
<1>5. J # {} => Min(J) \in J
  BY <1>1, LeastOf
<1> QED
  BY <1>1, <1>2, <1>3, <1>4, <1>5

----------------------------------------------------------------------------
(* Types: what a step writes, reads and calls. *)

LEMMA RequestTypes ==
    /\ \A type \in {"SEARCHGW", "CONNECT", "PINGREQ"} : Msg(type) \in Requests
    /\ \A sleeps \in BOOLEAN : DisconnectMsg(sleeps) \in Requests
    /\ \A e \in PubElements : PublishMsg(e) \in Requests
    /\ \A topic \in Names, msgID \in Nat : TopicMsg("REGISTER", topic, msgID) \in Requests
    /\ \A type \in {"SUBSCRIBE", "UNSUBSCRIBE"}, topic \in Topics, msgID \in Nat :
          TopicMsg(type, topic, msgID) \in Requests
    /\ \A msgID \in Nat : [type |-> "PUBREL", msgID |-> msgID] \in Requests
BY DEF Msg, DisconnectMsg, PublishMsg, TopicMsg, Requests, PubElements

LEMMA Written ==
    ASSUME ChannelsTypeOK, NEW m \in Requests, Write(m)
    PROVE  toGateway' \in Seq(Requests) /\ toClient' \in Seq(Answers)
BY DEF ChannelsTypeOK, Write

LEMMA CallTypes ==
    /\ <<>> \in Seq(Calls)
    /\ \A op \in {"connect", "writePublish", "reconnected", "waitSubs", "disconnecting", "prompt",
                  "busy"} : [op |-> op] \in Calls
    /\ SendsPublish \in Seq(Calls)
    /\ \A topic \in Names, msgID \in Nat : /\ SendsRegister(topic, msgID) \in Seq(Calls)
                                         /\ RegisterCall(topic, msgID) \in Seq(Calls)
    /\ \A type \in {"SUBSCRIBE", "UNSUBSCRIBE"}, topic \in Topics, msgID \in Nat :
          SendsSub(type, topic, msgID) \in Seq(Calls)
<1>1. \A op \in {"connect", "writePublish", "reconnected", "waitSubs", "disconnecting", "prompt",
                 "busy"} : [op |-> op] \in Calls
  BY DEF Calls
<1>2. SendsPublish \in Seq(Calls)
  BY <1>1 DEF SendsPublish
<1>3. ASSUME NEW type \in {"SUBSCRIBE", "UNSUBSCRIBE"}, NEW topic \in Topics, NEW msgID \in Nat
      PROVE  SendsSub(type, topic, msgID) \in Seq(Calls)
  <2>1. [op |-> "writeSub", type |-> type, topic |-> topic, msgID |-> msgID] \in Calls
    BY DEF Calls
  <2> QED
    BY <1>1, <2>1 DEF SendsSub
<1>4. ASSUME NEW topic \in Names, NEW msgID \in Nat
      PROVE  SendsRegister(topic, msgID) \in Seq(Calls)
  <2>1. [op |-> "writeRegister", topic |-> topic, msgID |-> msgID] \in Calls
    BY DEF Calls
  <2> QED
    BY <1>1, <2>1 DEF SendsRegister
<1>5. ASSUME NEW topic \in Names, NEW msgID \in Nat
      PROVE  RegisterCall(topic, msgID) \in Seq(Calls)
  <2>1. msgID + 1 \in Nat
    OBVIOUS
  <2> QED
    BY <1>4, <2>1 DEF RegisterCall
<1>6. <<>> \in Seq(Calls)
  OBVIOUS
<1>7. \A topic \in Names, msgID \in Nat : /\ SendsRegister(topic, msgID) \in Seq(Calls)
                                         /\ RegisterCall(topic, msgID) \in Seq(Calls)
  BY ONLY <1>4, <1>5
<1>8. \A type \in {"SUBSCRIBE", "UNSUBSCRIBE"}, topic \in Topics, msgID \in Nat :
          SendsSub(type, topic, msgID) \in Seq(Calls)
  BY ONLY <1>3
<1> QED
  BY ONLY <1>1, <1>2, <1>6, <1>7, <1>8

LEMMA OnConnectTyped ==
    ASSUME ManagersTypeOK
    PROVE  OnConnect \in Seq(Calls)
<1>1. [op |-> "waitSubs"] \in Calls
  BY CallTypes
<1>2. [i \in DOMAIN SubscribeList |-> [op |-> "subscribe", topic |-> SubscribeList[i]]] \in Seq(Calls)
  <2>1. SubscribeList \in Seq(Names)
    BY TesterAssumption
  <2>2. \A i \in DOMAIN SubscribeList : [op |-> "subscribe", topic |-> SubscribeList[i]] \in Calls
    BY <2>1 DEF Calls
  <2>3. DOMAIN SubscribeList = 1..Len(SubscribeList) /\ Len(SubscribeList) \in Nat
    BY <2>1
  <2> QED
    BY <2>2, <2>3
<1>3. [i \in DOMAIN subs |-> [op |-> "resubscribe", type |-> subs[i].type, topic |-> subs[i].topic]]
          \in Seq(Calls)
  <2>1. subs \in Seq(SubElements)
    BY DEF ManagersTypeOK
  <2>2. ASSUME NEW i \in DOMAIN subs
        PROVE  [op |-> "resubscribe", type |-> subs[i].type, topic |-> subs[i].topic] \in Calls
    <3>1. subs[i] \in SubElements
      BY <2>1
    <3>2. subs[i].type \in {"SUBSCRIBE", "UNSUBSCRIBE"} /\ subs[i].topic \in Topics
      BY <3>1 DEF SubElements
    <3> QED
      BY <3>2 DEF Calls
  <2>3. DOMAIN subs = 1..Len(subs) /\ Len(subs) \in Nat
    BY <2>1
  <2> QED
    BY <2>2, <2>3
<1> DEFINE asked == [i \in DOMAIN SubscribeList |-> [op |-> "subscribe", topic |-> SubscribeList[i]]]
           again == [i \in DOMAIN subs |-> [op |-> "resubscribe", type |-> subs[i].type, topic |-> subs[i].topic]]
<1>4. OnConnect = IF subs = <<>> THEN asked \o <<[op |-> "waitSubs"]>> ELSE again \o <<[op |-> "waitSubs"]>>
  BY DEF OnConnect
<1> HIDE DEF asked, again
<1>5. asked \in Seq(Calls) /\ again \in Seq(Calls)
  BY <1>2, <1>3 DEF asked, again
<1> QED
  BY <1>1, <1>4, <1>5

LEMMA Called ==
    ASSUME CallsTypeOK, NEW items \in Seq(Calls)
    PROVE  /\ Call(items) => todo' \in Seq(Calls)
           /\ todo # <<>> => Head(todo) \in Calls
           /\ todo # <<>> /\ Becomes(items) => todo' \in Seq(Calls)
           /\ todo # <<>> /\ Return => todo' \in Seq(Calls)
<1>1. todo \in Seq(Calls)
  BY DEF CallsTypeOK
<1>2. todo # <<>> => Tail(todo) \in Seq(Calls) /\ Head(todo) \in Calls
  BY <1>1
<1>3. Call(items) => todo' \in Seq(Calls)
  BY <1>1 DEF Call
<1>4. todo # <<>> /\ Becomes(items) => todo' \in Seq(Calls)
  BY <1>2 DEF Becomes
<1>5. todo # <<>> /\ Return => todo' \in Seq(Calls)
  BY <1>2 DEF Return, Becomes
<1> QED
  BY <1>2, <1>3, <1>4, <1>5

LEMMA PartsKept ==
    ASSUME TypeOK
    PROVE  /\ UNCHANGED proxy => ProxyTypeOK'
           /\ UNCHANGED <<table, subs, subLast, reg, pub, nextMsgId>> => ManagersTypeOK'
           /\ UNCHANGED <<todo, tests>> => CallsTypeOK'
           /\ UNCHANGED <<toGateway, toClient, faults>> => ChannelsTypeOK'
           /\ UNCHANGED <<status, topics, nextTopicId, brokerSubs, handled>> => SessionTypeOK'
           /\ UNCHANGED <<finished, wanted, gaveUp, conducted, crashed>> => NotesTypeOK'
BY DEF TypeOK, ProxyTypeOK, ManagersTypeOK, CallsTypeOK, ChannelsTypeOK, SessionTypeOK, NotesTypeOK

LEMMA TimePassed ==
    ASSUME ChannelsTypeOK, NEW certain, TimeUp(certain)
    PROVE  faults' \in 0..MaxFaults
BY TesterAssumption DEF ChannelsTypeOK, TimeUp, Fault

LEMMA ElementTypes ==
    ASSUME ManagersTypeOK
    PROVE  /\ pub # <<>> => pub[1] \in PubElements
           /\ reg # <<>> => reg[1] \in RegElements
           /\ \A i \in DOMAIN subs : subs[i] \in SubElements
           /\ \A e \in PubElements : <<e>> \in Seq(PubElements) /\ Len(<<e>>) <= 1
           /\ \A e \in RegElements : <<e>> \in Seq(RegElements) /\ Len(<<e>>) <= 1
           /\ <<>> \in Seq(PubElements) /\ <<>> \in Seq(RegElements) /\ Len(<<>>) <= 1
BY DEF ManagersTypeOK

----------------------------------------------------------------------------
(* TypeOK is inductive: the calls that go on. *)

LEMMA Counts == RetryCount \in 0..RetryCount /\ 0 \in 0..RetryCount /\ 0 \in 0..SleepPings - 1
BY TesterAssumption

LEMMA ConnectTyped ==
    ASSUME TypeOK, UNCHANGED sessionVars,
           ConnectReturns \/ ConnectSearches \/ ConnectSends
    PROVE  TypeOK'
<1> USE DEF sessionVars, managerVars, netVars, noteVars
<1>1. CASE ConnectReturns
  <2>1. todo' \in Seq(Calls)
    BY <1>1, Called, CallTypes DEF ConnectReturns, In, TypeOK
  <2>2. CallsTypeOK'
    BY <1>1, <2>1 DEF ConnectReturns, TypeOK, CallsTypeOK
  <2> QED
    BY <1>1, <2>2, PartsKept DEF ConnectReturns, TypeOK
<1>2. CASE ConnectSearches
  <2>1. ProxyTypeOK'
    BY <1>2, Counts DEF ConnectSearches, TypeOK, ProxyTypeOK
  <2>2. ChannelsTypeOK'
    BY <1>2, Written, RequestTypes DEF ConnectSearches, TypeOK, ChannelsTypeOK
  <2> QED
    BY <1>2, <2>1, <2>2, PartsKept DEF ConnectSearches, TypeOK
<1>3. CASE ConnectSends
  <2>1. ProxyTypeOK'
    BY <1>3, Counts DEF ConnectSends, TypeOK, ProxyTypeOK
  <2>2. ChannelsTypeOK'
    BY <1>3, Written, RequestTypes DEF ConnectSends, TypeOK, ChannelsTypeOK
  <2> QED
    BY <1>3, <2>1, <2>2, PartsKept DEF ConnectSends, TypeOK
<1> QED
  BY <1>1, <1>2, <1>3

LEMMA DisconnectTyped ==
    ASSUME TypeOK, UNCHANGED sessionVars, DisconnectBegins
    PROVE  TypeOK'
<1> USE DEF sessionVars, managerVars, netVars, noteVars
<1>1. ProxyTypeOK'
  <2>1. PICK sleeps \in BOOLEAN :
           proxy' = [proxy EXCEPT !.status = IF sleeps THEN "SLEEPING" ELSE "DISCONNECTING",
                                  !.retry = RetryCount, !.tSleep = sleeps, !.tWake = 0,
                                  !.keepAlive = sleeps /\ @]
    BY DEF DisconnectBegins, In
  <2> QED
    BY <2>1, Counts DEF TypeOK, ProxyTypeOK
<1>2. ChannelsTypeOK'
  <2>1. PICK sleeps \in BOOLEAN : Write(DisconnectMsg(sleeps))
    BY DEF DisconnectBegins, In
  <2> QED
    BY <2>1, Written, RequestTypes DEF DisconnectBegins, TypeOK, ChannelsTypeOK
<1>3. CallsTypeOK'
  <2>1. <<[op |-> "disconnecting"]>> \in Seq(Calls)
    BY CallTypes
  <2> QED
    BY <2>1, Called DEF DisconnectBegins, In, TypeOK, CallsTypeOK
<1> QED
  BY <1>1, <1>2, <1>3, PartsKept DEF DisconnectBegins, TypeOK

LEMMA RegisterTyped ==
    ASSUME ManagersTypeOK, NEW topic \in Names, NEW msgID \in Nat, NEW e \in PubElements,
           RegisterTopic(topic, msgID, e)
    PROVE  /\ pub' \in Seq(PubElements) /\ Len(pub') <= 1
           /\ reg' \in Seq(RegElements) /\ Len(reg') <= 1
           /\ nextMsgId' \in Nat
<1>1. RetryCount \in Retries
  BY TesterAssumption DEF Retries
<1>2. [topic |-> topic, msgID |-> msgID + 1, retry |-> RetryCount] \in RegElements
  BY <1>1 DEF RegElements
<1>3. pub' = <<e>> /\ pub' \in Seq(PubElements) /\ Len(pub') <= 1
  BY ElementTypes DEF RegisterTopic
<1>4. CASE reg = <<>>
  <2> DEFINE r == [topic |-> topic, msgID |-> msgID + 1, retry |-> RetryCount]
  <2>1. reg' = <<r>> /\ nextMsgId' = msgID + 1
    BY <1>4 DEF RegisterTopic
  <2> HIDE DEF r
  <2>2. r \in RegElements
    BY <1>2 DEF r
  <2>3. reg' \in Seq(RegElements) /\ Len(reg') <= 1
    BY <2>1, <2>2, ElementTypes
  <2> QED
    BY <1>3, <2>1, <2>3
<1>5. CASE reg # <<>>
  BY <1>3, <1>5 DEF RegisterTopic, ManagersTypeOK
<1> QED
  BY <1>4, <1>5

LEMMA PublishTyped ==
    ASSUME TypeOK, UNCHANGED sessionVars, PublishCalled
    PROVE  TypeOK'
<1> USE DEF sessionVars, managerVars, netVars, noteVars
<1> DEFINE test  == Head(todo)
           msgID == IF test.qos > 0 THEN nextMsgId + 1 ELSE nextMsgId
           e     == [topic |-> test.topic, qos |-> test.qos, retry |-> RetryCount,
                     msgID |-> IF test.qos > 0 THEN msgID ELSE 0, id |-> table[test.topic],
                     status |-> IF table[test.topic] # 0 THEN "READY" ELSE "SUSPEND"]
<1>1. ManagersTypeOK /\ CallsTypeOK
  BY DEF TypeOK
<1>2. todo # <<>> /\ test \in Calls /\ test.op = "publish"
  BY <1>1, Called, CallTypes DEF PublishCalled, In
<1>3. test.topic \in Names /\ test.qos \in 0..2
  BY <1>2 DEF Calls
<1>4. e \in PubElements /\ msgID \in Nat
  <2>1. nextMsgId \in Nat /\ table[test.topic] \in Nat
    BY <1>1, <1>3 DEF ManagersTypeOK
  <2>2. RetryCount \in Retries
    BY TesterAssumption DEF Retries
  <2> HIDE DEF test
  <2>3. msgID \in Nat /\ (IF test.qos > 0 THEN msgID ELSE 0) \in Nat
    BY <1>3, <2>1
  <2> HIDE DEF msgID
  <2> QED
    BY <1>3, <2>1, <2>2, <2>3 DEF PubElements
<1>5. \/ pub' = <<e>> /\ nextMsgId' = msgID /\ UNCHANGED reg /\ Becomes(SendsPublish)
      \/ RegisterTopic(test.topic, msgID, e) /\ Becomes(RegisterCall(test.topic, msgID))
  BY DEF PublishCalled
<1>6. UNCHANGED <<proxy, table, subs, subLast, tests, netVars, faults, noteVars>>
  BY DEF PublishCalled
<1> HIDE DEF test, msgID, e
<1>7. ManagersTypeOK'
  <2>1. CASE pub' = <<e>> /\ nextMsgId' = msgID /\ UNCHANGED reg
    BY <1>1, <1>4, <1>6, <2>1, ElementTypes DEF ManagersTypeOK
  <2>2. CASE RegisterTopic(test.topic, msgID, e)
    BY <1>1, <1>3, <1>4, <1>6, <2>2, RegisterTyped DEF ManagersTypeOK
  <2> QED
    BY <1>5, <2>1, <2>2
<1>8. CallsTypeOK'
  <2>1. SendsPublish \in Seq(Calls) /\ RegisterCall(test.topic, msgID) \in Seq(Calls)
    BY <1>3, <1>4, CallTypes
  <2>2. todo' \in Seq(Calls)
    BY <1>1, <1>2, <1>5, <2>1, Called
  <2> QED
    BY <1>1, <1>6, <2>2 DEF CallsTypeOK
<1> QED
  BY <1>6, <1>7, <1>8, PartsKept DEF TypeOK

LEMMA WriteTyped ==
    ASSUME TypeOK, UNCHANGED sessionVars, WritePublish \/ WriteRegister \/ Reconnected
    PROVE  TypeOK'
<1> USE DEF sessionVars, managerVars, netVars, noteVars
<1>1. /\ ProxyTypeOK /\ ManagersTypeOK /\ CallsTypeOK /\ ChannelsTypeOK
  BY DEF TypeOK
<1>2. todo # <<>> /\ Return /\ UNCHANGED <<tests, table, subs, subLast, nextMsgId>>
  BY DEF WritePublish, WriteRegister, Reconnected, In
<1>3. CallsTypeOK'
  <2>1. todo' \in Seq(Calls)
    BY <1>1, <1>2, Called, CallTypes
  <2> QED
    BY <1>1, <1>2, <2>1 DEF CallsTypeOK
<1>4. CASE WritePublish
  <2>1. ProxyTypeOK'
    BY <1>1, <1>4 DEF WritePublish, ProxyTypeOK
  <2>2. CASE pub = <<>>
    <3>1. UNCHANGED <<pub, netVars, reg, faults, noteVars>>
      BY <1>4, <2>2 DEF WritePublish
    <3> QED
      BY <1>2, <1>3, <2>1, <3>1, PartsKept DEF TypeOK
  <2>3. CASE pub # <<>>
    <3> DEFINE e == pub[1]
    <3>1. /\ Write(PublishMsg(e))
          /\ pub' = IF e.qos = 0 THEN <<>>
                    ELSE <<[e EXCEPT !.status = IF e.qos = 1 THEN "WAIT_PUBACK" ELSE "WAIT_PUBREC",
                                     !.retry = @ - 1]>>
          /\ UNCHANGED <<reg, faults, noteVars>>
      BY <1>4, <2>3 DEF WritePublish
    <3>2. e \in PubElements
      BY <1>1, <2>3, ElementTypes
    <3> HIDE DEF e
    <3>3. [e EXCEPT !.status = IF e.qos = 1 THEN "WAIT_PUBACK" ELSE "WAIT_PUBREC",
                    !.retry = @ - 1] \in PubElements
      <4>1. e.retry - 1 \in Retries
        BY <3>2, TesterAssumption DEF PubElements, Retries
      <4> QED
        BY <3>2, <4>1 DEF PubElements
    <3>4. pub' \in Seq(PubElements) /\ Len(pub') <= 1
      BY <1>1, <3>1, <3>3, ElementTypes
    <3>5. ManagersTypeOK'
      BY <1>1, <1>2, <3>1, <3>4 DEF ManagersTypeOK
    <3>6. ChannelsTypeOK'
      BY <1>1, <3>1, <3>2, Written, RequestTypes DEF ChannelsTypeOK
    <3> QED
      BY <1>3, <2>1, <3>1, <3>5, <3>6, PartsKept DEF TypeOK
  <2> QED
    BY <2>2, <2>3
<1>5. CASE WriteRegister
  <2>1. Head(todo).topic \in Names /\ Head(todo).msgID \in Nat
    <3>1. Head(todo) \in Calls /\ Head(todo).op = "writeRegister"
      BY <1>1, <1>5 DEF WriteRegister, In, CallsTypeOK
    <3> QED
      BY <3>1 DEF Calls
  <2>2. UNCHANGED <<proxy, pub, faults, noteVars>>
    BY <1>5 DEF WriteRegister
  <2>3. ManagersTypeOK'
    <3>1. reg' = reg \/ reg' = [i \in DOMAIN reg |-> [reg[i] EXCEPT !.retry = @ - 1]]
      BY <1>5 DEF WriteRegister
    <3>2. reg \in Seq(RegElements) /\ Len(reg) <= 1
      BY <1>1 DEF ManagersTypeOK
    <3>3. ASSUME NEW i \in DOMAIN reg
          PROVE  [reg[i] EXCEPT !.retry = @ - 1] \in RegElements
      <4>1. reg[i] \in RegElements
        BY <3>2
      <4>2. reg[i].retry - 1 \in Retries
        BY <4>1, TesterAssumption DEF RegElements, Retries
      <4> QED
        BY <4>1, <4>2 DEF RegElements
    <3>4. reg' \in Seq(RegElements) /\ Len(reg') <= 1
      <4> HIDE DEF managerVars
      <4> QED
        BY ONLY <3>1, <3>2, <3>3
    <3> QED
      BY <1>1, <1>2, <2>2, <3>4 DEF ManagersTypeOK
  <2>4. ChannelsTypeOK'
    <3>1. TopicMsg("REGISTER", Head(todo).topic, Head(todo).msgID) \in Requests
      BY <2>1, RequestTypes
    <3> QED
      BY <1>1, <1>5, <2>2, <3>1, Written DEF WriteRegister, ChannelsTypeOK
  <2> QED
    BY <1>1, <1>3, <2>2, <2>3, <2>4, PartsKept DEF TypeOK
<1>6. CASE Reconnected
  <2>1. /\ pub' = [i \in DOMAIN pub |-> [pub[i] EXCEPT !.retry = RetryCount]]
        /\ UNCHANGED <<proxy, reg, netVars, faults, noteVars>>
    BY <1>6 DEF Reconnected
  <2>2. \A i \in DOMAIN pub : [pub[i] EXCEPT !.retry = RetryCount] \in PubElements
    <3>1. \A e \in PubElements : [e EXCEPT !.retry = RetryCount] \in PubElements
      BY TesterAssumption DEF PubElements, Retries
    <3> QED
      BY <1>1, <3>1 DEF ManagersTypeOK
  <2>3. pub \in Seq(PubElements) /\ DOMAIN pub = 1..Len(pub) /\ Len(pub) \in Nat /\ Len(pub) <= 1
    BY <1>1 DEF ManagersTypeOK
  <2>4. pub' \in Seq(PubElements) /\ Len(pub') <= 1
    BY <2>1, <2>2, <2>3
  <2>5. ManagersTypeOK'
    BY <1>1, <1>2, <2>1, <2>4 DEF ManagersTypeOK
  <2> QED
    BY <1>3, <2>1, <2>5, PartsKept DEF TypeOK
<1> QED
  BY <1>4, <1>5, <1>6

LEMMA AddedTyped ==
    ASSUME ManagersTypeOK, NEW e \in SubElements, AddElement(e)
    PROVE  subs' \in Seq(SubElements) /\ subLast' \in -1..Len(subs')
<1> DEFINE found == Element(e.type, e.topic)
<1>1. found \in 0..Len(subs) /\ subs \in Seq(SubElements) /\ subLast \in -1..Len(subs) /\ Len(subs) \in Nat
  BY ElementFound DEF ManagersTypeOK
<1>2. \/ found # 0 /\ subs' = ReplaceAt(subs, found, e) /\ UNCHANGED subLast
      \/ UNCHANGED <<subs, subLast>>
      \/ /\ found = 0 /\ subLast # -1
         /\ subs' = SubSeq(subs, 1, subLast) \o <<e>> /\ subLast' = subLast + 1
  BY DEF AddElement
<1> HIDE DEF found
<1>3. CASE found # 0 /\ subs' = ReplaceAt(subs, found, e) /\ UNCHANGED subLast
  <2>1. subs' \in Seq(SubElements) /\ Len(subs') = Len(subs)
    BY <1>1, <1>3 DEF ReplaceAt
  <2> QED
    BY <1>1, <1>3, <2>1
<1>4. CASE UNCHANGED <<subs, subLast>>
  BY <1>1, <1>4
<1>5. CASE /\ found = 0 /\ subLast # -1
           /\ subs' = SubSeq(subs, 1, subLast) \o <<e>> /\ subLast' = subLast + 1
  <2> DEFINE before == SubSeq(subs, 1, subLast)
  <2>1. before \in Seq(SubElements) /\ Len(before) = subLast
    BY <1>1, <1>5, SubSeqProperties
  <2> HIDE DEF before
  <2>2. before \o <<e>> \in Seq(SubElements) /\ Len(before \o <<e>>) = subLast + 1
    BY <2>1
  <2>3. subs' = before \o <<e>>
    BY <1>5 DEF before
  <2> QED
    BY <1>1, <1>5, <2>2, <2>3
<1> QED
  BY <1>2, <1>3, <1>4, <1>5

LEMMA RemovedTyped ==
    ASSUME ManagersTypeOK, NEW i \in 1..Len(subs), RemoveElement(i)
    PROVE  subs' \in Seq(SubElements) /\ subLast' \in -1..Len(subs')
<1>1. subs \in Seq(SubElements) /\ subLast \in -1..Len(subs) /\ Len(subs) \in Nat
  BY DEF ManagersTypeOK
<1>2. subs' \in Seq(SubElements) /\ Len(subs') = Len(subs) - 1
  BY <1>1, WithoutElement DEF RemoveElement
<1>3. \/ i = 1 /\ Len(subs) = 1 /\ subLast' = -1
      \/ i = 1 /\ Len(subs) # 1 /\ subLast' = 1
      \/ i # 1 /\ i = Len(subs) /\ subLast' = i - 1
      \/ i # 1 /\ i # Len(subs) /\ subLast = i /\ subLast' = -1
      \/ i # 1 /\ i # Len(subs) /\ subLast > i /\ subLast' = subLast - 1
      \/ i # 1 /\ i # Len(subs) /\ subLast # i /\ ~(subLast > i) /\ subLast' = subLast
  BY DEF RemoveElement
<1> QED
  BY <1>1, <1>2, <1>3

\* What Ask leaves, whoever calls it.
LEMMA AskTyped ==
    ASSUME TypeOK, NEW type \in {"SUBSCRIBE", "UNSUBSCRIBE"}, NEW topic \in Topics, todo # <<>>,
           Ask(type, topic)
    PROVE  /\ subs' \in Seq(SubElements) /\ subLast' \in -1..Len(subs') /\ nextMsgId' \in Nat
           /\ todo' \in Seq(Calls) /\ crashed' \in BOOLEAN
<1>1. ManagersTypeOK /\ CallsTypeOK /\ crashed \in BOOLEAN
  BY DEF TypeOK, NotesTypeOK
<1>2. CASE Crash /\ UNCHANGED <<subs, subLast, nextMsgId>>
  BY <1>1, <1>2, CallTypes DEF Crash, ManagersTypeOK
<1>3. CASE /\ AddElement([type |-> type, topic |-> topic, msgID |-> nextMsgId + 1,
                          retry |-> RetryCount, done |-> FALSE, refused |-> FALSE])
           /\ nextMsgId' = nextMsgId + 1
           /\ Becomes(SendsSub(type, topic, nextMsgId + 1))
           /\ UNCHANGED crashed
  <2>1. nextMsgId + 1 \in Nat
    BY <1>1 DEF ManagersTypeOK
  <2>2. [type |-> type, topic |-> topic, msgID |-> nextMsgId + 1, retry |-> RetryCount,
         done |-> FALSE, refused |-> FALSE] \in SubElements
    BY <2>1, TesterAssumption DEF SubElements, Retries
  <2>3. subs' \in Seq(SubElements) /\ subLast' \in -1..Len(subs')
    BY <1>1, <1>3, <2>2, AddedTyped
  <2>4. SendsSub(type, topic, nextMsgId + 1) \in Seq(Calls)
    BY <2>1, CallTypes
  <2>5. todo' \in Seq(Calls)
    BY <1>1, <1>3, <2>4, Called
  <2> QED
    BY <1>1, <1>3, <2>1, <2>3, <2>5
<1> QED
  BY <1>2, <1>3 DEF Ask

LEMMA SubscribeTyped ==
    ASSUME TypeOK, UNCHANGED sessionVars, SubscribeCalled \/ Resubscribe
    PROVE  TypeOK'
<1> USE DEF sessionVars, managerVars, netVars, noteVars
<1>1. ManagersTypeOK /\ CallsTypeOK /\ NotesTypeOK
  BY DEF TypeOK
<1>2. todo # <<>> /\ Head(todo) \in Calls
  BY <1>1, Called, CallTypes DEF SubscribeCalled, Resubscribe, In
<1>3. UNCHANGED <<proxy, table, reg, pub, tests, netVars, faults, finished, gaveUp, conducted>>
  BY DEF SubscribeCalled, Resubscribe
<1>4. Head(todo).op \in {"subscribe", "unsubscribe", "resubscribe"} => Head(todo).topic \in Topics
  BY <1>2 DEF Calls, Topics
<1>5. /\ subs' \in Seq(SubElements) /\ subLast' \in -1..Len(subs') /\ nextMsgId' \in Nat
      /\ todo' \in Seq(Calls) /\ crashed' \in BOOLEAN /\ wanted' \subseteq Topics
  <2>1. CASE In("subscribe") /\ Ask("SUBSCRIBE", Head(todo).topic) /\ wanted' = wanted \cup {Head(todo).topic}
    BY <1>1, <1>2, <1>4, <2>1, AskTyped DEF In, NotesTypeOK
  <2>2. CASE In("unsubscribe") /\ Ask("UNSUBSCRIBE", Head(todo).topic) /\ wanted' = wanted \ {Head(todo).topic}
    BY <1>1, <1>2, <1>4, <2>2, AskTyped DEF In, NotesTypeOK
  <2>3. CASE Resubscribe
    <3>1. In("resubscribe") /\ UNCHANGED wanted
      BY <2>3 DEF Resubscribe
    <3>2. wanted' \subseteq Topics /\ Head(todo).topic \in Topics
      BY <1>1, <1>4, <3>1 DEF NotesTypeOK, In
    <3>3. CASE Return /\ UNCHANGED <<subs, subLast, nextMsgId, crashed>>
      BY <1>1, <1>2, <3>2, <3>3, Called, CallTypes DEF ManagersTypeOK, NotesTypeOK
    <3>4. CASE Crash /\ UNCHANGED <<subs, subLast, nextMsgId>>
      BY <1>1, <3>2, <3>4, CallTypes DEF Crash, ManagersTypeOK
    <3>5. CASE Ask("SUBSCRIBE", Head(todo).topic)
      BY <1>2, <3>2, <3>5, AskTyped
    <3> QED
      BY <2>3, <3>3, <3>4, <3>5 DEF Resubscribe
  <2> QED
    BY <2>1, <2>2, <2>3 DEF SubscribeCalled
<1>6. ManagersTypeOK'
  BY <1>1, <1>3, <1>5 DEF ManagersTypeOK
<1>7. CallsTypeOK'
  BY <1>1, <1>3, <1>5 DEF CallsTypeOK
<1>8. NotesTypeOK'
  BY <1>1, <1>3, <1>5 DEF NotesTypeOK
<1> QED
  BY <1>3, <1>6, <1>7, <1>8, PartsKept DEF TypeOK

LEMMA WriteSubTyped ==
    ASSUME TypeOK, UNCHANGED sessionVars, WriteSub
    PROVE  TypeOK'
<1> USE DEF sessionVars, managerVars, netVars, noteVars
<1>1. ProxyTypeOK /\ ManagersTypeOK /\ CallsTypeOK /\ ChannelsTypeOK
  BY DEF TypeOK
<1>2. todo # <<>> /\ Head(todo) \in Calls /\ Head(todo).op = "writeSub"
  BY <1>1, Called, CallTypes DEF WriteSub, In
<1> DEFINE call == Head(todo)
           i    == Element(call.type, call.topic)
<1>3. call.type \in {"SUBSCRIBE", "UNSUBSCRIBE"} /\ call.topic \in Topics /\ call.msgID \in Nat
  BY <1>2 DEF Calls
<1>4. /\ Write(TopicMsg(call.type, call.topic, call.msgID)) /\ Return
      /\ subs' = IF i = 0 THEN subs ELSE [subs EXCEPT ![i].retry = @ - 1]
      /\ proxy' = [proxy EXCEPT !.keepAlive = TRUE]
      /\ UNCHANGED <<table, subLast, reg, pub, nextMsgId, tests, faults, noteVars>>
  BY DEF WriteSub
<1> HIDE DEF call
<1>5. ProxyTypeOK'
  BY <1>1, <1>4 DEF ProxyTypeOK
<1>6. ChannelsTypeOK'
  <2>1. TopicMsg(call.type, call.topic, call.msgID) \in Requests
    BY <1>3, RequestTypes
  <2> QED
    BY <1>1, <1>4, <2>1, Written DEF ChannelsTypeOK
<1>7. CallsTypeOK'
  BY <1>1, <1>2, <1>4, Called, CallTypes DEF CallsTypeOK
<1>8. i \in 0..Len(subs)
  BY <1>1, ElementFound
<1> HIDE DEF i
<1>9. subs' \in Seq(SubElements) /\ Len(subs') = Len(subs)
  <2>1. CASE i # 0
    <3>1. subs \in Seq(SubElements) /\ i \in DOMAIN subs
      BY <1>1, <1>8, <2>1 DEF ManagersTypeOK
    <3>2. [subs[i] EXCEPT !.retry = @ - 1] \in SubElements
      <4>1. subs[i] \in SubElements
        BY <3>1
      <4>2. subs[i].retry - 1 \in Retries
        BY <4>1, TesterAssumption DEF SubElements, Retries
      <4> QED
        BY <4>1, <4>2 DEF SubElements
    <3>3. subs' = [subs EXCEPT ![i] = [subs[i] EXCEPT !.retry = @ - 1]]
      BY <1>4, <2>1
    <3> QED
      BY <3>1, <3>2, <3>3
  <2> QED
    BY <1>1, <1>4, <2>1 DEF ManagersTypeOK
<1>10. ManagersTypeOK'
  BY <1>1, <1>4, <1>9 DEF ManagersTypeOK
<1> QED
  BY <1>4, <1>5, <1>6, <1>7, <1>10, PartsKept DEF TypeOK

LEMMA ReturnTyped ==
    ASSUME TypeOK, UNCHANGED sessionVars, OnConnectReturns \/ TestEnds
    PROVE  TypeOK'
<1> USE DEF sessionVars, managerVars, netVars, noteVars
<1>1. CallsTypeOK /\ todo # <<>> /\ Return /\ UNCHANGED <<proxy, managerVars, tests, netVars, faults, noteVars>>
  BY DEF OnConnectReturns, TestEnds, In, TypeOK
<1>2. CallsTypeOK'
  BY <1>1, Called, CallTypes DEF CallsTypeOK
<1> QED
  BY <1>1, <1>2, PartsKept DEF TypeOK

LEMMA ProceedTyped ==
    ASSUME TypeOK, ClientStep(Proceed)
    PROVE  TypeOK'
<1>1. UNCHANGED sessionVars /\ Proceed
  BY DEF ClientStep
<1> QED
  BY <1>1, ConnectTyped, DisconnectTyped, PublishTyped, WriteTyped, SubscribeTyped, WriteSubTyped,
     ReturnTyped DEF Proceed

----------------------------------------------------------------------------
(* TypeOK is inductive: a message is received. *)

LEMMA Taken ==
    ASSUME ChannelsTypeOK, toClient # <<>>
    PROVE  /\ Head(toClient) \in Answers
           /\ \A m : ReadOnly(m) /\ UNCHANGED faults => ChannelsTypeOK'
<1>1. Head(toClient) \in Answers /\ Tail(toClient) \in Seq(Answers)
  BY HeadElement DEF ChannelsTypeOK
<1> QED
  BY <1>1 DEF ReadOnly, Read, ChannelsTypeOK

LEMMA ConnectReceiveTyped ==
    ASSUME TypeOK, UNCHANGED sessionVars, toClient # <<>>, NEW m, m = Head(toClient),
           \/ ConnectFindsGateway(m) \/ ConnectAccepted(m) \/ ConnectRefused(m) \/ ConnectDrops(m)
           \/ DisconnectAnswered(m) \/ DisconnectDrops(m)
    PROVE  TypeOK'
<1> USE DEF sessionVars, managerVars, netVars, noteVars
<1>1. ProxyTypeOK /\ ManagersTypeOK /\ CallsTypeOK /\ ChannelsTypeOK /\ NotesTypeOK
  BY DEF TypeOK
<1>2. ChannelsTypeOK'
  BY <1>1, Taken DEF ConnectFindsGateway, ConnectAccepted, ConnectRefused, ConnectDrops,
     DisconnectAnswered, DisconnectDrops
<1>3. CASE ConnectFindsGateway(m) \/ ConnectRefused(m)
  <2>1. ProxyTypeOK'
    BY <1>1, <1>3 DEF ConnectFindsGateway, ConnectRefused, ProxyTypeOK
  <2> QED
    BY <1>2, <1>3, <2>1, PartsKept DEF ConnectFindsGateway, ConnectRefused, TypeOK
<1>4. CASE ConnectDrops(m) \/ DisconnectDrops(m)
  BY <1>2, <1>4, PartsKept DEF ConnectDrops, DisconnectDrops, TypeOK
<1>5. CASE DisconnectAnswered(m)
  <2>1. ProxyTypeOK'
    BY <1>1, <1>5 DEF DisconnectAnswered, ProxyTypeOK
  <2>2. CallsTypeOK'
    BY <1>1, <1>5, Called, CallTypes DEF DisconnectAnswered, In, CallsTypeOK
  <2> QED
    BY <1>2, <1>5, <2>1, <2>2, PartsKept DEF DisconnectAnswered, TypeOK
<1>6. CASE ConnectAccepted(m)
  <2>1. ProxyTypeOK'
    BY <1>1, <1>6 DEF ConnectAccepted, ProxyTypeOK
  <2>2. \/ UNCHANGED <<table, todo, conducted>>
        \/ table' = [name \in Names |-> 0] /\ Call(OnConnect) /\ conducted' = TRUE
    BY <1>6 DEF ConnectAccepted
  <2>3. UNCHANGED <<subs, subLast, reg, pub, nextMsgId, tests, faults, finished, wanted, gaveUp, crashed>>
    BY <1>6 DEF ConnectAccepted
  <2>4. ManagersTypeOK'
    BY <1>1, <2>2, <2>3 DEF ManagersTypeOK
  <2>5. CallsTypeOK'
    BY <1>1, <2>2, <2>3, Called, OnConnectTyped DEF CallsTypeOK
  <2>6. NotesTypeOK'
    BY <1>1, <2>2, <2>3 DEF NotesTypeOK
  <2> QED
    BY <1>2, <2>1, <2>4, <2>5, <2>6, PartsKept DEF TypeOK
<1> QED
  BY <1>3, <1>4, <1>5, <1>6

\* LPublishManager::responce
LEMMA PubackTyped ==
    ASSUME TypeOK, UNCHANGED sessionVars, toClient # <<>>, NEW m, m = Head(toClient), ReceivePuback(m)
    PROVE  TypeOK'
<1> USE DEF sessionVars, managerVars, netVars, noteVars
<1>1. ProxyTypeOK /\ ManagersTypeOK /\ CallsTypeOK /\ ChannelsTypeOK /\ NotesTypeOK
  BY DEF TypeOK
<1>2. ChannelsTypeOK' /\ m \in Answers /\ m.type = "PUBACK"
  BY <1>1, Taken DEF ReceivePuback
<1>3. m.msgID \in Nat
  BY <1>2 DEF Answers
<1> DEFINE e == [pub[1] EXCEPT !.status = "SUSPEND", !.id = 0, !.retry = RetryCount]
<1>4. /\ \/ UNCHANGED <<pub, reg, nextMsgId, todo, finished>>
         \/ pub' = <<>> /\ finished' = finished \cup {m.msgID} /\ UNCHANGED <<reg, nextMsgId, todo>>
         \/ /\ pub # <<>> /\ RegisterTopic(pub[1].topic, nextMsgId, e)
            /\ Call(RegisterCall(pub[1].topic, nextMsgId)) /\ UNCHANGED finished
      /\ UNCHANGED <<proxy, table, subs, subLast, tests, faults, wanted, gaveUp, conducted, crashed>>
  BY DEF ReceivePuback
<1> HIDE DEF e
<1>5. CASE UNCHANGED <<pub, reg, nextMsgId, todo, finished>>
  BY <1>2, <1>4, <1>5, PartsKept DEF TypeOK
<1>6. CASE pub' = <<>> /\ finished' = finished \cup {m.msgID} /\ UNCHANGED <<reg, nextMsgId, todo>>
  <2>1. ManagersTypeOK'
    BY <1>1, <1>4, <1>6, ElementTypes DEF ManagersTypeOK
  <2>2. NotesTypeOK'
    BY <1>1, <1>3, <1>4, <1>6 DEF NotesTypeOK
  <2> QED
    BY <1>2, <1>4, <1>6, <2>1, <2>2, PartsKept DEF TypeOK
<1>7. CASE /\ pub # <<>> /\ RegisterTopic(pub[1].topic, nextMsgId, e)
           /\ Call(RegisterCall(pub[1].topic, nextMsgId)) /\ UNCHANGED finished
  <2>1. pub[1] \in PubElements
    BY <1>1, <1>7, ElementTypes
  <2>2. RetryCount \in Retries
    BY TesterAssumption DEF Retries
  <2>3. e \in PubElements /\ pub[1].topic \in Names
    BY <2>1, <2>2 DEF PubElements, e
  <2>4. nextMsgId \in Nat
    BY <1>1 DEF ManagersTypeOK
  <2>5. ManagersTypeOK'
    BY <1>1, <1>4, <1>7, <2>3, <2>4, RegisterTyped DEF ManagersTypeOK
  <2>6. CallsTypeOK'
    BY <1>1, <1>4, <1>7, <2>3, <2>4, Called, CallTypes DEF CallsTypeOK
  <2> QED
    BY <1>2, <1>4, <1>7, <2>5, <2>6, PartsKept DEF TypeOK
<1> QED
  BY <1>4, <1>5, <1>6, <1>7

LEMMA PubrecTyped ==
    ASSUME TypeOK, UNCHANGED sessionVars, toClient # <<>>, NEW m, m = Head(toClient),
           ReceivePubrec(m) \/ ReceivePubcomp(m)
    PROVE  TypeOK'
<1> USE DEF sessionVars, managerVars, netVars, noteVars
<1>1. ProxyTypeOK /\ ManagersTypeOK /\ CallsTypeOK /\ ChannelsTypeOK /\ NotesTypeOK
  BY DEF TypeOK
<1>2. m \in Answers /\ m.type \in {"PUBREC", "PUBCOMP"} /\ m.msgID \in Nat
  <2>1. m \in Answers /\ m.type \in {"PUBREC", "PUBCOMP"}
    BY <1>1, Taken DEF ReceivePubrec, ReceivePubcomp
  <2> QED
    BY <2>1 DEF Answers
<1>3. CASE ReceivePubrec(m)
  <2>1. UNCHANGED <<proxy, table, subs, subLast, reg, nextMsgId, todo, tests, faults, noteVars>>
    BY <1>3 DEF ReceivePubrec
  <2>2. CASE ReadOnly(m) /\ UNCHANGED pub
    BY <1>1, <2>1, <2>2, Taken, PartsKept DEF TypeOK
  <2>3. CASE /\ pub # <<>> /\ ReadAndWrite(m, [type |-> "PUBREL", msgID |-> m.msgID])
             /\ pub' = <<[pub[1] EXCEPT !.status = "WAIT_PUBCOMP"]>>
    <3> DEFINE r == [type |-> "PUBREL", msgID |-> m.msgID]
               e == [pub[1] EXCEPT !.status = "WAIT_PUBCOMP"]
    <3>1. r \in Requests
      BY <1>2, RequestTypes
    <3>2. e \in PubElements
      <4>1. pub[1] \in PubElements
        BY <1>1, <2>3, ElementTypes
      <4> QED
        BY <4>1 DEF PubElements
    <3>3. toClient' = Tail(toClient) /\ toGateway' = Append(toGateway, r) /\ pub' = <<e>>
      BY <2>3 DEF ReadAndWrite, Read
    <3> HIDE DEF r, e
    <3>4. ChannelsTypeOK'
      <4>1. Tail(toClient) \in Seq(Answers)
        BY <1>1, HeadElement DEF ChannelsTypeOK
      <4> QED
        BY <1>1, <2>1, <3>1, <3>3, <4>1 DEF ChannelsTypeOK
    <3>5. ManagersTypeOK'
      BY <1>1, <2>1, <3>2, <3>3, ElementTypes DEF ManagersTypeOK
    <3> QED
      BY <2>1, <3>4, <3>5, PartsKept DEF TypeOK
  <2> QED
    BY <1>3, <2>2, <2>3 DEF ReceivePubrec, Waits
<1>4. CASE ReceivePubcomp(m)
  <2>1. /\ \/ pub' = <<>> /\ finished' = finished \cup {m.msgID}
           \/ UNCHANGED <<pub, finished>>
        /\ UNCHANGED <<proxy, table, subs, subLast, reg, nextMsgId, todo, tests, faults,
                       wanted, gaveUp, conducted, crashed>>
    BY <1>4 DEF ReceivePubcomp
  <2>2. ChannelsTypeOK'
    BY <1>1, <1>4, Taken DEF ReceivePubcomp
  <2>3. ManagersTypeOK'
    BY <1>1, <2>1, ElementTypes DEF ManagersTypeOK
  <2>4. NotesTypeOK'
    BY <1>1, <1>2, <2>1 DEF NotesTypeOK
  <2> QED
    BY <2>1, <2>2, <2>3, <2>4, PartsKept DEF TypeOK
<1> QED
  BY <1>3, <1>4

\* LRegisterManager::responceRegAck
LEMMA RegackTyped ==
    ASSUME TypeOK, UNCHANGED sessionVars, toClient # <<>>, NEW m, m = Head(toClient), ReceiveRegack(m)
    PROVE  TypeOK'
<1> USE DEF sessionVars, managerVars, netVars, noteVars
<1>1. ManagersTypeOK /\ CallsTypeOK /\ ChannelsTypeOK
  BY DEF TypeOK
<1>2. ChannelsTypeOK' /\ m \in Answers /\ m.type = "REGACK"
  BY <1>1, Taken DEF ReceiveRegack
<1>3. m.id \in Nat
  BY <1>2 DEF Answers
<1> DEFINE e == [pub[1] EXCEPT !.id = m.id, !.status = "READY"]
<1>4. /\ \/ UNCHANGED <<table, reg, pub, todo>>
         \/ /\ reg # <<>> /\ table' = [table EXCEPT ![reg[1].topic] = m.id] /\ reg' = <<>>
            /\ \/ pub # <<>> /\ pub' = <<e>> /\ Call(SendsPublish)
               \/ UNCHANGED <<pub, todo>>
      /\ UNCHANGED <<proxy, subs, subLast, nextMsgId, tests, faults, noteVars>>
  BY DEF ReceiveRegack, Waits
<1>5. pub # <<>> => e \in PubElements
  <2>1. pub # <<>> => pub[1] \in PubElements
    BY <1>1, ElementTypes
  <2> QED
    BY <1>3, <2>1 DEF PubElements
<1> HIDE DEF e
<1>6. ManagersTypeOK'
  BY <1>1, <1>3, <1>4, <1>5, ElementTypes DEF ManagersTypeOK
<1>7. CallsTypeOK'
  BY <1>1, <1>4, Called, CallTypes DEF CallsTypeOK
<1> QED
  BY <1>2, <1>4, <1>6, <1>7, PartsKept DEF TypeOK

\* LSubscribeManager::responce
LEMMA SubackTyped ==
    ASSUME TypeOK, UNCHANGED sessionVars, toClient # <<>>, NEW m, m = Head(toClient),
           ReceiveSuback(m) \/ ReceiveUnsuback(m)
    PROVE  TypeOK'
<1> USE DEF sessionVars, managerVars, netVars, noteVars
<1>1. ManagersTypeOK /\ ChannelsTypeOK
  BY DEF TypeOK
<1>2. ChannelsTypeOK' /\ m \in Answers
  BY <1>1, Taken DEF ReceiveSuback, ReceiveUnsuback
<1> DEFINE i == WithId(m.msgID)
<1>3. i \in 0..Len(subs) /\ (i # 0 => i \in 1..Len(subs)) /\ subs \in Seq(SubElements)
  <2>1. subs \in Seq(SubElements)
    BY <1>1 DEF ManagersTypeOK
  <2>2. i \in 0..Len(subs)
    BY <1>1, ElementFound
  <2> HIDE DEF i
  <2> QED
    BY <2>1, <2>2, LenProperties
<1>4. /\ \/ UNCHANGED <<subs, subLast>>
         \/ /\ i # 0 /\ subs' = [subs EXCEPT ![i].done = TRUE, ![i].refused = FALSE] /\ UNCHANGED subLast
         \/ i # 0 /\ RemoveElement(i)
      /\ UNCHANGED <<proxy, reg, pub, nextMsgId, todo, tests, faults, noteVars>>
  BY DEF ReceiveSuback, ReceiveUnsuback
<1>5. table' \in [Names -> Nat]
  <2>1. CASE ReceiveSuback(m)
    <3>1. m.id \in Nat
      BY <1>2, <2>1 DEF ReceiveSuback, Answers
    <3>2. \/ UNCHANGED table
          \/ table' = [table EXCEPT ![m.topic] = m.id]
      BY <2>1 DEF ReceiveSuback
    <3> QED
      BY <1>1, <3>1, <3>2 DEF ManagersTypeOK
  <2>2. CASE ReceiveUnsuback(m)
    BY <1>1, <2>2 DEF ReceiveUnsuback, ManagersTypeOK
  <2> QED
    BY <2>1, <2>2
<1> HIDE DEF i
<1>6. subs' \in Seq(SubElements) /\ subLast' \in -1..Len(subs')
  <2>1. CASE UNCHANGED <<subs, subLast>>
    BY <1>1, <2>1 DEF ManagersTypeOK
  <2>2. CASE i # 0 /\ subs' = [subs EXCEPT ![i].done = TRUE, ![i].refused = FALSE] /\ UNCHANGED subLast
    <3> DEFINE e == [subs[i] EXCEPT !.done = TRUE, !.refused = FALSE]
    <3>1. e \in SubElements
      <4>1. subs[i] \in SubElements
        BY <1>3, <2>2
      <4> QED
        BY <4>1 DEF SubElements
    <3>2. subs' = [subs EXCEPT ![i] = e]
      BY <1>3, <2>2
    <3> HIDE DEF e
    <3>3. [subs EXCEPT ![i] = e] \in Seq(SubElements) /\ Len([subs EXCEPT ![i] = e]) = Len(subs)
      BY <1>3, <2>2, <3>1
    <3>4. subLast' = subLast /\ subLast \in -1..Len(subs)
      BY <1>1, <2>2 DEF ManagersTypeOK
    <3> QED
      BY <3>2, <3>3, <3>4
  <2>3. CASE i # 0 /\ RemoveElement(i)
    BY <1>1, <1>3, <2>3, RemovedTyped
  <2> QED
    BY <1>4, <2>1, <2>2, <2>3
<1>7. ManagersTypeOK'
  BY <1>1, <1>4, <1>5, <1>6 DEF ManagersTypeOK
<1> QED
  BY <1>2, <1>4, <1>7, PartsKept DEF TypeOK

LEMMA OtherReceiveTyped ==
    ASSUME TypeOK, UNCHANGED sessionVars, toClient # <<>>, NEW m, m = Head(toClient),
           ReceivePingresp(m) \/ ReceiveDisconnect(m) \/ ReceiveOther(m)
    PROVE  TypeOK'
<1> USE DEF sessionVars, managerVars, netVars, noteVars
<1>1. ProxyTypeOK /\ CallsTypeOK /\ ChannelsTypeOK
  BY DEF TypeOK
<1>2. ChannelsTypeOK' /\ UNCHANGED <<managerVars, tests, noteVars>>
  BY <1>1, Taken DEF ReceivePingresp, ReceiveDisconnect, ReceiveOther
<1>3. CASE ReceivePingresp(m)
  <2>1. PICK wakes \in BOOLEAN :
           /\ wakes = (proxy.tSleep /\ proxy.tWake + 1 >= SleepPings)
           /\ proxy' = [proxy EXCEPT !.waitPing = FALSE, !.pingRetry = 0, !.keepAlive = TRUE,
                            !.tWake = IF wakes THEN 0 ELSE IF proxy.tSleep THEN @ + 1 ELSE @]
           /\ IF wakes THEN Call(<<[op |-> "connect"]>>) ELSE UNCHANGED todo
    BY <1>3 DEF ReceivePingresp
  <2>2. (IF wakes THEN 0 ELSE IF proxy.tSleep THEN proxy.tWake + 1 ELSE proxy.tWake) \in 0..SleepPings - 1
    BY <1>1, <2>1, TesterAssumption DEF ProxyTypeOK
  <2>3. ProxyTypeOK'
    BY <1>1, <2>1, <2>2, Counts DEF ProxyTypeOK
  <2>4. CallsTypeOK'
    <3>1. <<[op |-> "connect"]>> \in Seq(Calls)
      BY CallTypes
    <3> QED
      BY <1>1, <1>2, <2>1, <3>1, Called DEF CallsTypeOK
  <2> QED
    BY <1>2, <2>3, <2>4, PartsKept DEF TypeOK
<1>4. CASE ReceiveDisconnect(m)
  <2>1. ProxyTypeOK'
    BY <1>1, <1>4 DEF ReceiveDisconnect, ProxyTypeOK
  <2> QED
    BY <1>2, <1>4, <2>1, PartsKept DEF ReceiveDisconnect, TypeOK
<1>5. CASE ReceiveOther(m)
  BY <1>2, <1>5, PartsKept DEF ReceiveOther, TypeOK
<1> QED
  BY <1>3, <1>4, <1>5

LEMMA ReceiveTyped ==
    ASSUME TypeOK, toClient # <<>>, ClientStep(Receive(Head(toClient)))
    PROVE  TypeOK'
<1>1. UNCHANGED sessionVars /\ Receive(Head(toClient))
  BY DEF ClientStep
<1> QED
  BY <1>1, ConnectReceiveTyped, PubackTyped, PubrecTyped, RegackTyped, SubackTyped, OtherReceiveTyped
  DEF Receive

----------------------------------------------------------------------------
(* TypeOK is inductive: a timer is up, a test begins or the program ends. *)

LEMMA ConnectTimeoutTyped ==
    ASSUME TypeOK, UNCHANGED sessionVars, ConnectTimeout \/ DisconnectTimeout
    PROVE  TypeOK'
<1> USE DEF sessionVars, managerVars, netVars, noteVars
<1>1. ProxyTypeOK /\ CallsTypeOK /\ ChannelsTypeOK
  BY DEF TypeOK
<1>2. faults' \in 0..MaxFaults /\ UNCHANGED <<managerVars, tests, noteVars>>
  BY <1>1, TimePassed DEF ConnectTimeout, DisconnectTimeout
<1>3. todo # <<>> /\ (UNCHANGED todo \/ Return)
  BY DEF ConnectTimeout, DisconnectTimeout, ConnectWaits, In
<1>4. CallsTypeOK'
  BY <1>1, <1>2, <1>3, Called, CallTypes DEF CallsTypeOK
<1>5. PICK m \in Requests : Write(m) \/ UNCHANGED netVars
  <2>1. CASE ConnectTimeout
    BY <2>1, RequestTypes DEF ConnectTimeout
  <2>2. CASE DisconnectTimeout
    <3>1. proxy.tSleep \in BOOLEAN
      BY <1>1 DEF ProxyTypeOK
    <3> QED
      BY <2>2, <3>1, RequestTypes DEF DisconnectTimeout
  <2> QED
    BY <2>1, <2>2
<1>6. ChannelsTypeOK'
  BY <1>1, <1>2, <1>5, Written DEF ChannelsTypeOK
<1>7. \/ proxy.retry > 0 /\ proxy' = [proxy EXCEPT !.retry = @ - 1]
      \/ proxy' = [proxy EXCEPT !.status = "LOST", !.retry = 0]
      \/ proxy' = [proxy EXCEPT !.status = "LOST"]
  <2>1. proxy.retry > 1 => proxy.retry > 0
    BY <1>1, TesterAssumption DEF ProxyTypeOK
  <2> QED
    BY <2>1 DEF ConnectTimeout, DisconnectTimeout
<1>8. ProxyTypeOK'
  <2>1. proxy.retry > 0 => proxy.retry - 1 \in 0..RetryCount
    BY <1>1, TesterAssumption DEF ProxyTypeOK
  <2> QED
    BY <1>1, <1>7, <2>1, Counts DEF ProxyTypeOK
<1> QED
  BY <1>2, <1>4, <1>6, <1>8, PartsKept DEF TypeOK

LEMMA PingTyped ==
    ASSUME TypeOK, UNCHANGED sessionVars, Ping \/ PingTimeout
    PROVE  TypeOK'
<1> USE DEF sessionVars, managerVars, netVars, noteVars
<1>1. ProxyTypeOK /\ ChannelsTypeOK
  BY DEF TypeOK
<1>2. faults' \in 0..MaxFaults /\ UNCHANGED <<managerVars, todo, tests, noteVars>>
  BY <1>1, TimePassed DEF Ping, PingTimeout
<1>3. Write(Msg("PINGREQ")) \/ UNCHANGED netVars
  BY DEF Ping, PingTimeout
<1>4. ChannelsTypeOK'
  BY <1>1, <1>2, <1>3, Written, RequestTypes DEF ChannelsTypeOK
<1>5. ProxyTypeOK'
  <2>1. proxy.pingRetry > 1 => proxy.pingRetry - 1 \in 0..RetryCount
    BY <1>1, TesterAssumption DEF ProxyTypeOK
  <2> QED
    BY <1>1, <2>1, Counts DEF Ping, PingTimeout, ProxyTypeOK
<1> QED
  BY <1>2, <1>4, <1>5, PartsKept DEF TypeOK

LEMMA PublishTimeoutTyped ==
    ASSUME TypeOK, UNCHANGED sessionVars, PublishTimeout \/ RegisterTimeout
    PROVE  TypeOK'
<1> USE DEF sessionVars, managerVars, netVars, noteVars
<1>1. ProxyTypeOK /\ ManagersTypeOK /\ CallsTypeOK /\ ChannelsTypeOK /\ NotesTypeOK
  BY DEF TypeOK
<1>2. /\ faults' \in 0..MaxFaults
      /\ UNCHANGED <<table, subs, subLast, pub, nextMsgId, tests, netVars, finished, wanted, conducted, crashed>>
  BY <1>1, TimePassed DEF PublishTimeout, RegisterTimeout
<1>3. ChannelsTypeOK'
  BY <1>1, <1>2 DEF ChannelsTypeOK
<1>4. CASE PublishTimeout
  <2>1. ProxyTypeOK'
    BY <1>1, <1>4 DEF PublishTimeout, ProxyTypeOK
  <2>2. <<[op |-> "connect"], [op |-> "reconnected"]>> \in Seq(Calls)
    <3>1. [op |-> "connect"] \in Calls /\ [op |-> "reconnected"] \in Calls
      BY CallTypes
    <3> QED
      BY <3>1
  <2>3. Call(SendsPublish) \/ Call(<<[op |-> "connect"], [op |-> "reconnected"]>>)
    BY <1>4 DEF PublishTimeout
  <2>4. CallsTypeOK'
    BY <1>1, <1>2, <2>2, <2>3, Called, CallTypes DEF CallsTypeOK
  <2> QED
    BY <1>3, <1>4, <2>1, <2>4, PartsKept DEF PublishTimeout, TypeOK
<1>5. CASE RegisterTimeout
  <2>0. reg[1].topic \in Names /\ reg[1].msgID \in Nat
    <3>1. reg[1] \in RegElements
      BY <1>1, <1>5, ElementTypes DEF RegisterTimeout
    <3> QED
      BY <3>1 DEF RegElements
  <2>1. /\ \/ Call(SendsRegister(reg[1].topic, reg[1].msgID)) /\ UNCHANGED <<reg, gaveUp>>
           \/ reg' = <<>> /\ gaveUp' = (gaveUp \/ Waits({"SUSPEND"})) /\ UNCHANGED todo
        /\ UNCHANGED proxy
    BY <1>5 DEF RegisterTimeout
  <2>2. CallsTypeOK'
    BY <1>1, <1>2, <2>0, <2>1, Called, CallTypes DEF CallsTypeOK
  <2>3. ManagersTypeOK'
    BY <1>1, <1>2, <2>1, ElementTypes DEF ManagersTypeOK
  <2>4. NotesTypeOK'
    BY <1>1, <1>2, <2>1 DEF NotesTypeOK
  <2> QED
    BY <1>3, <2>1, <2>2, <2>3, <2>4, PartsKept DEF TypeOK
<1> QED
  BY <1>4, <1>5

\* LSubscribeManager::checkTimeout
LEMMA SubTimeoutTyped ==
    ASSUME TypeOK, UNCHANGED sessionVars, NEW i \in DOMAIN subs, SubTimeout(i)
    PROVE  TypeOK'
<1> USE DEF sessionVars, managerVars, netVars, noteVars
<1>1. ManagersTypeOK /\ CallsTypeOK /\ ChannelsTypeOK
  BY DEF TypeOK
<1>2. /\ faults' \in 0..MaxFaults
      /\ UNCHANGED <<proxy, table, subLast, reg, pub, tests, netVars, noteVars>>
  BY <1>1, TimePassed DEF SubTimeout
<1>3. ChannelsTypeOK'
  BY <1>1, <1>2 DEF ChannelsTypeOK
<1> DEFINE e     == subs[i]
           msgID == IF e.retry = RetryCount THEN nextMsgId + 1 ELSE e.msgID
<1>4. /\ subs \in Seq(SubElements) /\ subLast \in -1..Len(subs) /\ Len(subs) \in Nat
      /\ e \in SubElements /\ nextMsgId \in Nat
  BY <1>1 DEF ManagersTypeOK
<1>5. \/ /\ subs' = [subs EXCEPT ![i].msgID = msgID]
         /\ nextMsgId' = IF e.retry = RetryCount THEN msgID ELSE nextMsgId
         /\ Call(SendsSub(e.type, e.topic, msgID))
      \/ /\ subs' = [subs EXCEPT ![i].done = TRUE, ![i].refused = TRUE]
         /\ UNCHANGED <<nextMsgId, todo>>
  BY DEF SubTimeout
<1>6. /\ msgID \in Nat /\ e.type \in {"SUBSCRIBE", "UNSUBSCRIBE"} /\ e.topic \in Topics
  BY <1>4 DEF SubElements
<1> HIDE DEF msgID
<1>7. CASE /\ subs' = [subs EXCEPT ![i].msgID = msgID]
           /\ nextMsgId' = IF e.retry = RetryCount THEN msgID ELSE nextMsgId
           /\ Call(SendsSub(e.type, e.topic, msgID))
  <2> DEFINE r == [subs[i] EXCEPT !.msgID = msgID]
  <2>1. r \in SubElements
    BY <1>4, <1>6 DEF SubElements
  <2>2. subs' = [subs EXCEPT ![i] = r]
    BY <1>4, <1>7
  <2> HIDE DEF r
  <2>3. [subs EXCEPT ![i] = r] \in Seq(SubElements) /\ Len([subs EXCEPT ![i] = r]) = Len(subs)
    BY <1>4, <2>1
  <2>4. ManagersTypeOK'
    <3>1. subs' \in Seq(SubElements) /\ Len(subs') = Len(subs)
      BY <2>2, <2>3
    <3> QED
      BY <1>1, <1>2, <1>4, <1>6, <1>7, <3>1 DEF ManagersTypeOK
  <2>5. CallsTypeOK'
    <3>1. SendsSub(e.type, e.topic, msgID) \in Seq(Calls)
      BY <1>6, CallTypes
    <3> QED
      BY <1>1, <1>2, <1>7, <3>1, Called DEF CallsTypeOK
  <2> QED
    BY <1>2, <1>3, <2>4, <2>5, PartsKept DEF TypeOK
<1>8. CASE /\ subs' = [subs EXCEPT ![i].done = TRUE, ![i].refused = TRUE]
           /\ UNCHANGED <<nextMsgId, todo>>
  <2> DEFINE r == [subs[i] EXCEPT !.done = TRUE, !.refused = TRUE]
  <2>1. r \in SubElements
    BY <1>4 DEF SubElements
  <2>2. subs' = [subs EXCEPT ![i] = r]
    BY <1>4, <1>8
  <2> HIDE DEF r
  <2>3. [subs EXCEPT ![i] = r] \in Seq(SubElements) /\ Len([subs EXCEPT ![i] = r]) = Len(subs)
    BY <1>4, <2>1
  <2>4. ManagersTypeOK'
    <3>1. subs' \in Seq(SubElements) /\ Len(subs') = Len(subs)
      BY <2>2, <2>3
    <3> QED
      BY <1>1, <1>2, <1>4, <1>8, <3>1 DEF ManagersTypeOK
  <2> QED
    BY <1>2, <1>3, <1>8, <2>4, PartsKept DEF TypeOK
<1> QED
  BY <1>5, <1>7, <1>8

LEMMA TimeoutTyped ==
    ASSUME TypeOK, ClientStep(Timeout) \/ ClientStep(Ping)
    PROVE  TypeOK'
BY ConnectTimeoutTyped, PingTyped, PublishTimeoutTyped, SubTimeoutTyped DEF ClientStep, Timeout

\* LTaskManager::run
LEMMA TestTyped ==
    ASSUME TypeOK, ClientStep(RunTest) \/ ClientStep(ProgramEnds)
    PROVE  TypeOK'
<1> USE DEF sessionVars, managerVars, netVars, noteVars
<1>1. CallsTypeOK /\ UNCHANGED <<proxy, managerVars, netVars, faults, noteVars, sessionVars>>
  BY DEF ClientStep, RunTest, ProgramEnds, TypeOK
<1>2. CASE RunTest
  <2>1. PICK test \in Tests :
           Call(<<[op |-> test.do, topic |-> test.topic, qos |-> test.qos], [op |-> "busy"]>>)
    BY <1>2 DEF RunTest
  <2> DEFINE call == [op |-> test.do, topic |-> test.topic, qos |-> test.qos]
             busy == [op |-> "busy"]
  <2>2. call \in Calls
    <3>1. \/ test \in [do : {"publish"}, topic : Names, qos : 0..2]
          \/ test \in [do : {"subscribe", "unsubscribe", "sleep", "disconnect"}, topic : Topics, qos : 0..2]
      BY TesterAssumption DEF Topics
    <3>2. CASE test \in [do : {"publish"}, topic : Names, qos : 0..2]
      BY <3>2 DEF Calls
    <3>3. CASE test \in [do : {"subscribe", "unsubscribe", "sleep", "disconnect"}, topic : Topics, qos : 0..2]
      BY <3>3 DEF Calls
    <3> QED
      BY <3>1, <3>2, <3>3
  <2>3. busy \in Calls
    BY CallTypes
  <2>4. Call(<<call, busy>>)
    BY <2>1
  <2> HIDE DEF call, busy
  <2>5. <<call, busy>> \in Seq(Calls)
    BY <2>2, <2>3
  <2>6. tests' \in 0..MaxTests
    BY <1>1, <1>2, TesterAssumption DEF RunTest, CallsTypeOK
  <2>7. CallsTypeOK'
    BY <1>1, <2>4, <2>5, <2>6, Called DEF CallsTypeOK
  <2> QED
    BY <1>1, <2>7, PartsKept DEF TypeOK
<1>3. CASE ProgramEnds
  <2>1. CallsTypeOK'
    BY <1>1, <1>3, CallTypes DEF ProgramEnds, CallsTypeOK
  <2> QED
    BY <1>1, <2>1, PartsKept DEF TypeOK
<1> QED
  BY <1>2, <1>3 DEF ClientStep

----------------------------------------------------------------------------
(* TypeOK is inductive: the gateway and the broker. *)

LEMMA AnswerTypes ==
    /\ <<>> \in Seq(Answers)
    /\ \A a \in Answers : <<a>> \in Seq(Answers)
    /\ Msg("GWINFO") \in Answers /\ Msg("PINGRESP") \in Answers
    /\ \A b \in BOOLEAN : Connack(b) \in Answers /\ DisconnectMsg(b) \in Answers
    /\ \A msgID \in Nat :
          /\ \A id \in Nat : [type |-> "REGACK", msgID |-> msgID, id |-> id] \in Answers
          /\ \A b \in BOOLEAN : [type |-> "PUBACK", msgID |-> msgID, accepted |-> b] \in Answers
          /\ \A type \in {"PUBREC", "PUBCOMP", "UNSUBACK"} : [type |-> type, msgID |-> msgID] \in Answers
          /\ \A topic \in Topics, id \in Nat, b \in BOOLEAN :
                [type |-> "SUBACK", msgID |-> msgID, topic |-> topic, id |-> id, accepted |-> b] \in Answers
<1>1. \A a \in Answers : <<a>> \in Seq(Answers)
  OBVIOUS
<1> QED
  BY <1>1 DEF Msg, Connack, DisconnectMsg, Answers

LEMMA TakenTyped ==
    ASSUME ChannelsTypeOK, toGateway # <<>>, NEW m, NEW answers \in Seq(Answers), Takes(m, answers)
    PROVE  /\ toGateway' \in Seq(Requests) /\ toClient' \in Seq(Answers)
           /\ Head(toGateway) \in Requests
           /\ UNCHANGED <<proxy, managerVars, todo, tests, finished, wanted, gaveUp, crashed>>
BY HeadElement, ConcatElements DEF ChannelsTypeOK, Takes

\* Beyond the answer a handler changes only what the gateway has and what is noted of it.
LEMMA TakesTyped ==
    ASSUME TypeOK, toGateway # <<>>, NEW m, NEW answers \in Seq(Answers), Takes(m, answers),
           SessionTypeOK', faults' \in 0..MaxFaults, conducted' \in BOOLEAN
    PROVE  TypeOK'
<1> USE DEF managerVars
<1>1. ChannelsTypeOK /\ NotesTypeOK
  BY DEF TypeOK
<1>2. /\ toGateway' \in Seq(Requests) /\ toClient' \in Seq(Answers)
      /\ UNCHANGED <<proxy, managerVars, todo, tests, finished, wanted, gaveUp, crashed>>
  BY <1>1, TakenTyped
<1>3. ChannelsTypeOK'
  BY <1>2 DEF ChannelsTypeOK
<1>4. NotesTypeOK'
  BY <1>1, <1>2 DEF NotesTypeOK
<1> QED
  BY <1>2, <1>3, <1>4, PartsKept DEF TypeOK

LEMMA AddTopicTyped ==
    ASSUME SessionTypeOK, NEW name \in Names, AddTopic(name)
    PROVE  topics' \in [Names -> Nat] /\ nextTopicId' \in Nat /\ topics'[name] \in Nat
BY DEF SessionTypeOK, AddTopic

LEMMA ConnectHandled ==
    ASSUME TypeOK, toGateway # <<>>, NEW m,
           HandleSearchgw(m) \/ HandleConnect(m) \/ HandleConnectRefused(m) \/ HandlePingreq(m)
             \/ (HandlePubrel(m) /\ m \in Requests) \/ HandleIgnored(m)
    PROVE  TypeOK'
<1> USE DEF sessionVars
<1>1. SessionTypeOK /\ conducted \in BOOLEAN /\ faults \in 0..MaxFaults
  BY DEF TypeOK, NotesTypeOK, ChannelsTypeOK
<1>2. CASE HandleSearchgw(m) \/ HandlePingreq(m) \/ HandleIgnored(m)
  <2>1. PICK answers \in Seq(Answers) : Takes(m, answers)
    BY <1>2, AnswerTypes DEF HandleSearchgw, HandlePingreq, HandleIgnored
  <2>2. SessionTypeOK' /\ UNCHANGED <<faults, conducted>>
    BY <1>1, <1>2 DEF HandleSearchgw, HandlePingreq, HandleIgnored, SessionTypeOK
  <2> QED
    BY <1>1, <2>1, <2>2, TakesTyped
<1>3. CASE HandlePubrel(m) /\ m \in Requests
  <2>1. m.msgID \in Nat
    BY <1>3 DEF HandlePubrel, Requests
  <2> DEFINE answer == [type |-> "PUBCOMP", msgID |-> m.msgID]
  <2>2. answer \in Answers /\ Takes(m, <<answer>>)
    BY <1>3, <2>1, AnswerTypes DEF HandlePubrel
  <2> HIDE DEF answer
  <2>3. SessionTypeOK' /\ UNCHANGED <<faults, conducted>>
    BY <1>1, <1>3 DEF HandlePubrel, SessionTypeOK
  <2>4. <<answer>> \in Seq(Answers)
    BY <2>2
  <2> QED
    BY <1>1, <2>2, <2>3, <2>4, TakesTyped
<1>4. CASE HandleConnect(m) \/ HandleConnectRefused(m)
  <2>1. PICK answers \in Seq(Answers) : Takes(m, answers)
    BY <1>4, AnswerTypes DEF HandleConnect, HandleConnectRefused
  <2>2. NoTopics \in [Names -> Nat]
    BY DEF NoTopics
  <2>3. SessionTypeOK' /\ conducted' \in BOOLEAN
    BY <1>1, <1>4, <2>2 DEF HandleConnect, HandleConnectRefused, SessionTypeOK
  <2>4. faults' \in 0..MaxFaults
    BY <1>1, <1>4, TesterAssumption DEF HandleConnect, HandleConnectRefused, Fault
  <2> QED
    BY <2>1, <2>3, <2>4, TakesTyped
<1> QED
  BY <1>2, <1>3, <1>4

LEMMA EraseTyped ==
    ASSUME SessionTypeOK, Erase, UNCHANGED handled
    PROVE  SessionTypeOK'
BY DEF SessionTypeOK, Erase, NoTopics

LEMMA DisconnectHandled ==
    ASSUME TypeOK, toGateway # <<>>, NEW m, HandleDisconnect(m)
    PROVE  TypeOK'
<1>1. SessionTypeOK /\ conducted \in BOOLEAN /\ faults \in 0..MaxFaults
  BY DEF TypeOK, NotesTypeOK, ChannelsTypeOK
<1>2. Takes(m, <<DisconnectMsg(FALSE)>>) /\ <<DisconnectMsg(FALSE)>> \in Seq(Answers)
  BY AnswerTypes DEF HandleDisconnect
<1>3. SessionTypeOK'
  <2>1. CASE ~m.sleeps
    BY <1>1, <2>1, EraseTyped DEF HandleDisconnect
  <2>2. CASE m.sleeps
    BY <1>1, <2>2 DEF HandleDisconnect, SessionTypeOK
  <2> QED
    BY <2>1, <2>2
<1>4. UNCHANGED <<faults, conducted>>
  BY DEF HandleDisconnect
<1> QED
  BY <1>1, <1>2, <1>3, <1>4, TakesTyped

LEMMA PublishHandled ==
    ASSUME TypeOK, toGateway # <<>>, NEW m \in Requests, HandlePublish(m)
    PROVE  TypeOK'
<1>1. SessionTypeOK /\ conducted \in BOOLEAN /\ faults \in 0..MaxFaults
  BY DEF TypeOK, NotesTypeOK, ChannelsTypeOK
<1>2. m.msgID \in Nat
  BY DEF HandlePublish, Requests
<1>3. PICK valid \in BOOLEAN :
         /\ handled' = IF valid /\ m.qos > 0 THEN handled \cup {m.msgID} ELSE handled
         /\ \/ Takes(m, <<>>)
            \/ Takes(m, <<[type |-> "PUBREC", msgID |-> m.msgID]>>)
            \/ Takes(m, <<[type |-> "PUBACK", msgID |-> m.msgID, accepted |-> valid]>>)
  BY DEF HandlePublish
<1>4. PICK answers \in Seq(Answers) : Takes(m, answers)
  <2>1. CASE Takes(m, <<>>)
    BY <2>1, AnswerTypes
  <2>2. CASE Takes(m, <<[type |-> "PUBREC", msgID |-> m.msgID]>>)
    <3>1. [type |-> "PUBREC", msgID |-> m.msgID] \in Answers
      BY <1>2, AnswerTypes
    <3> QED
      BY <2>2, <3>1, AnswerTypes
  <2>3. CASE Takes(m, <<[type |-> "PUBACK", msgID |-> m.msgID, accepted |-> valid]>>)
    <3>1. [type |-> "PUBACK", msgID |-> m.msgID, accepted |-> valid] \in Answers
      BY <1>2, AnswerTypes
    <3> QED
      BY <2>3, <3>1, AnswerTypes
  <2> QED
    BY <1>3, <2>1, <2>2, <2>3
<1>5. UNCHANGED <<status, topics, nextTopicId, brokerSubs, faults, conducted>>
  BY DEF HandlePublish
<1>6. SessionTypeOK'
  BY <1>1, <1>2, <1>3, <1>5 DEF SessionTypeOK
<1> QED
  BY <1>1, <1>4, <1>5, <1>6, TakesTyped

LEMMA RegisterHandled ==
    ASSUME TypeOK, toGateway # <<>>, NEW m \in Requests, HandleRegister(m)
    PROVE  TypeOK'
<1>1. SessionTypeOK /\ conducted \in BOOLEAN /\ faults \in 0..MaxFaults
  BY DEF TypeOK, NotesTypeOK, ChannelsTypeOK
<1>2. m.msgID \in Nat /\ m.topic \in Names
  BY DEF HandleRegister, Requests
<1>3. /\ AddTopic(m.topic) /\ UNCHANGED <<status, brokerSubs, handled, faults, conducted>>
      /\ Takes(m, <<[type |-> "REGACK", msgID |-> m.msgID, id |-> topics'[m.topic]]>>)
  BY DEF HandleRegister
<1>4. topics' \in [Names -> Nat] /\ nextTopicId' \in Nat /\ topics'[m.topic] \in Nat
  BY <1>1, <1>2, <1>3, AddTopicTyped
<1>5. SessionTypeOK'
  BY <1>1, <1>3, <1>4 DEF SessionTypeOK
<1>6. [type |-> "REGACK", msgID |-> m.msgID, id |-> topics'[m.topic]] \in Answers
  BY <1>2, <1>4, AnswerTypes
<1>7. <<[type |-> "REGACK", msgID |-> m.msgID, id |-> topics'[m.topic]]>> \in Seq(Answers)
  BY <1>6, AnswerTypes
<1> QED
  BY <1>1, <1>3, <1>5, <1>7, TakesTyped

LEMMA SubscribeHandled ==
    ASSUME TypeOK, toGateway # <<>>, NEW m \in Requests, HandleSubscribe(m) \/ HandleUnsubscribe(m)
    PROVE  TypeOK'
<1>1. SessionTypeOK /\ conducted \in BOOLEAN /\ faults \in 0..MaxFaults
  BY DEF TypeOK, NotesTypeOK, ChannelsTypeOK
<1>2. m.msgID \in Nat /\ m.topic \in Topics
  <2>1. m.type \in {"SUBSCRIBE", "UNSUBSCRIBE"}
    BY DEF HandleSubscribe, HandleUnsubscribe
  <2> QED
    BY <2>1 DEF Requests
<1>3. UNCHANGED <<status, handled, faults, conducted>>
  BY DEF HandleSubscribe, HandleUnsubscribe
<1>4. CASE HandleUnsubscribe(m)
  <2>1. /\ Takes(m, <<[type |-> "UNSUBACK", msgID |-> m.msgID]>>)
        /\ brokerSubs' = brokerSubs \ {m.topic} /\ UNCHANGED <<topics, nextTopicId>>
    BY <1>4 DEF HandleUnsubscribe
  <2>2. [type |-> "UNSUBACK", msgID |-> m.msgID] \in Answers
    BY <1>2, AnswerTypes
  <2>3. <<[type |-> "UNSUBACK", msgID |-> m.msgID]>> \in Seq(Answers)
    BY <2>2, AnswerTypes
  <2>4. SessionTypeOK'
    BY <1>1, <1>3, <2>1 DEF SessionTypeOK
  <2> QED
    BY <1>1, <1>3, <2>1, <2>3, <2>4, TakesTyped
<1>5. CASE HandleSubscribe(m)
  <2> DEFINE refusal == [type |-> "SUBACK", msgID |-> m.msgID, topic |-> m.topic, id |-> 0, accepted |-> FALSE]
             consent == [type |-> "SUBACK", msgID |-> m.msgID, topic |-> m.topic, accepted |-> TRUE,
                         id |-> IF m.topic \in Names THEN topics'[m.topic] ELSE 0]
  <2>1. \/ Takes(m, <<refusal>>) /\ UNCHANGED <<topics, nextTopicId, brokerSubs>>
        \/ /\ IF m.topic \in Names THEN AddTopic(m.topic) ELSE UNCHANGED <<topics, nextTopicId>>
           /\ brokerSubs' = brokerSubs \cup {m.topic}
           /\ Takes(m, <<consent>>)
    BY <1>5 DEF HandleSubscribe
  <2>2. SessionTypeOK'
    BY <1>1, <1>2, <1>3, <2>1, AddTopicTyped DEF SessionTypeOK
  <2>3. refusal \in Answers
    BY <1>2, AnswerTypes
  <2>4. consent \in Answers
    <3>1. (IF m.topic \in Names THEN topics'[m.topic] ELSE 0) \in Nat
      BY <2>2 DEF SessionTypeOK
    <3> QED
      BY <1>2, <3>1 DEF Answers
  <2> HIDE DEF refusal, consent
  <2>5. <<refusal>> \in Seq(Answers) /\ <<consent>> \in Seq(Answers)
    BY <2>3, <2>4
  <2> QED
    BY <1>1, <1>3, <2>1, <2>2, <2>5, TakesTyped
<1> QED
  BY <1>4, <1>5

LEMMA HandleTyped ==
    ASSUME TypeOK, toGateway # <<>>,
           Handle(Head(toGateway)) \/ HandleConnectRefused(Head(toGateway))
    PROVE  TypeOK'
<1>1. Head(toGateway) \in Requests
  BY HeadElement DEF TypeOK, ChannelsTypeOK
<1> QED
  BY <1>1, ConnectHandled, DisconnectHandled, PublishHandled, RegisterHandled, SubscribeHandled DEF Handle

\* A message or the broker's connection is lost.
LEMMA LossTyped ==
    ASSUME TypeOK, BrokerCloses \/ Lose
    PROVE  TypeOK'
<1> USE DEF netVars, managerVars, noteVars, sessionVars
<1>1. ChannelsTypeOK /\ SessionTypeOK
  BY DEF TypeOK
<1>2. UNCHANGED <<proxy, managerVars, todo, tests, noteVars>> /\ Fault
  BY DEF BrokerCloses, Lose
<1>3. faults' \in 0..MaxFaults
  BY <1>1, <1>2, TesterAssumption DEF ChannelsTypeOK, Fault
<1>4. CASE BrokerCloses
  <2>1. ChannelsTypeOK'
    BY <1>1, <1>3, <1>4 DEF BrokerCloses, ChannelsTypeOK
  <2>2. SessionTypeOK'
    BY <1>1, <1>4, EraseTyped DEF BrokerCloses
  <2> QED
    BY <1>2, <2>1, <2>2, PartsKept DEF TypeOK
<1>5. CASE Lose
  <2>1. toGateway \in Seq(Requests) /\ toClient \in Seq(Answers)
    BY <1>1 DEF ChannelsTypeOK
  <2>2. DOMAIN toGateway = 1..Len(toGateway) /\ DOMAIN toClient = 1..Len(toClient)
    BY <2>1
  <2>3. toGateway' \in Seq(Requests) /\ toClient' \in Seq(Answers)
    BY <1>5, <2>1, <2>2, WithoutElement DEF Lose
  <2>4. ChannelsTypeOK'
    BY <1>3, <2>3 DEF ChannelsTypeOK
  <2> QED
    BY <1>2, <1>5, <2>4, PartsKept DEF Lose, TypeOK
<1> QED
  BY <1>4, <1>5

LEMMA InitTyped == Init => TypeOK
<1> SUFFICES ASSUME Init PROVE TypeOK
  OBVIOUS
<1>1. ProxyTypeOK
  BY Counts DEF Init, TesterInit, ProxyTypeOK
<1>2. ManagersTypeOK
  <2>1. <<>> \in Seq(SubElements) /\ <<>> \in Seq(RegElements) /\ <<>> \in Seq(PubElements) /\ Len(<<>>) = 0
    OBVIOUS
  <2> QED
    BY <2>1 DEF Init, TesterInit, ManagersTypeOK
<1>3. CallsTypeOK
  <2>1. [op |-> "connect"] \in Calls /\ [op |-> "prompt"] \in Calls
    BY CallTypes
  <2>2. <<[op |-> "connect"], [op |-> "prompt"]>> \in Seq(Calls)
    BY <2>1
  <2> QED
    BY <2>2, TesterAssumption DEF Init, TesterInit, CallsTypeOK
<1>4. ChannelsTypeOK
  BY TesterAssumption DEF Init, TesterInit, ChannelsTypeOK
<1>5. SessionTypeOK
  BY DEF Init, NoTopics, SessionTypeOK
<1>6. NotesTypeOK
  BY DEF Init, TesterInit, NotesTypeOK
<1> QED
  BY <1>1, <1>2, <1>3, <1>4, <1>5, <1>6 DEF TypeOK

LEMMA StutterTyped ==
    ASSUME TypeOK, UNCHANGED vars
    PROVE  TypeOK'
BY PartsKept DEF vars, clientVars, netVars, sessionVars, managerVars, noteVars, TypeOK

\* Whatever is lost and whenever the timers are up: the variables of the library and of the
\* gateway's session have their types, among them that the two lists of the managers for
\* REGISTER and PUBLISH never have more than one element and that _last, if it does not point
\* to an element that was freed, points into the list.
THEOREM TypeCorrect == Spec => []TypeOK
<1>1. Init => TypeOK
  BY InitTyped
<1>2. TypeOK /\ [Next]_vars => TypeOK'
  BY ProceedTyped, TimeoutTyped, TestTyped, ReceiveTyped, HandleTyped, LossTyped, StutterTyped DEF Next
<1> QED
  BY <1>1, <1>2, PTL DEF Spec

----------------------------------------------------------------------------
(* What is reported as published was passed on to the broker. *)

\* An answer that says the PUBLISH with its id was passed on.
Confirms(m) == m.type = "PUBREC" \/ (m.type = "PUBACK" /\ m.accepted)

\* What the library has been told, and what it has concluded from that, is of PUBLISHes that
\* were passed on.
HandledFirst ==
    /\ \A m \in Elements(toClient) : Confirms(m) => m.msgID \in handled
    /\ pub # <<>> /\ pub[1].status = "WAIT_PUBCOMP" => pub[1].msgID \in handled
    /\ DoneIsHandled

\* Steps that bring no confirmation and conclude nothing.
LEMMA NothingConcluded ==
    ASSUME HandledFirst, handled \subseteq handled', UNCHANGED finished,
           Elements(toClient') \subseteq Elements(toClient),
           \/ UNCHANGED pub \/ pub' = <<>>
           \/ pub' # <<>> /\ pub'[1].status # "WAIT_PUBCOMP"
           \/ pub # <<>> /\ pub' # <<>> /\ pub'[1].status = pub[1].status /\ pub'[1].msgID = pub[1].msgID
    PROVE  HandledFirst'
BY DEF HandledFirst, DoneIsHandled, Confirms

LEMMA ReadElements ==
    ASSUME ChannelsTypeOK, toClient # <<>>
    PROVE  /\ Head(toClient) \in Elements(toClient)
           /\ Elements(Tail(toClient)) \subseteq Elements(toClient)
           /\ \A m : ReadOnly(m) => Elements(toClient') \subseteq Elements(toClient)
BY HeadElement DEF ChannelsTypeOK, ReadOnly, Read

LEMMA ProceedConcludes ==
    ASSUME TypeOK, HandledFirst, ClientStep(Proceed)
    PROVE  HandledFirst'
<1> USE DEF sessionVars, managerVars, netVars, noteVars
<1>1. UNCHANGED <<handled, toClient, finished>> /\ ManagersTypeOK
  BY DEF ClientStep, Proceed, ConnectReturns, ConnectSearches, ConnectSends, DisconnectBegins,
     PublishCalled, WritePublish, WriteRegister, Reconnected, SubscribeCalled, Resubscribe, WriteSub,
     OnConnectReturns, TestEnds, Write, TypeOK
<1>2. \/ UNCHANGED pub \/ pub' = <<>>
      \/ pub' # <<>> /\ pub'[1].status # "WAIT_PUBCOMP"
      \/ pub # <<>> /\ pub' # <<>> /\ pub'[1].status = pub[1].status /\ pub'[1].msgID = pub[1].msgID
  <2>1. CASE PublishCalled
    <3>1. PICK e : pub' = <<e>> /\ e.status # "WAIT_PUBCOMP"
      BY <2>1 DEF PublishCalled, RegisterTopic
    <3> QED
      BY <3>1
  <2>2. CASE WritePublish
    <3>1. CASE pub = <<>>
      BY <2>2, <3>1 DEF WritePublish
    <3>2. CASE pub # <<>>
      <4> DEFINE e == pub[1]
                 r == [e EXCEPT !.status = IF e.qos = 1 THEN "WAIT_PUBACK" ELSE "WAIT_PUBREC", !.retry = @ - 1]
      <4>1. pub' = IF e.qos = 0 THEN <<>> ELSE <<r>>
        BY <2>2, <3>2 DEF WritePublish
      <4>2. e \in PubElements
        BY <1>1, <3>2, ElementTypes
      <4>3. r.status # "WAIT_PUBCOMP"
        BY <4>2 DEF PubElements
      <4> HIDE DEF e, r
      <4> QED
        BY <4>1, <4>3
    <3> QED
      BY <3>1, <3>2
  <2>3. CASE Reconnected
    <3>1. pub' = [i \in DOMAIN pub |-> [pub[i] EXCEPT !.retry = RetryCount]]
      BY <2>3 DEF Reconnected
    <3>2. CASE pub = <<>>
      BY <3>1, <3>2
    <3>3. CASE pub # <<>>
      <4>1. pub[1] \in PubElements /\ DOMAIN pub = 1..Len(pub) /\ Len(pub) \in Nat /\ Len(pub) > 0
        BY <1>1, <3>3, ElementTypes DEF ManagersTypeOK
      <4>2. pub'[1] = [pub[1] EXCEPT !.retry = RetryCount] /\ 1 \in DOMAIN pub'
        BY <3>1, <4>1
      <4>3. pub' # <<>>
        BY <4>2
      <4> QED
        BY <3>3, <4>1, <4>2, <4>3 DEF PubElements
    <3> QED
      BY <3>2, <3>3
  <2>4. CASE ~PublishCalled /\ ~WritePublish /\ ~Reconnected
    BY <2>4 DEF ClientStep, Proceed, ConnectReturns, ConnectSearches, ConnectSends, DisconnectBegins,
       WriteRegister, SubscribeCalled, Resubscribe, WriteSub, OnConnectReturns, TestEnds
  <2> QED
    BY <2>1, <2>2, <2>3, <2>4
<1> QED
  BY <1>1, <1>2, NothingConcluded

LEMMA OthersConclude ==
    ASSUME TypeOK, HandledFirst,
           \/ ClientStep(Timeout) \/ ClientStep(Ping) \/ ClientStep(RunTest) \/ ClientStep(ProgramEnds)
           \/ BrokerCloses \/ Lose \/ UNCHANGED vars
    PROVE  HandledFirst'
<1> USE DEF sessionVars, managerVars, netVars, noteVars, clientVars, vars
<1>1. ChannelsTypeOK
  BY DEF TypeOK
<1>2. UNCHANGED <<handled, pub, finished>>
  <2>1. ASSUME NEW i \in DOMAIN subs, SubTimeout(i) PROVE UNCHANGED <<pub, finished>>
    BY <2>1 DEF SubTimeout
  <2> QED
    BY <2>1 DEF ClientStep, Timeout, ConnectTimeout, DisconnectTimeout, PublishTimeout, RegisterTimeout,
       PingTimeout, Ping, RunTest, ProgramEnds, BrokerCloses, Lose
<1>3. Elements(toClient') \subseteq Elements(toClient)
  <2>1. CASE Lose
    <3>1. toClient \in Seq(Answers) /\ DOMAIN toClient = 1..Len(toClient)
      BY <1>1 DEF ChannelsTypeOK
    <3>2. \/ UNCHANGED toClient
          \/ \E i \in 1..Len(toClient) : toClient' = RemoveAt(toClient, i)
      BY <2>1, <3>1 DEF Lose
    <3> QED
      BY <3>1, <3>2, WithoutElement
  <2>2. CASE ~Lose
    <3>1. ASSUME NEW i \in DOMAIN subs, SubTimeout(i) PROVE UNCHANGED toClient
      BY <3>1 DEF SubTimeout
    <3>2. UNCHANGED toClient
      BY <2>2, <3>1 DEF ClientStep, Timeout, ConnectTimeout, DisconnectTimeout, PublishTimeout,
         RegisterTimeout, PingTimeout, Ping, RunTest, ProgramEnds, BrokerCloses, Write
    <3> QED
      BY <3>2
  <2> QED
    BY <2>1, <2>2
<1> QED
  BY <1>2, <1>3, NothingConcluded

LEMMA ReceiveConcludes ==
    ASSUME TypeOK, HandledFirst, toClient # <<>>, ClientStep(Receive(Head(toClient)))
    PROVE  HandledFirst'
<1> USE DEF sessionVars, managerVars, netVars, noteVars
<1> DEFINE m == Head(toClient)
<1>1. ManagersTypeOK /\ ChannelsTypeOK /\ UNCHANGED handled /\ Receive(m)
  BY DEF ClientStep, TypeOK
<1>2. m \in Elements(toClient) /\ Elements(Tail(toClient)) \subseteq Elements(toClient)
  BY <1>1, ReadElements
<1> HIDE DEF m
<1>3. toClient' = Tail(toClient)
  BY <1>1 DEF Receive, ConnectFindsGateway, ConnectAccepted, ConnectRefused, ConnectDrops, DisconnectAnswered,
     DisconnectDrops, ReceivePuback, ReceivePubrec, ReceivePubcomp, ReceiveRegack, ReceiveSuback,
     ReceiveUnsuback, ReceivePingresp, ReceiveDisconnect, ReceiveOther, ReadOnly, ReadAndWrite, Read
<1>4. CASE ReceivePuback(m)
  <2>1. \/ UNCHANGED <<pub, finished>>
        \/ m.accepted /\ pub' = <<>> /\ finished' = finished \cup {m.msgID}
        \/ /\ pub # <<>> /\ pub' = <<[pub[1] EXCEPT !.status = "SUSPEND", !.id = 0, !.retry = RetryCount]>>
           /\ UNCHANGED finished
    BY <1>4 DEF ReceivePuback, RegisterTopic
  <2>2. CASE UNCHANGED <<pub, finished>>
    BY <1>1, <1>2, <1>3, <2>2, NothingConcluded
  <2>3. CASE m.accepted /\ pub' = <<>> /\ finished' = finished \cup {m.msgID}
    <3>1. m.type = "PUBACK"
      BY <1>4 DEF ReceivePuback
    <3> QED
      BY <1>1, <1>2, <1>3, <2>3, <3>1 DEF HandledFirst, DoneIsHandled, Confirms
  <2>4. CASE /\ pub # <<>> /\ pub' = <<[pub[1] EXCEPT !.status = "SUSPEND", !.id = 0, !.retry = RetryCount]>>
             /\ UNCHANGED finished
    <3> DEFINE r == [pub[1] EXCEPT !.status = "SUSPEND", !.id = 0, !.retry = RetryCount]
    <3>1. r.status = "SUSPEND"
      <4>1. pub[1] \in PubElements
        BY <1>1, <2>4, ElementTypes
      <4> QED
        BY <4>1 DEF PubElements
    <3>2. pub' = <<r>>
      BY <2>4
    <3> HIDE DEF r
    <3>3. pub' # <<>> /\ pub'[1].status # "WAIT_PUBCOMP"
      BY <3>1, <3>2
    <3> QED
      BY <1>1, <1>2, <1>3, <2>4, <3>3, NothingConcluded
  <2> QED
    BY <2>1, <2>2, <2>3, <2>4
<1>5. CASE ReceivePubrec(m)
  <2>1. UNCHANGED finished /\ m.type = "PUBREC"
    BY <1>5 DEF ReceivePubrec
  <2>2. CASE UNCHANGED pub
    BY <1>1, <1>2, <1>3, <2>1, <2>2, NothingConcluded
  <2>3. CASE /\ pub # <<>> /\ pub[1].msgID = m.msgID
             /\ pub' = <<[pub[1] EXCEPT !.status = "WAIT_PUBCOMP"]>>
    <3> DEFINE r == [pub[1] EXCEPT !.status = "WAIT_PUBCOMP"]
    <3>1. r.msgID = m.msgID
      <4>1. pub[1] \in PubElements
        BY <1>1, <2>3, ElementTypes
      <4> QED
        BY <2>3, <4>1 DEF PubElements
    <3>2. pub' = <<r>>
      BY <2>3
    <3> HIDE DEF r
    <3>3. pub'[1].msgID = m.msgID
      BY <3>1, <3>2
    <3> QED
      BY <1>1, <1>2, <1>3, <2>1, <3>3 DEF HandledFirst, DoneIsHandled, Confirms
  <2> QED
    BY <1>5, <2>2, <2>3 DEF ReceivePubrec, Waits
<1>6. CASE ReceivePubcomp(m)
  <2>1. \/ UNCHANGED <<pub, finished>>
        \/ /\ pub # <<>> /\ pub[1].status = "WAIT_PUBCOMP" /\ pub[1].msgID = m.msgID
           /\ pub' = <<>> /\ finished' = finished \cup {m.msgID}
    BY <1>6 DEF ReceivePubcomp, Waits
  <2>2. CASE UNCHANGED <<pub, finished>>
    BY <1>1, <1>2, <1>3, <2>2, NothingConcluded
  <2>3. CASE /\ pub # <<>> /\ pub[1].status = "WAIT_PUBCOMP" /\ pub[1].msgID = m.msgID
             /\ pub' = <<>> /\ finished' = finished \cup {m.msgID}
    BY <1>1, <1>2, <1>3, <2>3 DEF HandledFirst, DoneIsHandled, Confirms
  <2> QED
    BY <2>1, <2>2, <2>3
<1>7. CASE ReceiveRegack(m)
  <2> DEFINE r == [pub[1] EXCEPT !.id = m.id, !.status = "READY"]
  <2>1. UNCHANGED finished /\ (UNCHANGED pub \/ (pub # <<>> /\ pub' = <<r>>))
    BY <1>7 DEF ReceiveRegack, Waits
  <2>2. pub # <<>> => r.status = "READY"
    <3>1. pub # <<>> => pub[1] \in PubElements
      BY <1>1, ElementTypes
    <3> QED
      BY <3>1 DEF PubElements
  <2> HIDE DEF r
  <2>3. UNCHANGED pub \/ (pub' # <<>> /\ pub'[1].status # "WAIT_PUBCOMP")
    BY <2>1, <2>2
  <2> QED
    BY <1>1, <1>2, <1>3, <2>1, <2>3, NothingConcluded
<1>8. CASE ~ReceivePuback(m) /\ ~ReceivePubrec(m) /\ ~ReceivePubcomp(m) /\ ~ReceiveRegack(m)
  <2>1. UNCHANGED <<pub, finished>>
    BY <1>1, <1>8 DEF Receive, ConnectFindsGateway, ConnectAccepted, ConnectRefused, ConnectDrops,
       DisconnectAnswered, DisconnectDrops, ReceiveSuback, ReceiveUnsuback, ReceivePingresp,
       ReceiveDisconnect, ReceiveOther
  <2> QED
    BY <1>1, <1>2, <1>3, <2>1, NothingConcluded
<1> QED
  BY <1>4, <1>5, <1>6, <1>7, <1>8

\* An answer that confirms nothing, or confirms what is handled.
LEMMA AnswerConcludes ==
    ASSUME TypeOK, HandledFirst, NEW m, NEW a \in Answers,
           Takes(m, <<a>>) \/ Takes(m, <<>>),
           handled \subseteq handled', Confirms(a) => a.msgID \in handled'
    PROVE  HandledFirst'
<1>1. toClient \in Seq(Answers) /\ UNCHANGED <<pub, finished>>
  BY DEF TypeOK, ChannelsTypeOK, Takes, managerVars
<1>2. <<a>> \in Seq(Answers) /\ <<>> \in Seq(Answers)
  OBVIOUS
<1>3. Elements(toClient') \subseteq Elements(toClient) \cup {a}
  <2>1. CASE Takes(m, <<a>>)
    <3>1. toClient' = toClient \o <<a>>
      BY <2>1 DEF Takes
    <3>2. Elements(toClient \o <<a>>) = Elements(toClient) \cup Elements(<<a>>)
      BY <1>1, <1>2, ConcatElements
    <3> QED
      BY ONLY <3>1, <3>2, FewElements
  <2>2. CASE Takes(m, <<>>)
    <3>1. toClient' = toClient \o <<>>
      BY <2>2 DEF Takes
    <3>2. Elements(toClient \o <<>>) = Elements(toClient) \cup Elements(<<>>)
      BY ONLY <1>1, <1>2, ConcatElements
    <3> QED
      BY ONLY <3>1, <3>2, FewElements
  <2> QED
    BY <2>1, <2>2
<1> QED
  BY <1>1, <1>3 DEF HandledFirst, DoneIsHandled

LEMMA HandleConcludes ==
    ASSUME TypeOK, HandledFirst, toGateway # <<>>,
           Handle(Head(toGateway)) \/ HandleConnectRefused(Head(toGateway))
    PROVE  HandledFirst'
<1> USE DEF sessionVars
<1> DEFINE m == Head(toGateway)
<1>1. m \in Requests /\ SessionTypeOK
  BY HeadElement DEF TypeOK, ChannelsTypeOK
<1> HIDE DEF m
<1>2. CASE HandlePublish(m)
  <2> DEFINE rec == [type |-> "PUBREC", msgID |-> m.msgID]
             ack(valid) == [type |-> "PUBACK", msgID |-> m.msgID, accepted |-> valid]
  <2>1. m.qos \in 0..2 /\ m.msgID \in Nat
    BY <1>1, <1>2 DEF HandlePublish, Requests
  <2>2. PICK valid \in BOOLEAN :
           /\ handled' = IF valid /\ m.qos > 0 THEN handled \cup {m.msgID} ELSE handled
           /\ \/ Takes(m, <<>>)
              \/ m.qos = 2 /\ valid /\ Takes(m, <<rec>>)
              \/ m.qos # 0 /\ Takes(m, <<ack(valid)>>)
    BY <1>2 DEF HandlePublish
  <2>3. rec \in Answers /\ ack(valid) \in Answers
    BY <2>1, AnswerTypes
  <2>4. rec.msgID = m.msgID /\ ack(valid).msgID = m.msgID /\ (Confirms(ack(valid)) => valid)
    BY DEF Confirms
  <2> HIDE DEF rec, ack
  <2>5. CASE Takes(m, <<>>)
    <3>1. Msg("GWINFO") \in Answers /\ ~Confirms(Msg("GWINFO"))
      BY AnswerTypes DEF Confirms, Msg
    <3> QED
      BY <2>2, <2>5, <3>1, AnswerConcludes
  <2>6. CASE m.qos = 2 /\ valid /\ Takes(m, <<rec>>)
    BY <2>2, <2>3, <2>4, <2>6, AnswerConcludes
  <2>7. CASE m.qos # 0 /\ Takes(m, <<ack(valid)>>)
    <3>1. m.qos > 0
      BY <2>1, <2>7
    <3> QED
      BY <2>2, <2>3, <2>4, <2>7, <3>1, AnswerConcludes
  <2> QED
    BY <2>2, <2>5, <2>6, <2>7
<1>3. CASE ~HandlePublish(m)
  <2>1. UNCHANGED handled
    BY <1>3 DEF Handle, HandleSearchgw, HandleConnect, HandleConnectRefused, HandleDisconnect, HandlePingreq,
       HandleRegister, HandlePubrel, HandleSubscribe, HandleUnsubscribe, HandleIgnored, m
  <2>2. PICK a \in Answers : (Takes(m, <<a>>) \/ Takes(m, <<>>)) /\ ~Confirms(a)
    <3>1. CASE HandleSearchgw(m) \/ HandlePingreq(m) \/ HandleConnect(m) \/ HandleConnectRefused(m) \/ HandleDisconnect(m)
      <4>1. PICK a \in {Msg("GWINFO"), Msg("PINGRESP"), Connack(TRUE), Connack(FALSE), DisconnectMsg(FALSE)} :
               Takes(m, <<a>>)
        BY <3>1 DEF HandleSearchgw, HandlePingreq, HandleConnect, HandleConnectRefused, HandleDisconnect
      <4>2. a \in Answers
        BY AnswerTypes
      <4>3. ~Confirms(a)
        BY DEF Msg, Connack, DisconnectMsg, Confirms
      <4> QED
        BY <4>1, <4>2, <4>3
    <3>2. CASE HandleIgnored(m)
      <4>1. Takes(m, <<>>)
        BY <3>2 DEF HandleIgnored
      <4>2. Msg("GWINFO") \in Answers /\ ~Confirms(Msg("GWINFO"))
        BY AnswerTypes DEF Confirms, Msg
      <4> QED
        BY <4>1, <4>2
    <3>3. CASE HandleRegister(m)
      <4> DEFINE a == [type |-> "REGACK", msgID |-> m.msgID, id |-> topics'[m.topic]]
      <4>1. Takes(m, <<a>>) /\ AddTopic(m.topic)
        BY <3>3 DEF HandleRegister
      <4>2. m.topic \in Names /\ m.msgID \in Nat
        BY <1>1, <3>3 DEF HandleRegister, Requests
      <4>3. a \in Answers
        BY <1>1, <4>1, <4>2, AddTopicTyped, AnswerTypes
      <4>4. ~Confirms(a)
        BY DEF Confirms
      <4> QED
        BY <4>1, <4>3, <4>4
    <3>4. CASE HandlePubrel(m) \/ HandleUnsubscribe(m)
      <4> DEFINE a(type) == [type |-> type, msgID |-> m.msgID]
      <4>1. PICK type \in {"PUBCOMP", "UNSUBACK"} : Takes(m, <<a(type)>>)
        BY <3>4 DEF HandlePubrel, HandleUnsubscribe
      <4>2. m.msgID \in Nat
        BY <1>1, <3>4 DEF HandlePubrel, HandleUnsubscribe, Requests
      <4>3. a(type) \in Answers /\ ~Confirms(a(type))
        BY <4>2, AnswerTypes DEF Confirms
      <4> QED
        BY <4>1, <4>3
    <3>5. CASE HandleSubscribe(m)
      <4> DEFINE a(id, accepted) ==
                   [type |-> "SUBACK", msgID |-> m.msgID, topic |-> m.topic, id |-> id, accepted |-> accepted]
      <4>1. m.topic \in Topics /\ m.msgID \in Nat
        BY <1>1, <3>5 DEF HandleSubscribe, Requests
      <4>2. PICK id \in Nat, accepted \in BOOLEAN : Takes(m, <<a(id, accepted)>>)
        <5>1. CASE Takes(m, <<a(0, FALSE)>>)
          BY <5>1
        <5> DEFINE id == IF m.topic \in Names THEN topics'[m.topic] ELSE 0
        <5>2. CASE (m.topic \in Names => AddTopic(m.topic)) /\ Takes(m, <<a(id, TRUE)>>)
          <6>1. id \in Nat
            BY <1>1, <5>2, AddTopicTyped
          <6> HIDE DEF id
          <6> QED
            BY <5>2, <6>1
        <5> QED
          BY <3>5, <5>1, <5>2 DEF HandleSubscribe
      <4>3. a(id, accepted) \in Answers /\ ~Confirms(a(id, accepted))
        BY <4>1, AnswerTypes DEF Confirms
      <4> QED
        BY <4>2, <4>3
    <3> QED
      BY <1>3, <3>1, <3>2, <3>3, <3>4, <3>5 DEF Handle, m
  <2> QED
    BY <2>1, <2>2, AnswerConcludes
<1> QED
  BY <1>2, <1>3

\* LPublishManager reports a PUBLISH as published only when it was passed on to the broker,
\* however often it was sent, rejected, registered anew or confirmed, whichever messages were
\* lost and whenever the broker closed the connection.
THEOREM DoneAlwaysHandled == Spec => []DoneIsHandled
<1>1. Init => HandledFirst
  <2> SUFFICES ASSUME Init PROVE HandledFirst
    OBVIOUS
  <2>1. toClient = <<>> /\ pub = <<>> /\ finished = {}
    BY DEF Init, TesterInit
  <2> QED
    BY <2>1, FewElements DEF HandledFirst, DoneIsHandled
<1>2. TypeOK /\ HandledFirst /\ [Next]_vars => HandledFirst'
  BY ProceedConcludes, OthersConclude, ReceiveConcludes, HandleConcludes DEF Next
<1>3. HandledFirst => DoneIsHandled
  BY DEF HandledFirst
<1> QED
  BY <1>1, <1>2, <1>3, TypeCorrect, PTL DEF Spec

----------------------------------------------------------------------------
(* Subscriptions are kept. First, sequences: what comes before what, and one element *)
(* exchanged.                                                                        *)

\* The pairs of a sequence, in its order.
Pairs(s) == {<<s[p[1]], s[p[2]]>> : p \in {q \in (1..Len(s)) \X (1..Len(s)) : q[1] < q[2]}}

LEMMA PairOf ==
    ASSUME NEW s, NEW p
    PROVE  p \in Pairs(s) <=> \E i, j \in 1..Len(s) : i < j /\ p = <<s[i], s[j]>>
<1>1. ASSUME p \in Pairs(s) PROVE \E i, j \in 1..Len(s) : i < j /\ p = <<s[i], s[j]>>
  BY <1>1 DEF Pairs
<1>2. ASSUME NEW i \in 1..Len(s), NEW j \in 1..Len(s), i < j, p = <<s[i], s[j]>> PROVE p \in Pairs(s)
  <2>1. <<i, j>> \in {q \in (1..Len(s)) \X (1..Len(s)) : q[1] < q[2]}
    BY <1>2
  <2> QED
    BY <1>2, <2>1 DEF Pairs
<1> QED
  BY <1>1, <1>2

LEMMA HeadAndTail ==
    ASSUME NEW S, NEW s \in Seq(S), s # <<>>
    PROVE  /\ Elements(s) = {Head(s)} \cup Elements(Tail(s))
           /\ Pairs(Tail(s)) \subseteq Pairs(s)
           /\ \A y \in Elements(Tail(s)) : <<Head(s), y>> \in Pairs(s)
<1>1. /\ Len(s) \in Nat /\ Len(s) > 0 /\ Head(s) = s[1]
      /\ Len(Tail(s)) = Len(s) - 1
      /\ \A i \in 1..Len(Tail(s)) : Tail(s)[i] = s[i + 1]
  BY HeadTailProperties
<1>2. ASSUME NEW i \in 1..Len(s) PROVE s[i] = Head(s) \/ s[i] \in Elements(Tail(s))
  <2>1. CASE i = 1
    BY <1>1, <2>1
  <2>2. CASE i # 1
    <3>1. i - 1 \in 1..Len(Tail(s)) /\ (i - 1) + 1 = i
      BY <1>1, <2>2
    <3>2. Tail(s)[i - 1] = s[i]
      BY <1>1, <3>1
    <3> QED
      BY <3>1, <3>2 DEF Elements
  <2> QED
    BY <2>1, <2>2
<1>3. Elements(s) \subseteq {Head(s)} \cup Elements(Tail(s))
  BY <1>2 DEF Elements
<1>4. Head(s) \in Elements(s) /\ Elements(Tail(s)) \subseteq Elements(s)
  BY HeadElement
<1>5. ASSUME NEW p \in Pairs(Tail(s)) PROVE p \in Pairs(s)
  <2> DEFINE t == Tail(s)
  <2> HIDE DEF t
  <2>1. PICK i \in 1..Len(t), j \in 1..Len(t) : i < j /\ p = <<t[i], t[j]>>
    <3>1. p \in Pairs(t)
      BY <1>5 DEF t
    <3> QED
      BY <3>1, PairOf
  <2> USE DEF t
  <2>2. i + 1 \in 1..Len(s) /\ j + 1 \in 1..Len(s) /\ i + 1 < j + 1
    BY <1>1, <2>1
  <2>3. p = <<s[i + 1], s[j + 1]>>
    BY <1>1, <2>1
  <2> QED
    BY <2>2, <2>3, PairOf
<1>6. ASSUME NEW y \in Elements(Tail(s)) PROVE <<Head(s), y>> \in Pairs(s)
  <2>1. PICK i \in 1..Len(Tail(s)) : y = Tail(s)[i]
    BY <1>6 DEF Elements
  <2>2. 1 \in 1..Len(s) /\ i + 1 \in 1..Len(s) /\ 1 < i + 1 /\ y = s[i + 1]
    BY <1>1, <2>1
  <2> QED
    BY <1>1, <2>2, PairOf
<1> QED
  BY <1>3, <1>4, <1>5, <1>6

LEMMA WithoutPairs ==
    ASSUME NEW S, NEW s \in Seq(S), NEW i \in 1..Len(s)
    PROVE  Pairs(RemoveAt(s, i)) \subseteq Pairs(s)
<1>1. /\ Len(s) \in Nat /\ Len(RemoveAt(s, i)) = Len(s) - 1
      /\ \A j \in 1..Len(s) - 1 : RemoveAt(s, i)[j] = IF j < i THEN s[j] ELSE s[j + 1]
  BY WithoutElement
<1> SUFFICES ASSUME NEW p \in Pairs(RemoveAt(s, i)) PROVE p \in Pairs(s)
  OBVIOUS
<1>2. PICK j \in 1..Len(s) - 1, k \in 1..Len(s) - 1 : j < k /\ p = <<RemoveAt(s, i)[j], RemoveAt(s, i)[k]>>
  BY <1>1, PairOf
<1> DEFINE a == IF j < i THEN j ELSE j + 1
           b == IF k < i THEN k ELSE k + 1
<1>3. a \in 1..Len(s) /\ b \in 1..Len(s) /\ a < b
  BY <1>1, <1>2
<1>4. p = <<s[a], s[b]>>
  BY <1>1, <1>2
<1> HIDE DEF a, b
<1> QED
  BY <1>3, <1>4, PairOf

LEMMA AppendedPairs ==
    ASSUME NEW S, NEW s \in Seq(S), NEW m \in S
    PROVE  /\ Elements(Append(s, m)) = Elements(s) \cup {m}
           /\ \A p \in Pairs(Append(s, m)) : p \in Pairs(s) \/ (p[1] \in Elements(s) /\ p[2] = m)
<1>1. /\ Len(s) \in Nat /\ Len(Append(s, m)) = Len(s) + 1
      /\ \A i \in 1..Len(s) : Append(s, m)[i] = s[i]
      /\ Append(s, m)[Len(s) + 1] = m
  BY AppendProperties
<1>2. Elements(Append(s, m)) = Elements(s) \cup {m}
  <2>1. ASSUME NEW i \in 1..Len(s) + 1 PROVE Append(s, m)[i] \in Elements(s) \cup {m}
    <3>1. i \in 1..Len(s) \/ i = Len(s) + 1
      BY <1>1
    <3> QED
      BY <1>1, <3>1 DEF Elements
  <2>2. ASSUME NEW i \in 1..Len(s) PROVE s[i] \in Elements(Append(s, m))
    <3>1. i \in 1..Len(s) + 1 /\ Append(s, m)[i] = s[i]
      BY <1>1
    <3> QED
      BY <1>1, <3>1 DEF Elements
  <2>3. m \in Elements(Append(s, m))
    <3>1. Len(s) + 1 \in 1..Len(s) + 1
      BY <1>1
    <3> QED
      BY <1>1, <3>1 DEF Elements
  <2> QED
    BY <1>1, <2>1, <2>2, <2>3 DEF Elements
<1>3. ASSUME NEW p \in Pairs(Append(s, m)) PROVE p \in Pairs(s) \/ (p[1] \in Elements(s) /\ p[2] = m)
  <2> DEFINE t == Append(s, m)
  <2> HIDE DEF t
  <2>1. PICK i \in 1..Len(t), j \in 1..Len(t) : i < j /\ p = <<t[i], t[j]>>
    <3>1. p \in Pairs(t)
      BY <1>3 DEF t
    <3> QED
      BY <3>1, PairOf
  <2> USE DEF t
  <2>2. i \in 1..Len(s) /\ Append(s, m)[i] = s[i]
    BY <1>1, <2>1
  <2>3. CASE j = Len(s) + 1
    <3>1. p = <<s[i], m>>
      BY <1>1, <2>1, <2>2, <2>3
    <3> QED
      BY <2>2, <3>1 DEF Elements
  <2>4. CASE j # Len(s) + 1
    <3>1. j \in 1..Len(s)
      BY <1>1, <2>4
    <3>2. p = <<s[i], s[j]>>
      BY <1>1, <2>1, <2>2, <3>1
    <3> QED
      BY <2>1, <2>2, <3>1, <3>2, PairOf
  <2> QED
    BY <2>3, <2>4
<1> QED
  BY <1>2, <1>3

LEMMA ExchangedElement ==
    ASSUME NEW S, NEW s \in Seq(S), NEW i \in 1..Len(s), NEW r \in S
    PROVE  /\ [s EXCEPT ![i] = r] \in Seq(S) /\ Len([s EXCEPT ![i] = r]) = Len(s)
           /\ \A j \in 1..Len(s) : [s EXCEPT ![i] = r][j] = IF j = i THEN r ELSE s[j]
           /\ Elements([s EXCEPT ![i] = r]) \subseteq Elements(s) \cup {r}
           /\ r \in Elements([s EXCEPT ![i] = r])
<1> DEFINE t == [s EXCEPT ![i] = r]
<1>1. t \in Seq(S) /\ Len(t) = Len(s) /\ Len(s) \in Nat
  OBVIOUS
<1>2. \A j \in 1..Len(s) : t[j] = IF j = i THEN r ELSE s[j]
  OBVIOUS
<1> HIDE DEF t
<1>3. Elements(t) \subseteq Elements(s) \cup {r} /\ r \in Elements(t)
  BY <1>1, <1>2 DEF Elements
<1> QED
  BY <1>1, <1>2, <1>3 DEF t

----------------------------------------------------------------------------
(* The invariant, which the steps below keep. *)

Ops == {c.op : c \in Elements(todo)}

\* The list is empty and _last points to an element that was freed: nothing is added any more.
Dead == subs = <<>> /\ subLast = -1

Undone(e) == e.type = "UNSUBSCRIBE" /\ ~e.done

\* The topics an UNSUBSCRIBE is still to be sent for, or sent again.
Unsubscribing ==
    {c.topic : c \in {d \in Elements(todo) : d.op = "writeSub" /\ d.type = "UNSUBSCRIBE"}}
      \cup {e.topic : e \in {d \in Elements(subs) : Undone(d)}}

\* The program waits for a test at the bottom of the stack, and unsubscribes from there.
StackOK ==
    /\ \A i \in 1..Len(todo) : todo[i].op = "prompt" => i = Len(todo)
    /\ \A i \in 2..Len(todo) : todo[i].op # "unsubscribe"
    /\ In("unsubscribe") => "busy" \in Ops /\ "subscribe" \notin Ops

\* No UNSUBSCRIBE is sent for what the program wants, or may want before it waits again.
UnsubsOK ==
    /\ ~Dead => Unsubscribing \cap wanted = {}
    /\ ~Dead /\ "subscribe" \in Ops => Unsubscribing = {}
    /\ \A e \in Elements(subs) : Undone(e) => "busy" \in Ops
    /\ subs = <<>> /\ subLast = 0 => "writeSub" \notin Ops

\* The message ids in use, each with its topic.
Carried ==
    {<<e.msgID, e.topic>> : e \in Elements(subs)}
      \cup {<<c.msgID, c.topic>> : c \in {d \in Elements(todo) : d.op = "writeSub"}}
      \cup {<<m.msgID, m.topic>> : m \in {n \in Elements(toGateway) : n.type \in {"SUBSCRIBE", "UNSUBSCRIBE"}}}

\* A message id stands for one topic, and the next one is new.
IdsOK ==
    /\ \A p \in Carried : p[1] <= nextMsgId
    /\ \A p, q \in Carried : p[1] = q[1] => p[2] = q[2]
    /\ \A m \in Elements(toClient) : m.type = "SUBACK" => m.msgID <= nextMsgId

\* getElement finds the only element there is.
UniqueOK ==
    \A i, j \in 1..Len(subs) :
        subs[i].topic = subs[j].topic /\ (subs[i].type = subs[j].type \/ subs[i].topic \in PredefinedIds) => i = j

\* The SUBSCRIBEs of what the program wants.
Held == {e \in Elements(subs) : e.type = "SUBSCRIBE" /\ e.topic \in wanted}

\* No UNSUBSCRIBE follows one of them.
OrderOK ==
    \A e \in Held : \A p \in Pairs(toGateway) :
        p[1].type = "SUBSCRIBE" /\ p[1].msgID = e.msgID /\ p[2].type = "UNSUBSCRIBE" => p[2].topic # e.topic

Again(topic) == [op |-> "resubscribe", type |-> "SUBSCRIBE", topic |-> topic]

\* The program was told that it has subscribed, or will be.
Granted(e) ==
    \/ e.done /\ ~e.refused
    \/ \E m \in Elements(toClient) : m.type = "SUBACK" /\ m.accepted /\ m.msgID = e.msgID

Served(topic) ==
    /\ topic \in brokerSubs
    /\ \A m \in Elements(toGateway) : m.type = "UNSUBSCRIBE" => m.topic # topic

HeldOK ==
    conducted /\ status # "Unknown" =>
        \A e \in Held : Granted(e) /\ Again(e.topic) \notin Elements(todo) => Served(e.topic)

SubsKept == todo # <<>> => StackOK /\ UnsubsOK /\ IdsOK /\ UniqueOK /\ OrderOK /\ HeldOK

----------------------------------------------------------------------------
(* What a step may leave as it is. *)

LEMMA StackElements ==
    ASSUME CallsTypeOK, todo # <<>>, NEW items \in Seq(Calls)
    PROVE  /\ Elements(todo) = {Head(todo)} \cup Elements(Tail(todo))
           /\ Call(items) => Elements(todo') = Elements(items) \cup Elements(todo)
           /\ Becomes(items) => Elements(todo') = Elements(items) \cup Elements(Tail(todo))
<1>1. todo \in Seq(Calls) /\ Tail(todo) \in Seq(Calls)
  BY HeadElement DEF CallsTypeOK
<1>2. Elements(items \o todo) = Elements(items) \cup Elements(todo)
  BY <1>1, ConcatElements
<1>3. Elements(items \o Tail(todo)) = Elements(items) \cup Elements(Tail(todo))
  BY <1>1, ConcatElements
<1>4. Elements(todo) = {Head(todo)} \cup Elements(Tail(todo))
  BY <1>1, HeadAndTail
<1> QED
  BY <1>2, <1>3, <1>4 DEF Call, Becomes

\* Nothing is put over a call of the program itself but a call of the library.
LEMMA StackKept ==
    ASSUME CallsTypeOK, StackOK, todo # <<>>, NEW items \in Seq(Calls),
           \A c \in Elements(items) : c.op # "prompt" /\ c.op # "unsubscribe",
           \/ ~In("unsubscribe") /\ Call(items)
           \/ Becomes(items)
    PROVE  StackOK'
<1>1. /\ todo \in Seq(Calls) /\ Len(todo) \in Nat /\ Len(todo) > 0 /\ Head(todo) = todo[1]
      /\ Tail(todo) \in Seq(Calls) /\ Len(Tail(todo)) = Len(todo) - 1
      /\ \A i \in 1..Len(Tail(todo)) : Tail(todo)[i] = todo[i + 1]
  BY HeadTailProperties DEF CallsTypeOK
<1>2. PICK t \in Seq(Calls) :
         /\ todo' = items \o t
         /\ \A i \in 1..Len(t) : t[i].op # "unsubscribe"
         /\ \A i \in 1..Len(t) : t[i].op = "prompt" => i = Len(t)
  <2>1. CASE ~In("unsubscribe") /\ Call(items)
    <3>1. ASSUME NEW i \in 1..Len(todo) PROVE todo[i].op # "unsubscribe"
      <4>1. CASE i = 1
        BY <1>1, <2>1, <4>1 DEF In
      <4>2. CASE i # 1
        <5>1. i \in 2..Len(todo)
          BY <1>1, <4>2
        <5> QED
          BY <5>1 DEF StackOK
      <4> QED
        BY <4>1, <4>2
    <3> QED
      BY <1>1, <2>1, <3>1 DEF Call, StackOK
  <2>2. CASE Becomes(items)
    <3> DEFINE t == Tail(todo)
    <3>1. ASSUME NEW i \in 1..Len(t) PROVE t[i].op # "unsubscribe" /\ (t[i].op = "prompt" => i = Len(t))
      <4>1. t[i] = todo[i + 1] /\ i + 1 \in 2..Len(todo) /\ i + 1 \in 1..Len(todo)
        BY <1>1
      <4>2. t[i].op # "unsubscribe" /\ (t[i].op = "prompt" => i + 1 = Len(todo))
        BY <4>1 DEF StackOK
      <4>3. i + 1 = Len(todo) => i = Len(t)
        <5>1. i \in Int /\ Len(t) = Len(todo) - 1 /\ Len(todo) \in Int
          BY <1>1
        <5> HIDE DEF t
        <5> QED
          BY <5>1
      <4> QED
        BY <4>2, <4>3
    <3> QED
      BY <1>1, <2>2, <3>1 DEF Becomes
  <2> QED
    BY <2>1, <2>2
<1>3. /\ Len(items) \in Nat /\ Len(t) \in Nat /\ Len(todo') = Len(items) + Len(t)
      /\ \A i \in 1..Len(items) + Len(t) : todo'[i] = IF i <= Len(items) THEN items[i] ELSE t[i - Len(items)]
  BY <1>2, ConcatProperties
<1>4. ASSUME NEW i \in 1..Len(todo')
      PROVE  todo'[i].op # "unsubscribe" /\ (todo'[i].op = "prompt" => i = Len(todo'))
  <2>1. CASE i <= Len(items)
    <3>1. todo'[i] = items[i] /\ i \in 1..Len(items)
      BY <1>3, <2>1
    <3>2. items[i] \in Elements(items)
      BY <3>1 DEF Elements
    <3> QED
      BY <3>1, <3>2
  <2>2. CASE ~(i <= Len(items))
    <3> DEFINE k == i - Len(items)
    <3>1. k \in 1..Len(t) /\ todo'[i] = t[k]
      BY <1>3, <2>2
    <3>2. k = Len(t) => i = Len(todo')
      BY <1>3
    <3> HIDE DEF k
    <3> QED
      BY <1>2, <3>1, <3>2
  <2> QED
    BY <2>1, <2>2
<1>5. todo' # <<>> => 1 \in 1..Len(todo') /\ Head(todo') = todo'[1]
  <2>1. todo' \in Seq(Calls)
    BY <1>2, ConcatProperties
  <2> QED
    BY <2>1
<1>6. ~In("unsubscribe")'
  BY <1>4, <1>5 DEF In
<1>7. \A i \in 2..Len(todo') : i \in 1..Len(todo')
  BY <1>3
<1> QED
  BY <1>4, <1>6, <1>7 DEF StackOK

LEMMA HeldKept ==
    ASSUME HeldOK,
           conducted' /\ status' # "Unknown" => conducted /\ status # "Unknown",
           \A e \in Held' : Granted(e)' /\ Again(e.topic) \notin Elements(todo') =>
               \E d \in Held : d.topic = e.topic /\ Granted(d) /\ Again(d.topic) \notin Elements(todo),
           \A topic \in wanted' : Served(topic) => Served(topic)'
    PROVE  HeldOK'
<1> SUFFICES ASSUME conducted', status' # "Unknown", NEW e \in Held',
                    Granted(e)', Again(e.topic) \notin Elements(todo')
             PROVE  Served(e.topic)'
  BY DEF HeldOK
<1>1. PICK d \in Held : d.topic = e.topic /\ Granted(d) /\ Again(d.topic) \notin Elements(todo)
  OBVIOUS
<1>2. Served(d.topic)
  BY <1>1 DEF HeldOK
<1>3. e.topic \in wanted'
  BY DEF Held
<1> QED
  BY <1>1, <1>2, <1>3

LEMMA CarriedIds ==
    ASSUME ManagersTypeOK, CallsTypeOK, ChannelsTypeOK
    PROVE  /\ \A p \in Carried : p[1] \in Nat
           /\ \A m \in Elements(toClient) : m.type = "SUBACK" => m.msgID \in Nat
<1>1. ASSUME NEW e \in Elements(subs) PROVE e.msgID \in Nat
  <2>1. e \in SubElements
    BY DEF Elements, ManagersTypeOK
  <2> QED
    BY <2>1 DEF SubElements
<1>2. ASSUME NEW c \in Elements(todo), c.op = "writeSub" PROVE c.msgID \in Nat
  <2>1. c \in Calls
    BY DEF Elements, CallsTypeOK
  <2> QED
    BY <1>2, <2>1 DEF Calls
<1>3. ASSUME NEW m \in Elements(toGateway), m.type \in {"SUBSCRIBE", "UNSUBSCRIBE"} PROVE m.msgID \in Nat
  <2>1. m \in Requests
    BY DEF Elements, ChannelsTypeOK
  <2> QED
    BY <1>3, <2>1 DEF Requests
<1>4. ASSUME NEW m \in Elements(toClient), m.type = "SUBACK" PROVE m.msgID \in Nat
  <2>1. m \in Answers
    BY DEF Elements, ChannelsTypeOK
  <2> QED
    BY <1>4, <2>1 DEF Answers
<1>5. \A p \in Carried : p[1] \in Nat
  BY <1>1, <1>2, <1>3 DEF Carried
<1> QED
  BY <1>4, <1>5

LEMMA IdsKept ==
    ASSUME TypeOK, IdsOK, Carried' \subseteq Carried, nextMsgId' \in Nat, nextMsgId' >= nextMsgId,
           \A m \in Elements(toClient') : m.type = "SUBACK" => m \in Elements(toClient) \/ \E p \in Carried : p[1] = m.msgID
    PROVE  IdsOK'
<1>1. /\ \A p \in Carried : p[1] \in Nat
      /\ \A m \in Elements(toClient) : m.type = "SUBACK" => m.msgID \in Nat
      /\ nextMsgId \in Nat
  BY CarriedIds DEF TypeOK, ManagersTypeOK
<1>2. \A n \in Nat : n <= nextMsgId => n <= nextMsgId'
  BY <1>1
<1>3. \A p \in Carried : p[1] <= nextMsgId'
  BY <1>1, <1>2 DEF IdsOK
<1>4. \A m \in Elements(toClient) : m.type = "SUBACK" => m.msgID <= nextMsgId'
  BY <1>1, <1>2 DEF IdsOK
<1>5. \A m \in Elements(toClient') : m.type = "SUBACK" => m.msgID <= nextMsgId'
  BY <1>3, <1>4
<1> QED
  BY <1>3, <1>5 DEF IdsOK

\* A new id is taken.
LEMMA IdsGrow ==
    ASSUME TypeOK, IdsOK, NEW topic, Carried' \subseteq Carried \cup {<<nextMsgId + 1, topic>>},
           nextMsgId' = nextMsgId + 1, Elements(toClient') \subseteq Elements(toClient)
    PROVE  IdsOK'
<1>1. /\ \A p \in Carried : p[1] \in Nat
      /\ \A m \in Elements(toClient) : m.type = "SUBACK" => m.msgID \in Nat
      /\ nextMsgId \in Nat
  BY CarriedIds DEF TypeOK, ManagersTypeOK
<1> DEFINE a == <<nextMsgId + 1, topic>>
<1>2. a[1] = nextMsgId + 1
  OBVIOUS
<1> HIDE DEF a
<1>3. \A n \in Nat : n <= nextMsgId => n <= nextMsgId' /\ n # nextMsgId + 1
  BY <1>1
<1>4. \A p \in Carried : p[1] <= nextMsgId' /\ p[1] # a[1]
  BY <1>1, <1>2, <1>3 DEF IdsOK
<1>5. a[1] <= nextMsgId'
  BY <1>1, <1>2
<1>6. \A p \in Carried' : p \in Carried \/ p = a
  BY DEF a
<1>7. \A p, q \in Carried' : p[1] = q[1] => p[2] = q[2]
  BY <1>4, <1>6 DEF IdsOK
<1>8. \A p \in Carried' : p[1] <= nextMsgId'
  BY <1>4, <1>5, <1>6
<1>9. \A m \in Elements(toClient') : m.type = "SUBACK" => m.msgID <= nextMsgId'
  BY <1>1, <1>3 DEF IdsOK
<1> QED
  BY <1>7, <1>8, <1>9 DEF IdsOK

----------------------------------------------------------------------------
(* Steps that have to do with no subscription. *)

PlainCalls ==
    {c \in Calls : c.op \in {"connect", "writePublish", "writeRegister", "reconnected", "waitSubs",
                             "disconnecting"}}

\* The call that returns has no SUBSCRIBE to ask for again, and a test ends when all is answered.
Returns ==
    /\ ~(In("resubscribe") /\ Head(todo).type = "SUBSCRIBE")
    /\ In("busy") => SubsDone

PlainStack ==
    \/ UNCHANGED todo
    \/ ~In("unsubscribe") /\ \E items \in Seq(PlainCalls) : Call(items)
    \/ Returns /\ \E items \in Seq(PlainCalls) : Becomes(items)

PlainStep ==
    /\ UNCHANGED <<subs, subLast, wanted, conducted, status, brokerSubs>>
    /\ nextMsgId' >= nextMsgId
    /\ PlainStack
    /\ \/ UNCHANGED toGateway
       \/ \E m \in Requests : /\ m.type # "SUBSCRIBE" /\ m.type # "UNSUBSCRIBE"
                              /\ toGateway' = Append(toGateway, m)
    /\ UNCHANGED toClient \/ (toClient # <<>> /\ toClient' = Tail(toClient))

LEMMA PlainStackKeeps ==
    ASSUME CallsTypeOK, StackOK, todo # <<>>, PlainStack
    PROVE  /\ StackOK'
           /\ \A c \in Elements(todo') : c \in Elements(todo) \/ c \in PlainCalls
           /\ \A c \in Elements(todo) : c \in Elements(todo') \/ (c = Head(todo) /\ Returns)
<1>1. CASE UNCHANGED todo
  BY <1>1 DEF StackOK, In, Ops
<1>2. ASSUME NEW items \in Seq(PlainCalls)
      PROVE  /\ items \in Seq(Calls)
             /\ \A c \in Elements(items) : c \in PlainCalls /\ c.op # "prompt" /\ c.op # "unsubscribe"
  <2>1. PlainCalls \subseteq Calls
    BY DEF PlainCalls
  <2>2. items \in Seq(Calls)
    BY <2>1
  <2>3. \A c \in Elements(items) : c \in PlainCalls
    BY DEF Elements
  <2> QED
    BY <2>2, <2>3 DEF PlainCalls
<1>3. ASSUME ~In("unsubscribe"), NEW items \in Seq(PlainCalls), Call(items)
      PROVE  /\ StackOK'
             /\ \A c \in Elements(todo') : c \in Elements(todo) \/ c \in PlainCalls
             /\ \A c \in Elements(todo) : c \in Elements(todo')
  <2>1. /\ items \in Seq(Calls)
        /\ \A c \in Elements(items) : c \in PlainCalls /\ c.op # "prompt" /\ c.op # "unsubscribe"
    BY <1>2
  <2>2. StackOK'
    BY <1>3, <2>1, StackKept
  <2>3. Elements(todo') = Elements(items) \cup Elements(todo)
    BY <1>3, <2>1, StackElements
  <2> QED
    BY <2>1, <2>2, <2>3
<1>4. ASSUME Returns, NEW items \in Seq(PlainCalls), Becomes(items)
      PROVE  /\ StackOK'
             /\ \A c \in Elements(todo') : c \in Elements(todo) \/ c \in PlainCalls
             /\ \A c \in Elements(todo) : c \in Elements(todo') \/ c = Head(todo)
  <2>1. /\ items \in Seq(Calls)
        /\ \A c \in Elements(items) : c \in PlainCalls /\ c.op # "prompt" /\ c.op # "unsubscribe"
    BY <1>2
  <2>2. StackOK'
    BY <1>4, <2>1, StackKept
  <2>3. /\ Elements(todo') = Elements(items) \cup Elements(Tail(todo))
        /\ Elements(todo) = {Head(todo)} \cup Elements(Tail(todo))
    BY <1>4, <2>1, StackElements
  <2> QED
    BY <2>1, <2>2, <2>3
<1> QED
  BY <1>1, <1>3, <1>4 DEF PlainStack

LEMMA PlainChannels ==
    ASSUME ChannelsTypeOK, PlainStep
    PROVE  /\ \A m \in Elements(toGateway') :
                  m \in Elements(toGateway) \/ (m.type # "SUBSCRIBE" /\ m.type # "UNSUBSCRIBE")
           /\ \A p \in Pairs(toGateway') : p \in Pairs(toGateway) \/ p[2].type # "UNSUBSCRIBE"
           /\ Elements(toClient') \subseteq Elements(toClient)
<1>1. toGateway \in Seq(Requests) /\ toClient \in Seq(Answers)
  BY DEF ChannelsTypeOK
<1>2. Elements(toClient') \subseteq Elements(toClient)
  <2>1. toClient # <<>> => Elements(Tail(toClient)) \subseteq Elements(toClient)
    BY <1>1, HeadElement
  <2> QED
    BY <2>1 DEF PlainStep
<1>3. CASE UNCHANGED toGateway
  BY <1>2, <1>3
<1>4. CASE \E m \in Requests : /\ m.type # "SUBSCRIBE" /\ m.type # "UNSUBSCRIBE"
                               /\ toGateway' = Append(toGateway, m)
  <2>1. PICK m \in Requests : /\ m.type # "SUBSCRIBE" /\ m.type # "UNSUBSCRIBE"
                              /\ toGateway' = Append(toGateway, m)
    BY <1>4
  <2>2. /\ Elements(toGateway') = Elements(toGateway) \cup {m}
        /\ \A p \in Pairs(toGateway') : p \in Pairs(toGateway) \/ (p[1] \in Elements(toGateway) /\ p[2] = m)
    BY <1>1, <2>1, AppendedPairs
  <2> QED
    BY <1>2, <2>1, <2>2
<1> QED
  BY <1>3, <1>4 DEF PlainStep

LEMMA PlainKeeps ==
    ASSUME TypeOK, TypeOK', SubsKept, todo # <<>>, PlainStep
    PROVE  SubsKept'
<1>1. CallsTypeOK /\ ChannelsTypeOK /\ ManagersTypeOK
  BY DEF TypeOK
<1>2. StackOK /\ UnsubsOK /\ IdsOK /\ UniqueOK /\ OrderOK /\ HeldOK
  BY DEF SubsKept
<1>3. UNCHANGED <<subs, subLast, wanted, conducted, status, brokerSubs>> /\ PlainStack
  BY DEF PlainStep
<1>4. /\ StackOK'
      /\ \A c \in Elements(todo') : c \in Elements(todo) \/ c \in PlainCalls
      /\ \A c \in Elements(todo) : c \in Elements(todo') \/ (c = Head(todo) /\ Returns)
  BY <1>1, <1>2, <1>3, PlainStackKeeps
<1>5. \A c \in PlainCalls : c.op # "writeSub" /\ c.op # "subscribe"
  BY DEF PlainCalls
<1>6. UnsubsOK'
  <2>1. Unsubscribing' \subseteq Unsubscribing
    BY <1>3, <1>4, <1>5 DEF Unsubscribing, Undone
  <2>2. /\ "subscribe" \in Ops' => "subscribe" \in Ops
        /\ "writeSub" \in Ops' => "writeSub" \in Ops
    BY <1>4, <1>5 DEF Ops
  <2>3. ASSUME NEW e \in Elements(subs), Undone(e) PROVE "busy" \in Ops'
    <3>1. PICK c \in Elements(todo) : c.op = "busy"
      BY <1>2, <2>3 DEF UnsubsOK, Ops
    <3>2. ~SubsDone
      BY <1>1, <2>3 DEF SubsDone, Undone, Elements, ManagersTypeOK
    <3>3. c \in Elements(todo')
      BY <1>4, <3>1, <3>2 DEF Returns, In
    <3> QED
      BY <3>1, <3>3 DEF Ops
  <2> QED
    BY <1>2, <1>3, <2>1, <2>2, <2>3 DEF UnsubsOK, Dead, Undone
<1>7. IdsOK'
  <2>1. /\ \A m \in Elements(toGateway') :
               m \in Elements(toGateway) \/ (m.type # "SUBSCRIBE" /\ m.type # "UNSUBSCRIBE")
        /\ Elements(toClient') \subseteq Elements(toClient)
    BY <1>1, PlainChannels
  <2>2. Carried' \subseteq Carried
    BY <1>3, <1>4, <1>5, <2>1 DEF Carried
  <2>3. nextMsgId' >= nextMsgId /\ nextMsgId' \in Nat
    BY DEF PlainStep, TypeOK, ManagersTypeOK
  <2> QED
    BY <1>2, <2>1, <2>2, <2>3, IdsKept
<1>8. UniqueOK'
  BY <1>2, <1>3 DEF UniqueOK
<1>9. OrderOK'
  <2>1. \A p \in Pairs(toGateway') : p \in Pairs(toGateway) \/ p[2].type # "UNSUBSCRIBE"
    BY <1>1, PlainChannels
  <2>2. Held' = Held
    BY <1>3 DEF Held
  <2> QED
    BY <1>2, <2>1, <2>2 DEF OrderOK
<1>10. HeldOK'
  <2>1. /\ \A m \in Elements(toGateway') : m \in Elements(toGateway) \/ m.type # "UNSUBSCRIBE"
        /\ Elements(toClient') \subseteq Elements(toClient)
    BY <1>1, PlainChannels
  <2>2. ASSUME NEW e \in Held', Granted(e)', Again(e.topic) \notin Elements(todo')
        PROVE  e \in Held /\ Granted(e) /\ Again(e.topic) \notin Elements(todo)
    <3>1. e \in Held
      BY <1>3 DEF Held
    <3>2. Granted(e)
      BY <2>1, <2>2 DEF Granted
    <3>3. Again(e.topic) \notin Elements(todo)
      <4> DEFINE a == Again(e.topic)
      <4>1. a.op = "resubscribe" /\ a.type = "SUBSCRIBE"
        BY DEF Again
      <4> HIDE DEF a
      <4>2. a \in Elements(todo) => a \in Elements(todo') \/ (a = Head(todo) /\ Returns)
        BY <1>4
      <4>3. ~(a = Head(todo) /\ Returns)
        BY <4>1 DEF Returns, In
      <4>4. a \notin Elements(todo')
        BY <2>2 DEF a
      <4> QED
        BY <4>2, <4>3, <4>4 DEF a
    <3> QED
      BY <3>1, <3>2, <3>3
  <2>3. \A topic \in wanted' : Served(topic) => Served(topic)'
    BY <1>3, <2>1 DEF Served
  <2> QED
    BY <1>2, <1>3, <2>2, <2>3, HeldKept
<1> QED
  BY <1>4, <1>6, <1>7, <1>8, <1>9, <1>10 DEF SubsKept

LEMMA PlainItems ==
    /\ <<>> \in Seq(PlainCalls)
    /\ SendsPublish \in Seq(PlainCalls)
    /\ \A topic \in Names, msgID \in Nat : /\ SendsRegister(topic, msgID) \in Seq(PlainCalls)
                                         /\ RegisterCall(topic, msgID) \in Seq(PlainCalls)
    /\ \A op \in {"connect", "disconnecting", "waitSubs"} : <<[op |-> op]>> \in Seq(PlainCalls)
    /\ <<[op |-> "connect"], [op |-> "reconnected"]>> \in Seq(PlainCalls)
<1>1. \A op \in {"connect", "writePublish", "reconnected", "waitSubs", "disconnecting"} :
          [op |-> op] \in PlainCalls
  BY CallTypes DEF PlainCalls
<1>2. SendsPublish \in Seq(PlainCalls)
  BY <1>1 DEF SendsPublish
<1>3. ASSUME NEW topic \in Names, NEW msgID \in Nat
      PROVE  SendsRegister(topic, msgID) \in Seq(PlainCalls)
  <2>1. [op |-> "writeRegister", topic |-> topic, msgID |-> msgID] \in PlainCalls
    BY DEF Calls, PlainCalls
  <2> QED
    BY <1>1, <2>1 DEF SendsRegister
<1>4. ASSUME NEW topic \in Names, NEW msgID \in Nat
      PROVE  RegisterCall(topic, msgID) \in Seq(PlainCalls)
  <2>1. msgID + 1 \in Nat
    OBVIOUS
  <2> QED
    BY <1>3, <2>1 DEF RegisterCall
<1>5. <<[op |-> "connect"], [op |-> "reconnected"]>> \in Seq(PlainCalls)
  BY <1>1
<1>6. <<>> \in Seq(PlainCalls)
  OBVIOUS
<1>7. \A topic \in Names, msgID \in Nat : /\ SendsRegister(topic, msgID) \in Seq(PlainCalls)
                                         /\ RegisterCall(topic, msgID) \in Seq(PlainCalls)
  BY ONLY <1>3, <1>4
<1>8. \A op \in {"connect", "disconnecting", "waitSubs"} : <<[op |-> op]>> \in Seq(PlainCalls)
  BY ONLY <1>1
<1> QED
  BY ONLY <1>2, <1>5, <1>6, <1>7, <1>8

\* What a plain step writes.
PlainWrite ==
    \/ UNCHANGED toGateway
    \/ \E m \in Requests : m.type # "SUBSCRIBE" /\ m.type # "UNSUBSCRIBE" /\ toGateway' = Append(toGateway, m)

LEMMA PlainRequests ==
    /\ \A type \in {"SEARCHGW", "CONNECT", "PINGREQ"} : Write(Msg(type)) => PlainWrite
    /\ \A sleeps \in BOOLEAN : Write(DisconnectMsg(sleeps)) => PlainWrite
    /\ \A e \in PubElements : Write(PublishMsg(e)) => PlainWrite
    /\ \A topic \in Names, msgID \in Nat : Write(TopicMsg("REGISTER", topic, msgID)) => PlainWrite
    /\ \A msgID \in Nat : toGateway' = Append(toGateway, [type |-> "PUBREL", msgID |-> msgID]) => PlainWrite
<1>1. ASSUME NEW type \in {"SEARCHGW", "CONNECT", "PINGREQ"}, Write(Msg(type)) PROVE PlainWrite
  <2>1. Msg(type) \in Requests /\ Msg(type).type = type
    BY RequestTypes DEF Msg
  <2> QED
    BY <1>1, <2>1 DEF Write, PlainWrite
<1>2. ASSUME NEW sleeps \in BOOLEAN, Write(DisconnectMsg(sleeps)) PROVE PlainWrite
  <2>1. DisconnectMsg(sleeps) \in Requests /\ DisconnectMsg(sleeps).type = "DISCONNECT"
    BY RequestTypes DEF DisconnectMsg
  <2> QED
    BY <1>2, <2>1 DEF Write, PlainWrite
<1>3. ASSUME NEW e \in PubElements, Write(PublishMsg(e)) PROVE PlainWrite
  <2>1. PublishMsg(e) \in Requests /\ PublishMsg(e).type = "PUBLISH"
    BY RequestTypes DEF PublishMsg
  <2> QED
    BY <1>3, <2>1 DEF Write, PlainWrite
<1>4. ASSUME NEW topic \in Names, NEW msgID \in Nat, Write(TopicMsg("REGISTER", topic, msgID)) PROVE PlainWrite
  <2>1. TopicMsg("REGISTER", topic, msgID) \in Requests /\ TopicMsg("REGISTER", topic, msgID).type = "REGISTER"
    BY RequestTypes DEF TopicMsg
  <2> QED
    BY <1>4, <2>1 DEF Write, PlainWrite
<1>5. ASSUME NEW msgID \in Nat, toGateway' = Append(toGateway, [type |-> "PUBREL", msgID |-> msgID]) PROVE PlainWrite
  <2> DEFINE r == [type |-> "PUBREL", msgID |-> msgID]
  <2>1. r \in Requests /\ r.type = "PUBREL"
    BY RequestTypes
  <2>2. toGateway' = Append(toGateway, r)
    BY <1>5
  <2> HIDE DEF r
  <2> QED
    BY <2>1, <2>2 DEF PlainWrite
<1> QED
  BY <1>1, <1>2, <1>3, <1>4, <1>5

LEMMA PlainProceeds ==
    ASSUME TypeOK, UNCHANGED sessionVars,
           \/ ConnectReturns \/ ConnectSearches \/ ConnectSends \/ DisconnectBegins
           \/ PublishCalled \/ WritePublish \/ WriteRegister \/ Reconnected
           \/ Resubscribe /\ Head(todo).type # "SUBSCRIBE"
           \/ OnConnectReturns \/ TestEnds
    PROVE  PlainStep
<1> USE DEF sessionVars, managerVars, netVars, noteVars
<1>1. ManagersTypeOK /\ nextMsgId \in Nat
  BY DEF TypeOK, ManagersTypeOK
<1>2. todo # <<>>
  BY DEF ConnectReturns, ConnectSearches, ConnectSends, DisconnectBegins, PublishCalled, WritePublish,
     WriteRegister, Reconnected, Resubscribe, OnConnectReturns, TestEnds, In
<1>3. UNCHANGED <<subs, subLast, wanted, conducted, status, brokerSubs, toClient>>
  <2>1. CASE Resubscribe /\ Head(todo).type # "SUBSCRIBE"
    BY <2>1 DEF Resubscribe
  <2>2. CASE ~(Resubscribe /\ Head(todo).type # "SUBSCRIBE")
    <3>1. UNCHANGED <<subs, subLast, wanted, conducted, status, brokerSubs>>
      BY <2>2 DEF ConnectReturns, ConnectSearches, ConnectSends, DisconnectBegins, PublishCalled, WritePublish,
         WriteRegister, Reconnected, OnConnectReturns, TestEnds
    <3>2. UNCHANGED toClient
      BY <2>2 DEF ConnectReturns, ConnectSearches, ConnectSends, DisconnectBegins, PublishCalled, WritePublish,
         WriteRegister, Reconnected, OnConnectReturns, TestEnds, Write
    <3> QED
      BY <3>1, <3>2
  <2> QED
    BY <2>1, <2>2
<1>4. nextMsgId' >= nextMsgId
  <2>1. CASE PublishCalled
    <3>1. PICK msgID \in {nextMsgId, nextMsgId + 1} : nextMsgId' \in {msgID, msgID + 1}
      BY <2>1 DEF PublishCalled, RegisterTopic
    <3> QED
      BY <1>1, <3>1
  <2>2. CASE ~PublishCalled
    <3>1. UNCHANGED nextMsgId
      BY <2>2 DEF ConnectReturns, ConnectSearches, ConnectSends, DisconnectBegins, WritePublish,
         WriteRegister, Reconnected, Resubscribe, OnConnectReturns, TestEnds
    <3> QED
      BY <1>1, <3>1
  <2> QED
    BY <2>1, <2>2
<1>5. PlainStack
  <2>1. CASE ConnectSearches \/ ConnectSends
    BY <2>1 DEF ConnectSearches, ConnectSends, PlainStack
  <2>2. CASE ~ConnectSearches /\ ~ConnectSends
    <3>1. \E items \in Seq(PlainCalls) : Becomes(items)
      <4>1. CASE DisconnectBegins
        BY <4>1, PlainItems DEF DisconnectBegins
      <4>2. CASE PublishCalled
        <5>1. Head(todo).topic \in Names
          <6>1. Head(todo) \in Calls /\ Head(todo).op = "publish"
            BY <4>2 DEF PublishCalled, In, TypeOK, CallsTypeOK
          <6> QED
            BY <6>1 DEF Calls
        <5> DEFINE msgID == IF Head(todo).qos > 0 THEN nextMsgId + 1 ELSE nextMsgId
        <5>2. Becomes(SendsPublish) \/ Becomes(RegisterCall(Head(todo).topic, msgID))
          BY <4>2 DEF PublishCalled
        <5>3. msgID \in Nat
          BY <1>1
        <5> HIDE DEF msgID
        <5> QED
          BY <5>1, <5>2, <5>3, PlainItems
      <4>3. CASE ~DisconnectBegins /\ ~PublishCalled
        <5>1. Return
          BY <2>2, <4>3 DEF ConnectReturns, WritePublish, WriteRegister, Reconnected, Resubscribe,
             OnConnectReturns, TestEnds
        <5> QED
          BY <5>1, PlainItems DEF Return
      <4> QED
        BY <4>1, <4>2, <4>3
    <3>2. Returns
      BY <2>2 DEF ConnectReturns, DisconnectBegins, PublishCalled, WritePublish, WriteRegister, Reconnected,
         Resubscribe, OnConnectReturns, TestEnds, In, Returns
    <3> QED
      BY <3>1, <3>2 DEF PlainStack
  <2> QED
    BY <2>1, <2>2
<1>6. PlainWrite
  <2>1. CASE ConnectSearches \/ ConnectSends
    BY <2>1, PlainRequests DEF ConnectSearches, ConnectSends
  <2>2. CASE DisconnectBegins
    <3>1. PICK sleeps \in BOOLEAN : Write(DisconnectMsg(sleeps))
      BY <2>2 DEF DisconnectBegins, In
    <3> QED
      BY <3>1, PlainRequests
  <2>3. CASE WritePublish
    <3>1. UNCHANGED toGateway \/ (pub # <<>> /\ Write(PublishMsg(pub[1])))
      BY <2>3 DEF WritePublish
    <3> QED
      BY <1>1, <3>1, ElementTypes, PlainRequests DEF PlainWrite
  <2>4. CASE WriteRegister
    <3>1. Head(todo) \in Calls /\ Head(todo).op = "writeRegister"
      BY <2>4 DEF WriteRegister, In, TypeOK, CallsTypeOK
    <3>2. Head(todo).topic \in Names /\ Head(todo).msgID \in Nat
      BY <3>1 DEF Calls
    <3> QED
      BY <2>4, <3>2, PlainRequests DEF WriteRegister
  <2>5. CASE ~ConnectSearches /\ ~ConnectSends /\ ~DisconnectBegins /\ ~WritePublish /\ ~WriteRegister
    BY <2>5 DEF ConnectReturns, PublishCalled, Reconnected, Resubscribe, OnConnectReturns, TestEnds, PlainWrite
  <2> QED
    BY <2>1, <2>2, <2>3, <2>4, <2>5
<1> QED
  BY <1>3, <1>4, <1>5, <1>6 DEF PlainStep, PlainWrite

\* What a step takes off the answers, and what it adds to the stack.
LEMMA PlainTimeouts ==
    ASSUME TypeOK, UNCHANGED sessionVars,
           \/ ConnectTimeout \/ DisconnectTimeout \/ PublishTimeout \/ RegisterTimeout \/ PingTimeout \/ Ping
    PROVE  PlainStep
<1> USE DEF sessionVars, managerVars, netVars, noteVars
<1>1. ProxyTypeOK /\ nextMsgId \in Nat
  BY DEF TypeOK, ManagersTypeOK
<1>2. UNCHANGED <<subs, subLast, wanted, conducted, status, brokerSubs, nextMsgId>>
  BY DEF ConnectTimeout, DisconnectTimeout, PublishTimeout, RegisterTimeout, PingTimeout, Ping
<1>3. UNCHANGED toClient
  BY DEF ConnectTimeout, DisconnectTimeout, PublishTimeout, RegisterTimeout, PingTimeout, Ping, Write
<1>4. PlainStack
  <2>1. CASE ConnectTimeout \/ PingTimeout \/ Ping
    BY <2>1 DEF ConnectTimeout, PingTimeout, Ping, PlainStack
  <2>2. CASE DisconnectTimeout
    <3>1. UNCHANGED todo \/ Becomes(<<>>)
      BY <2>2 DEF DisconnectTimeout, Return
    <3>2. Returns
      BY <2>2 DEF DisconnectTimeout, In, Returns
    <3> QED
      BY <3>1, <3>2, PlainItems DEF PlainStack
  <2>3. CASE PublishTimeout \/ RegisterTimeout
    <3>1. UNCHANGED todo \/ \E items \in Seq(PlainCalls) : Call(items)
      <4>1. CASE PublishTimeout
        BY <4>1, PlainItems DEF PublishTimeout
      <4>2. CASE RegisterTimeout
        <5>1. reg[1] \in RegElements
          BY <4>2, ElementTypes DEF RegisterTimeout, TypeOK
        <5>2. reg[1].topic \in Names /\ reg[1].msgID \in Nat
          BY <5>1 DEF RegElements
        <5> QED
          BY <4>2, <5>2, PlainItems DEF RegisterTimeout
      <4> QED
        BY <2>3, <4>1, <4>2
    <3>2. ~In("unsubscribe")
      BY <2>3 DEF PublishTimeout, RegisterTimeout, InGetMessage, In
    <3> QED
      BY <3>1, <3>2 DEF PlainStack
  <2> QED
    BY <2>1, <2>2, <2>3
<1>5. PlainWrite
  <2>1. CASE ConnectTimeout \/ PingTimeout \/ Ping
    <3>1. UNCHANGED toGateway \/ \E type \in {"SEARCHGW", "CONNECT", "PINGREQ"} : Write(Msg(type))
      BY <2>1 DEF ConnectTimeout, PingTimeout, Ping
    <3> QED
      BY <3>1, PlainRequests DEF PlainWrite
  <2>2. CASE DisconnectTimeout
    <3>1. proxy.tSleep \in BOOLEAN
      BY <1>1 DEF ProxyTypeOK
    <3>2. UNCHANGED toGateway \/ Write(DisconnectMsg(proxy.tSleep))
      BY <2>2 DEF DisconnectTimeout
    <3> QED
      BY <3>1, <3>2, PlainRequests DEF PlainWrite
  <2>3. CASE PublishTimeout \/ RegisterTimeout
    BY <2>3 DEF PublishTimeout, RegisterTimeout, PlainWrite
  <2> QED
    BY <2>1, <2>2, <2>3
<1> QED
  BY <1>1, <1>2, <1>3, <1>4, <1>5 DEF PlainStep, PlainWrite

\* Every answer is taken off, whatever is done with it.
LEMMA AnswerTaken ==
    ASSUME NEW m, Receive(m)
    PROVE  toClient' = Tail(toClient)
BY DEF Receive, ConnectFindsGateway, ConnectAccepted, ConnectRefused, ConnectDrops, DisconnectAnswered,
   DisconnectDrops, ReceivePuback, ReceivePubrec, ReceivePubcomp, ReceiveRegack, ReceiveSuback,
   ReceiveUnsuback, ReceivePingresp, ReceiveDisconnect, ReceiveOther, ReadOnly, ReadAndWrite, Read

LEMMA PlainReceives ==
    ASSUME TypeOK, UNCHANGED sessionVars, toClient # <<>>, NEW m, m = Head(toClient),
           \/ ConnectFindsGateway(m) \/ ConnectRefused(m) \/ ConnectDrops(m)
           \/ ConnectAccepted(m) /\ proxy.tSleep
           \/ DisconnectAnswered(m) \/ DisconnectDrops(m)
           \/ ReceivePuback(m) \/ ReceivePubrec(m) \/ ReceivePubcomp(m) \/ ReceiveRegack(m)
           \/ (ReceiveSuback(m) \/ ReceiveUnsuback(m)) /\ WithId(m.msgID) = 0
           \/ ReceivePingresp(m) \/ ReceiveDisconnect(m) \/ ReceiveOther(m)
    PROVE  PlainStep
<1> USE DEF sessionVars, managerVars, netVars, noteVars
<1>1. ManagersTypeOK /\ ChannelsTypeOK /\ nextMsgId \in Nat
  BY DEF TypeOK, ManagersTypeOK
<1>2. toClient' = Tail(toClient)
  <2>1. Receive(m)
    BY DEF Receive
  <2> QED
    BY <2>1, AnswerTaken
<1>3. UNCHANGED <<wanted, conducted, status, brokerSubs>>
  BY DEF ConnectFindsGateway, ConnectAccepted, ConnectRefused, ConnectDrops, DisconnectAnswered,
     DisconnectDrops, ReceivePuback, ReceivePubrec, ReceivePubcomp, ReceiveRegack, ReceiveSuback,
     ReceiveUnsuback, ReceivePingresp, ReceiveDisconnect, ReceiveOther
<1>4. UNCHANGED <<subs, subLast>>
  <2>1. CASE (ReceiveSuback(m) \/ ReceiveUnsuback(m)) /\ WithId(m.msgID) = 0
    BY <2>1 DEF ReceiveSuback, ReceiveUnsuback
  <2>2. CASE ~((ReceiveSuback(m) \/ ReceiveUnsuback(m)) /\ WithId(m.msgID) = 0)
    BY <2>2 DEF ConnectFindsGateway, ConnectAccepted, ConnectRefused, ConnectDrops, DisconnectAnswered,
       DisconnectDrops, ReceivePuback, ReceivePubrec, ReceivePubcomp, ReceiveRegack,
       ReceivePingresp, ReceiveDisconnect, ReceiveOther
  <2> QED
    BY <2>1, <2>2
<1>5. nextMsgId' >= nextMsgId
  <2>1. nextMsgId' \in {nextMsgId, nextMsgId + 1}
    <3>1. CASE ReceivePuback(m)
      BY <3>1 DEF ReceivePuback, RegisterTopic
    <3>2. CASE ~ReceivePuback(m)
      BY <3>2 DEF ConnectFindsGateway, ConnectAccepted, ConnectRefused, ConnectDrops, DisconnectAnswered,
         DisconnectDrops, ReceivePubrec, ReceivePubcomp, ReceiveRegack, ReceiveSuback,
         ReceiveUnsuback, ReceivePingresp, ReceiveDisconnect, ReceiveOther
    <3> QED
      BY <3>1, <3>2
  <2> QED
    BY <1>1, <2>1
<1>6. PlainStack
  <2>1. CASE DisconnectAnswered(m)
    <3>1. Becomes(<<>>) /\ Returns
      BY <2>1 DEF DisconnectAnswered, Return, Returns, In
    <3> QED
      BY <3>1, PlainItems DEF PlainStack
  <2>2. CASE ReceivePuback(m) \/ ReceiveRegack(m) \/ ReceivePingresp(m)
    <3>1. UNCHANGED todo \/ \E items \in Seq(PlainCalls) : Call(items)
      <4>1. CASE ReceivePuback(m)
        <5>1. CASE UNCHANGED todo
          BY <5>1
        <5>2. CASE pub # <<>> /\ Call(RegisterCall(pub[1].topic, nextMsgId))
          <6>1. pub[1].topic \in Names
            BY <1>1, <5>2, ElementTypes DEF ManagersTypeOK, PubElements
          <6> QED
            BY <1>1, <5>2, <6>1, PlainItems
        <5> QED
          BY <4>1, <5>1, <5>2 DEF ReceivePuback
      <4>2. CASE ReceiveRegack(m) \/ ReceivePingresp(m)
        BY <4>2, PlainItems DEF ReceiveRegack, ReceivePingresp
      <4> QED
        BY <2>2, <4>1, <4>2
    <3>2. ~In("unsubscribe")
      BY <2>2 DEF ReceivePuback, ReceiveRegack, ReceivePingresp, InGetMessage, In
    <3> QED
      BY <3>1, <3>2 DEF PlainStack
  <2>3. CASE ~DisconnectAnswered(m) /\ ~ReceivePuback(m) /\ ~ReceiveRegack(m) /\ ~ReceivePingresp(m)
    <3>1. UNCHANGED todo
      BY <2>3 DEF ConnectFindsGateway, ConnectAccepted, ConnectRefused, ConnectDrops,
         DisconnectDrops, ReceivePubrec, ReceivePubcomp, ReceiveSuback,
         ReceiveUnsuback, ReceiveDisconnect, ReceiveOther
    <3> QED
      BY <3>1 DEF PlainStack
  <2> QED
    BY <2>1, <2>2, <2>3
<1>7. PlainWrite
  <2>1. CASE ReceivePubrec(m)
    <3>1. m \in Answers
      BY <1>1, Taken
    <3>2. m.msgID \in Nat
      BY <2>1, <3>1 DEF ReceivePubrec, Answers
    <3>3. UNCHANGED toGateway \/ toGateway' = Append(toGateway, [type |-> "PUBREL", msgID |-> m.msgID])
      BY <2>1 DEF ReceivePubrec, ReadOnly, ReadAndWrite
    <3> QED
      BY <3>2, <3>3, PlainRequests DEF PlainWrite
  <2>2. CASE ~ReceivePubrec(m)
    <3>1. ReadOnly(m)
      BY <2>2 DEF ConnectFindsGateway, ConnectAccepted, ConnectRefused, ConnectDrops, DisconnectAnswered,
         DisconnectDrops, ReceivePuback, ReceivePubcomp, ReceiveRegack, ReceiveSuback,
         ReceiveUnsuback, ReceivePingresp, ReceiveDisconnect, ReceiveOther
    <3> QED
      BY <3>1 DEF ReadOnly, PlainWrite
  <2> QED
    BY <2>1, <2>2
<1> QED
  BY <1>2, <1>3, <1>4, <1>5, <1>6, <1>7 DEF PlainStep, PlainWrite

----------------------------------------------------------------------------
(* A clean session begins: onConnect asks again for each SUBSCRIBE. *)

LEMMA OnConnectElements ==
    ASSUME ManagersTypeOK
    PROVE  /\ \A c \in Elements(OnConnect) : c.op \in {"subscribe", "resubscribe", "waitSubs"}
           /\ \A c \in Elements(OnConnect) : c.op = "subscribe" => subs = <<>>
           /\ \A e \in Elements(subs) : e.type = "SUBSCRIBE" => Again(e.topic) \in Elements(OnConnect)
<1> DEFINE asked == [i \in DOMAIN SubscribeList |-> [op |-> "subscribe", topic |-> SubscribeList[i]]]
           again == [i \in DOMAIN subs |-> [op |-> "resubscribe", type |-> subs[i].type, topic |-> subs[i].topic]]
           last  == <<[op |-> "waitSubs"]>>
<1>1. OnConnect = IF subs = <<>> THEN asked \o last ELSE again \o last
  BY DEF OnConnect
<1>2. /\ asked \in Seq({asked[i] : i \in DOMAIN asked}) /\ Elements(asked) = {asked[i] : i \in DOMAIN asked}
      /\ \A c \in Elements(asked) : c.op = "subscribe"
  <2>1. DOMAIN SubscribeList = 1..Len(SubscribeList) /\ Len(SubscribeList) \in Nat
    BY TesterAssumption
  <2>2. DOMAIN asked = 1..Len(SubscribeList)
    BY <2>1
  <2>3. \A i \in DOMAIN asked : asked[i].op = "subscribe"
    OBVIOUS
  <2> HIDE DEF asked
  <2>4. asked = [i \in 1..Len(SubscribeList) |-> asked[i]]
    BY <2>1, <2>2 DEF asked
  <2>5. asked \in Seq({asked[i] : i \in DOMAIN asked}) /\ Len(asked) = Len(SubscribeList)
    BY <2>1, <2>2, <2>4
  <2> QED
    BY <2>2, <2>3, <2>5 DEF Elements
<1>3. /\ again \in Seq({again[i] : i \in DOMAIN again}) /\ Elements(again) = {again[i] : i \in DOMAIN again}
      /\ DOMAIN again = 1..Len(subs)
      /\ \A c \in Elements(again) : c.op = "resubscribe"
  <2>1. DOMAIN subs = 1..Len(subs) /\ Len(subs) \in Nat
    BY DEF ManagersTypeOK
  <2>2. DOMAIN again = 1..Len(subs)
    BY <2>1
  <2>3. \A i \in DOMAIN again : again[i].op = "resubscribe"
    OBVIOUS
  <2> HIDE DEF again
  <2>4. again = [i \in 1..Len(subs) |-> again[i]]
    BY <2>1, <2>2 DEF again
  <2>5. again \in Seq({again[i] : i \in DOMAIN again}) /\ Len(again) = Len(subs)
    BY <2>1, <2>2, <2>4
  <2> QED
    BY <2>2, <2>3, <2>5 DEF Elements
<1>4. last \in Seq({[op |-> "waitSubs"]}) /\ Elements(last) = {[op |-> "waitSubs"]}
  BY FewElements
<1>5. ASSUME NEW e \in Elements(subs), e.type = "SUBSCRIBE" PROVE Again(e.topic) \in Elements(again)
  <2>1. PICK i \in 1..Len(subs) : e = subs[i]
    BY DEF Elements
  <2>2. i \in DOMAIN again
    BY <1>3
  <2>3. again[i] = [op |-> "resubscribe", type |-> subs[i].type, topic |-> subs[i].topic]
    BY <2>2
  <2> HIDE DEF again
  <2>4. again[i] = Again(e.topic)
    BY <1>5, <2>1, <2>3 DEF Again
  <2> QED
    BY <1>3, <2>2, <2>4
<1> DEFINE S == {asked[i] : i \in DOMAIN asked} \cup {again[i] : i \in DOMAIN again} \cup {[op |-> "waitSubs"]}
<1>6. asked \in Seq(S) /\ again \in Seq(S) /\ last \in Seq(S)
  BY <1>2, <1>3, <1>4, SeqMonotonic
<1> HIDE DEF asked, again, last, S
<1>7. Elements(asked \o last) = Elements(asked) \cup Elements(last)
  BY <1>6, ConcatElements
<1>8. Elements(again \o last) = Elements(again) \cup Elements(last)
  BY <1>6, ConcatElements
<1>9. ASSUME NEW e \in Elements(subs) PROVE subs # <<>>
  BY FewElements
<1>10. \A c \in Elements(last) : c.op = "waitSubs"
  BY <1>4
<1>11. CASE subs = <<>>
  BY <1>1, <1>2, <1>7, <1>9, <1>10, <1>11
<1>12. CASE subs # <<>>
  BY <1>1, <1>3, <1>5, <1>8, <1>10, <1>12
<1> QED
  BY <1>11, <1>12

LEMMA ConductKeeps ==
    ASSUME TypeOK, TypeOK', SubsKept, todo # <<>>, toClient # <<>>, NEW m, m = Head(toClient),
           UNCHANGED sessionVars, ConnectAccepted(m), ~proxy.tSleep
    PROVE  SubsKept'
<1>1. CallsTypeOK /\ ChannelsTypeOK /\ ManagersTypeOK /\ OnConnect \in Seq(Calls)
  BY OnConnectTyped DEF TypeOK
<1>2. StackOK /\ UnsubsOK /\ IdsOK /\ UniqueOK /\ OrderOK /\ HeldOK
  BY DEF SubsKept
<1>3. /\ UNCHANGED <<subs, subLast, nextMsgId, wanted, toGateway, status, brokerSubs>>
      /\ Call(OnConnect) /\ ~In("unsubscribe") /\ toClient' = Tail(toClient)
  BY DEF ConnectAccepted, ReadOnly, Read, In, sessionVars
<1>4. Elements(todo') = Elements(OnConnect) \cup Elements(todo)
  BY <1>1, <1>3, StackElements
<1>5. /\ \A c \in Elements(OnConnect) : c.op \in {"subscribe", "resubscribe", "waitSubs"}
      /\ \A c \in Elements(OnConnect) : c.op = "subscribe" => subs = <<>>
      /\ \A e \in Elements(subs) : e.type = "SUBSCRIBE" => Again(e.topic) \in Elements(OnConnect)
  BY <1>1, OnConnectElements
<1>6. StackOK'
  <2>1. \A c \in Elements(OnConnect) : c.op # "prompt" /\ c.op # "unsubscribe"
    BY <1>5
  <2> QED
    BY <1>1, <1>2, <1>3, <2>1, StackKept
<1>7. UnsubsOK'
  <2>1. Unsubscribing' = Unsubscribing
    BY <1>3, <1>4, <1>5 DEF Unsubscribing, Undone
  <2>2. /\ "writeSub" \in Ops' => "writeSub" \in Ops
        /\ "busy" \in Ops => "busy" \in Ops'
        /\ "subscribe" \in Ops' => "subscribe" \in Ops \/ subs = <<>>
    BY <1>4, <1>5 DEF Ops
  <2>3. ASSUME subs = <<>>, ~Dead PROVE Unsubscribing = {}
    <3>1. subLast = 0
      <4>1. subLast \in -1..Len(subs) /\ Len(<<>>) = 0
        BY <1>1 DEF ManagersTypeOK
      <4> QED
        BY <2>3, <4>1 DEF Dead
    <3>2. "writeSub" \notin Ops /\ Elements(subs) = {}
      BY <1>2, <2>3, <3>1, FewElements DEF UnsubsOK
    <3> QED
      BY <3>2 DEF Unsubscribing, Ops
  <2> QED
    BY <1>2, <1>3, <2>1, <2>2, <2>3 DEF UnsubsOK, Dead, Undone
<1>8. Elements(toClient') \subseteq Elements(toClient)
  BY <1>1, <1>3, HeadElement DEF ChannelsTypeOK
<1>9. IdsOK'
  <2>1. Carried' \subseteq Carried
    BY <1>3, <1>4, <1>5 DEF Carried
  <2>2. nextMsgId' \in Nat /\ nextMsgId' >= nextMsgId
    BY <1>1, <1>3 DEF ManagersTypeOK
  <2> QED
    BY <1>2, <1>8, <2>1, <2>2, IdsKept
<1>10. UniqueOK' /\ OrderOK'
  BY <1>2, <1>3 DEF UniqueOK, OrderOK, Held
<1>11. HeldOK'
  <2>1. \A e \in Held' : Again(e.topic) \in Elements(todo')
    BY <1>3, <1>4, <1>5 DEF Held
  <2> QED
    BY <2>1 DEF HeldOK
<1> QED
  BY <1>6, <1>7, <1>9, <1>10, <1>11 DEF SubsKept

----------------------------------------------------------------------------
(* A test begins; the program ends. *)

LEMMA TestKeeps ==
    ASSUME TypeOK, TypeOK', SubsKept, todo # <<>>, UNCHANGED sessionVars, RunTest
    PROVE  SubsKept'
<1> USE DEF sessionVars, managerVars, netVars, noteVars
<1>1. CallsTypeOK /\ ChannelsTypeOK /\ ManagersTypeOK
  BY DEF TypeOK
<1>2. StackOK /\ UnsubsOK /\ IdsOK /\ UniqueOK /\ OrderOK /\ HeldOK
  BY DEF SubsKept
<1>3. UNCHANGED <<subs, subLast, nextMsgId, wanted, conducted, toGateway, toClient, status, brokerSubs>>
  BY DEF RunTest
<1>4. /\ todo \in Seq(Calls) /\ Len(todo) = 1 /\ Head(todo) = todo[1] /\ todo[1].op = "prompt"
  <2>1. todo \in Seq(Calls) /\ Len(todo) \in Nat /\ Len(todo) > 0 /\ Head(todo) = todo[1] /\ todo[1].op = "prompt"
    BY <1>1 DEF RunTest, In, CallsTypeOK
  <2>2. 1 \in 1..Len(todo)
    BY <2>1
  <2>3. Len(todo) = 1
    BY <1>2, <2>1, <2>2 DEF StackOK
  <2> QED
    BY <2>1, <2>3
<1>5. PICK test \in Tests :
          todo' = <<[op |-> test.do, topic |-> test.topic, qos |-> test.qos], [op |-> "busy"]>> \o todo
  BY DEF RunTest, Call
<1> DEFINE c == [op |-> test.do, topic |-> test.topic, qos |-> test.qos]
<1>6. /\ c.op \in {"publish", "subscribe", "unsubscribe", "sleep", "disconnect"}
      /\ todo' = <<c, [op |-> "busy"]>> \o todo
  <2>1. test.do \in {"publish", "subscribe", "unsubscribe", "sleep", "disconnect"}
    BY TesterAssumption
  <2> QED
    BY <1>5, <2>1
<1> HIDE DEF c
<1> DEFINE busy == [op |-> "busy"]
<1>7. busy.op = "busy"
  OBVIOUS
<1> HIDE DEF busy
<1>8. /\ todo' \in Seq(Calls) /\ Len(todo') = 3 /\ Head(todo') = c
      /\ todo'[1] = c /\ todo'[2] = busy /\ todo'[3] = todo[1]
  <2> DEFINE t == <<c, busy>>
             S == Calls \cup {c, busy}
  <2>1. t \in Seq(S) /\ Len(t) = 2 /\ t[1] = c /\ t[2] = busy
    OBVIOUS
  <2>2. todo \in Seq(S)
    BY <1>4, SeqMonotonic
  <2>3. todo' = t \o todo
    BY <1>6 DEF busy
  <2> HIDE DEF t, S
  <2>4. /\ Len(todo') = 3
        /\ \A i \in 1..3 : todo'[i] = IF i <= 2 THEN t[i] ELSE todo[i - 2]
    BY <1>4, <2>1, <2>2, <2>3, ConcatProperties
  <2>5. todo'[1] = c /\ todo'[2] = busy /\ todo'[3] = todo[1]
    BY <2>1, <2>4
  <2>6. todo' \in Seq(Calls)
    BY DEF TypeOK, CallsTypeOK
  <2>7. Head(todo') = todo'[1]
    BY <2>4, <2>6
  <2> QED
    BY <2>4, <2>5, <2>6, <2>7
<1>9. Elements(todo') = {c, busy, todo[1]} /\ Elements(todo) = {todo[1]}
  BY <1>4, <1>8 DEF Elements
<1>10. StackOK'
  <2>1. \A i \in 1..Len(todo') : i = 1 \/ i = 2 \/ i = 3
    BY <1>8
  <2>2. \A i \in 2..Len(todo') : i = 2 \/ i = 3
    BY <1>8
  <2>3. In("unsubscribe")' => "busy" \in Ops' /\ "subscribe" \notin Ops'
    BY <1>4, <1>6, <1>7, <1>8, <1>9 DEF In, Ops
  <2> QED
    BY <1>4, <1>6, <1>7, <1>8, <2>1, <2>2, <2>3 DEF StackOK
<1>11. UnsubsOK'
  <2>1. Unsubscribing = {} /\ Unsubscribing' = {}
    <3>1. \A e \in Elements(subs) : ~Undone(e)
      BY <1>2, <1>4, <1>9 DEF UnsubsOK, Ops
    <3> QED
      BY <1>3, <1>4, <1>6, <1>7, <1>9, <3>1 DEF Unsubscribing, Undone
  <2>2. "writeSub" \notin Ops' /\ "busy" \in Ops'
    BY <1>4, <1>6, <1>7, <1>9 DEF Ops
  <2> QED
    BY <2>1, <2>2 DEF UnsubsOK
<1>12. IdsOK'
  <2>1. Carried' \subseteq Carried
    BY <1>3, <1>4, <1>6, <1>7, <1>9 DEF Carried
  <2>2. nextMsgId' \in Nat /\ nextMsgId' >= nextMsgId
    BY <1>1, <1>3 DEF ManagersTypeOK
  <2>3. Elements(toClient') = Elements(toClient)
    BY <1>3
  <2> QED
    BY <1>2, <2>1, <2>2, <2>3, IdsKept
<1>13. UniqueOK' /\ OrderOK'
  BY <1>2, <1>3 DEF UniqueOK, OrderOK, Held
<1>14. HeldOK'
  <2>1. \A e \in Held' : Granted(e)' => e \in Held /\ Granted(e)
    BY <1>3 DEF Held, Granted
  <2>2. \A d : d \in Elements(todo) => d \in Elements(todo')
    BY <1>9
  <2>3. \A topic \in wanted' : Served(topic) => Served(topic)'
    BY <1>3 DEF Served
  <2>4. \A e \in Held' : Granted(e)' /\ Again(e.topic) \notin Elements(todo') =>
            \E d \in Held : d.topic = e.topic /\ Granted(d) /\ Again(d.topic) \notin Elements(todo)
    BY <2>1, <2>2
  <2> QED
    BY <1>2, <1>3, <2>3, <2>4, HeldKept
<1> QED
  BY <1>10, <1>11, <1>12, <1>13, <1>14 DEF SubsKept

----------------------------------------------------------------------------
(* An element is changed: a SUBSCRIBE or UNSUBSCRIBE is written, timed out, or answered. *)

LEMMA Edits ==
    ASSUME ManagersTypeOK, UniqueOK, NEW i \in 1..Len(subs), NEW r \in SubElements,
           subs' = [subs EXCEPT ![i] = r],
           r.topic = subs[i].topic, r.type = subs[i].type \/ r.topic \in PredefinedIds
    PROVE  /\ UniqueOK'
           /\ subs' \in Seq(SubElements) /\ Len(subs') = Len(subs)
           /\ subs[i] \in Elements(subs) /\ subs[i] \in SubElements
           /\ \A e \in Elements(subs') : e \in Elements(subs) \/ e = r
           /\ r \in Elements(subs')
           /\ subs # <<>> /\ subs' # <<>> /\ ~Dead /\ ~Dead'
<1>1. subs \in Seq(SubElements) /\ Len(subs) \in Nat /\ subs[i] \in Elements(subs) /\ subs[i] \in SubElements
  BY DEF ManagersTypeOK, Elements
<1>2. /\ subs' \in Seq(SubElements) /\ Len(subs') = Len(subs)
      /\ \A j \in 1..Len(subs) : subs'[j] = IF j = i THEN r ELSE subs[j]
      /\ Elements(subs') \subseteq Elements(subs) \cup {r} /\ r \in Elements(subs')
  <2> DEFINE t == [subs EXCEPT ![i] = r]
  <2>1. /\ t \in Seq(SubElements) /\ Len(t) = Len(subs)
        /\ \A j \in 1..Len(subs) : t[j] = IF j = i THEN r ELSE subs[j]
        /\ Elements(t) \subseteq Elements(subs) \cup {r} /\ r \in Elements(t)
    BY <1>1, ExchangedElement
  <2>2. subs' = t
    OBVIOUS
  <2> HIDE DEF t
  <2> QED
    BY <2>1, <2>2
<1>3. UniqueOK'
  <2> SUFFICES ASSUME NEW j \in 1..Len(subs), NEW k \in 1..Len(subs), subs'[j].topic = subs'[k].topic,
                      subs'[j].type = subs'[k].type \/ subs'[j].topic \in PredefinedIds
               PROVE  j = k
    BY <1>2 DEF UniqueOK
  <2>1. CASE j = i /\ k # i
    BY <1>2, <2>1 DEF UniqueOK
  <2>2. CASE j # i /\ k = i
    BY <1>2, <2>2 DEF UniqueOK
  <2>3. CASE j # i /\ k # i
    BY <1>2, <2>3 DEF UniqueOK
  <2> QED
    BY <2>1, <2>2, <2>3
<1>4. subs # <<>> /\ subs' # <<>>
  BY <1>1, <1>2
<1> QED
  BY <1>1, <1>2, <1>3, <1>4 DEF Dead

\* What the invariant says of two elements is the same.
Alike(d, e) ==
    /\ d.type = e.type /\ d.topic = e.topic /\ d.msgID = e.msgID
    /\ d.done = e.done /\ d.refused = e.refused

LEMMA WritesKeep ==
    ASSUME TypeOK, TypeOK', SubsKept, todo # <<>>, UNCHANGED sessionVars, WriteSub
    PROVE  SubsKept'
<1> USE DEF sessionVars, managerVars, netVars, noteVars
<1>1. CallsTypeOK /\ ChannelsTypeOK /\ ManagersTypeOK
  BY DEF TypeOK
<1>2. StackOK /\ UnsubsOK /\ IdsOK /\ UniqueOK /\ OrderOK /\ HeldOK
  BY DEF SubsKept
<1> DEFINE c == Head(todo)
           i == Element(c.type, c.topic)
           m == TopicMsg(c.type, c.topic, c.msgID)
<1>3. /\ UNCHANGED <<subLast, nextMsgId, wanted, conducted, toClient, status, brokerSubs>>
      /\ toGateway' = Append(toGateway, m) /\ Becomes(<<>>) /\ c.op = "writeSub"
      /\ subs' = IF i = 0 THEN subs ELSE [subs EXCEPT ![i].retry = @ - 1]
  BY DEF WriteSub, Write, Return, In
<1>4. c \in Calls /\ c.type \in {"SUBSCRIBE", "UNSUBSCRIBE"} /\ c.topic \in Topics /\ c.msgID \in Nat
  <2>1. c \in Calls
    BY <1>1, Called, CallTypes
  <2> QED
    BY <1>3, <2>1 DEF Calls
<1>5. m \in Requests /\ m.type = c.type /\ m.topic = c.topic /\ m.msgID = c.msgID
  BY <1>4, RequestTypes DEF TopicMsg
<1>6. i \in 0..Len(subs) /\ Len(subs) \in Nat
  <2>1. subs \in Seq(SubElements)
    BY <1>1 DEF ManagersTypeOK
  <2>2. i \in 0..Len(subs)
    BY <1>1, ElementFound
  <2> QED
    BY <2>1, <2>2, LenProperties
<1> HIDE DEF c, i, m
<1>7. /\ UniqueOK' /\ (subs' = <<>> <=> subs = <<>>)
      /\ \A e \in Elements(subs') : \E d \in Elements(subs) : Alike(d, e)
  <2>1. CASE i = 0
    BY <1>2, <1>3, <2>1 DEF UniqueOK, Alike
  <2>2. CASE i # 0
    <3>1. i \in 1..Len(subs) /\ subs[i] \in SubElements
      BY <1>1, <1>6, <2>2 DEF ManagersTypeOK
    <3> DEFINE r == [subs[i] EXCEPT !.retry = @ - 1]
    <3>2. Alike(subs[i], r) /\ r.topic = subs[i].topic /\ r.type = subs[i].type
      BY <3>1 DEF Alike, SubElements
    <3>3. r \in SubElements
      <4>1. subs[i].retry - 1 \in Retries
        BY <3>1, TesterAssumption DEF SubElements, Retries
      <4> QED
        BY <3>1, <4>1 DEF SubElements
    <3>4. subs' = [subs EXCEPT ![i] = r]
      BY <1>3, <2>2
    <3> HIDE DEF r
    <3>5. /\ UniqueOK' /\ subs # <<>> /\ subs' # <<>> /\ subs[i] \in Elements(subs)
          /\ \A e \in Elements(subs') : e \in Elements(subs) \/ e = r
      BY <1>1, <1>2, <3>1, <3>2, <3>3, <3>4, Edits
    <3>6. \A e \in Elements(subs) : Alike(e, e)
      BY DEF Alike
    <3> QED
      BY <3>2, <3>5, <3>6
  <2> QED
    BY <2>1, <2>2
<1>8. /\ Elements(todo) = {c} \cup Elements(Tail(todo))
      /\ Elements(todo') = Elements(Tail(todo))
  <2>1. <<>> \in Seq(Calls) /\ Elements(<<>>) = {}
    BY CallTypes, FewElements
  <2>2. Elements(todo') = Elements(<<>>) \cup Elements(Tail(todo))
    BY <1>1, <1>3, <2>1, StackElements
  <2> QED
    BY <1>1, <2>1, <2>2, StackElements DEF c
<1>9. StackOK'
  <2>1. <<>> \in Seq(Calls) /\ Elements(<<>>) = {}
    BY CallTypes, FewElements
  <2> QED
    BY <1>1, <1>2, <1>3, <2>1, StackKept
<1>10. /\ Elements(toGateway') = Elements(toGateway) \cup {m}
       /\ \A p \in Pairs(toGateway') : p \in Pairs(toGateway) \/ (p[1] \in Elements(toGateway) /\ p[2] = m)
  BY <1>1, <1>3, <1>5, AppendedPairs DEF ChannelsTypeOK
<1>11. UnsubsOK'
  <2>1. Unsubscribing' \subseteq Unsubscribing
    <3>1. ASSUME NEW e \in Elements(subs'), Undone(e) PROVE e.topic \in Unsubscribing
      <4>1. PICK d \in Elements(subs) : Alike(d, e)
        BY <1>7
      <4> QED
        BY <3>1, <4>1 DEF Unsubscribing, Undone, Alike
    <3>2. ASSUME NEW d \in Elements(todo'), d.op = "writeSub", d.type = "UNSUBSCRIBE" PROVE d.topic \in Unsubscribing
      BY <1>8, <3>2 DEF Unsubscribing
    <3> QED
      BY <3>1, <3>2 DEF Unsubscribing, Undone
  <2>2. /\ Ops' \subseteq Ops
        /\ "busy" \in Ops => "busy" \in Ops'
    BY <1>3, <1>8 DEF Ops
  <2>3. ASSUME NEW e \in Elements(subs'), Undone(e) PROVE "busy" \in Ops
    <3>1. PICK d \in Elements(subs) : Alike(d, e)
      BY <1>7
    <3> QED
      BY <1>2, <2>3, <3>1 DEF UnsubsOK, Undone, Alike
  <2> QED
    BY <1>2, <1>3, <1>7, <2>1, <2>2, <2>3 DEF UnsubsOK, Dead, Undone
<1>12. IdsOK'
  <2>1. Carried' \subseteq Carried
    <3>1. ASSUME NEW e \in Elements(subs') PROVE <<e.msgID, e.topic>> \in Carried
      <4>1. PICK d \in Elements(subs) : Alike(d, e)
        BY <1>7
      <4> QED
        BY <4>1 DEF Carried, Alike
    <3>2. <<m.msgID, m.topic>> \in Carried
      BY <1>3, <1>5, <1>8 DEF Carried
    <3> QED
      BY <1>8, <1>10, <3>1, <3>2 DEF Carried
  <2>2. nextMsgId' \in Nat /\ nextMsgId' >= nextMsgId
    BY <1>1, <1>3 DEF ManagersTypeOK
  <2>3. Elements(toClient') = Elements(toClient)
    BY <1>3
  <2> QED
    BY <1>2, <2>1, <2>2, <2>3, IdsKept
<1>13. CASE subs = <<>>
  <2>1. Elements(subs') = {}
    BY <1>7, <1>13, FewElements
  <2>2. OrderOK' /\ HeldOK'
    BY <2>1 DEF OrderOK, HeldOK, Held
  <2> QED
    BY <1>7, <1>9, <1>11, <1>12, <2>2 DEF SubsKept
<1>14. CASE subs # <<>>
  <2>1. m.type = "UNSUBSCRIBE" => m.topic \notin wanted
    BY <1>2, <1>3, <1>5, <1>8, <1>14 DEF UnsubsOK, Dead, Unsubscribing
  <2>2. ASSUME NEW e \in Held' PROVE \E d \in Held : Alike(d, e)
    <3>1. PICK d \in Elements(subs) : Alike(d, e)
      BY <1>7 DEF Held
    <3>2. d \in Held
      BY <1>3, <3>1 DEF Held, Alike
    <3> QED
      BY <3>1, <3>2
  <2>3. OrderOK'
    <3> SUFFICES ASSUME NEW e \in Held', NEW p \in Pairs(toGateway'),
                        p[1].type = "SUBSCRIBE", p[1].msgID = e.msgID, p[2].type = "UNSUBSCRIBE"
                 PROVE  p[2].topic # e.topic
      BY DEF OrderOK
    <3>1. PICK d \in Held : Alike(d, e)
      BY <2>2
    <3>2. CASE p \in Pairs(toGateway)
      BY <1>2, <3>1, <3>2 DEF OrderOK, Alike
    <3>3. CASE p[2] = m
      BY <2>1, <3>1, <3>3 DEF Held, Alike
    <3> QED
      BY <1>10, <3>2, <3>3
  <2>4. HeldOK'
    <3>1. ASSUME NEW e \in Held', Granted(e)', Again(e.topic) \notin Elements(todo')
          PROVE  \E d \in Held : d.topic = e.topic /\ Granted(d) /\ Again(d.topic) \notin Elements(todo)
      <4>1. PICK d \in Held : Alike(d, e)
        BY <2>2
      <4>2. Granted(d)
        BY <1>3, <3>1, <4>1 DEF Granted, Alike
      <4>3. Again(d.topic) # c
        BY <1>3 DEF Again
      <4>4. Again(d.topic) = Again(e.topic)
        BY <4>1 DEF Alike
      <4> QED
        BY <1>8, <3>1, <4>1, <4>2, <4>3, <4>4 DEF Alike
    <3>2. \A topic \in wanted' : Served(topic) => Served(topic)'
      BY <1>3, <1>10, <2>1 DEF Served
    <3> QED
      BY <1>2, <1>3, <3>1, <3>2, HeldKept
  <2> QED
    BY <1>7, <1>9, <1>11, <1>12, <2>3, <2>4 DEF SubsKept
<1> QED
  BY <1>13, <1>14

LEMMA PairElements ==
    ASSUME NEW s
    PROVE  \A p \in Pairs(s) : p[1] \in Elements(s) /\ p[2] \in Elements(s)
<1> SUFFICES ASSUME NEW p \in Pairs(s) PROVE p[1] \in Elements(s) /\ p[2] \in Elements(s)
  OBVIOUS
<1>1. PICK i, j \in 1..Len(s) : i < j /\ p = <<s[i], s[j]>>
  BY PairOf
<1> QED
  BY <1>1 DEF Elements

\* No message stands for an id that is yet to be taken.
LEMMA NewId ==
    ASSUME TypeOK, IdsOK, NEW k, k = nextMsgId + 1
    PROVE  /\ \A m \in Elements(toGateway) : m.type = "SUBSCRIBE" => m.msgID # k
           /\ \A m \in Elements(toClient) : m.type = "SUBACK" => m.msgID # k
<1>1. /\ \A p \in Carried : p[1] \in Nat
      /\ \A m \in Elements(toClient) : m.type = "SUBACK" => m.msgID \in Nat
      /\ nextMsgId \in Nat
  BY CarriedIds DEF TypeOK, ManagersTypeOK
<1>2. \A n \in Nat : n <= nextMsgId => n # k
  BY <1>1
<1>3. ASSUME NEW m \in Elements(toGateway), m.type = "SUBSCRIBE" PROVE m.msgID # k
  <2> DEFINE p == <<m.msgID, m.topic>>
  <2>1. p \in Carried /\ p[1] = m.msgID
    BY <1>3 DEF Carried
  <2> HIDE DEF p
  <2>2. p[1] \in Nat /\ p[1] <= nextMsgId
    BY <1>1, <2>1 DEF IdsOK
  <2> QED
    BY <1>2, <2>1, <2>2
<1>4. ASSUME NEW m \in Elements(toClient), m.type = "SUBACK" PROVE m.msgID # k
  BY <1>1, <1>2, <1>4 DEF IdsOK
<1> QED
  BY <1>3, <1>4

LEMMA FoundById ==
    ASSUME ManagersTypeOK, NEW msgID, WithId(msgID) # 0
    PROVE  WithId(msgID) \in 1..Len(subs) /\ subs[WithId(msgID)].msgID = msgID
<1>1. Len(subs) \in Nat
  BY DEF ManagersTypeOK
<1> QED
  BY <1>1, ElementFound

\* A SUBACK that accepts.
LEMMA AcceptKeeps ==
    ASSUME TypeOK, TypeOK', SubsKept, todo # <<>>, toClient # <<>>, NEW m, m = Head(toClient),
           UNCHANGED sessionVars, ReceiveSuback(m), WithId(m.msgID) # 0, m.accepted
    PROVE  SubsKept'
<1> USE DEF sessionVars, managerVars, netVars, noteVars
<1> DEFINE i == WithId(m.msgID)
           r == [subs[i] EXCEPT !.done = TRUE, !.refused = FALSE]
<1>1. CallsTypeOK /\ ChannelsTypeOK /\ ManagersTypeOK
  BY DEF TypeOK
<1>2. StackOK /\ UnsubsOK /\ IdsOK /\ UniqueOK /\ OrderOK /\ HeldOK
  BY DEF SubsKept
<1>3. /\ UNCHANGED <<subLast, nextMsgId, wanted, conducted, todo, toGateway, status, brokerSubs>>
      /\ toClient' = Tail(toClient) /\ m.type = "SUBACK"
      /\ subs' = [subs EXCEPT ![i].done = TRUE, ![i].refused = FALSE]
  BY DEF ReceiveSuback, ReadOnly, Read
<1>4. i \in 1..Len(subs) /\ subs[i].msgID = m.msgID /\ subs[i] \in SubElements
  <2>1. i \in 1..Len(subs) /\ subs[i].msgID = m.msgID
    BY <1>1, FoundById
  <2> QED
    BY <1>1, <2>1 DEF ManagersTypeOK
<1> HIDE DEF i
<1>5. /\ r \in SubElements /\ r.topic = subs[i].topic /\ r.type = subs[i].type /\ r.msgID = subs[i].msgID
      /\ r.done
  BY <1>4 DEF SubElements
<1>6. subs' = [subs EXCEPT ![i] = r]
  BY <1>3, <1>4, <1>1 DEF ManagersTypeOK
<1> HIDE DEF r
<1>7. /\ UniqueOK' /\ subs[i] \in Elements(subs) /\ ~Dead /\ ~Dead' /\ subs' # <<>>
      /\ \A e \in Elements(subs') : e \in Elements(subs) \/ e = r
  BY <1>1, <1>2, <1>4, <1>5, <1>6, Edits
<1>8. m \in Elements(toClient) /\ Elements(toClient') \subseteq Elements(toClient)
  BY <1>1, <1>3, HeadElement DEF ChannelsTypeOK
<1>9. StackOK'
  BY <1>2, <1>3 DEF StackOK, In, Ops
<1>10. UnsubsOK'
  <2>1. \A e \in Elements(subs') : Undone(e) => e \in Elements(subs)
    BY <1>5, <1>7 DEF Undone
  <2>2. Unsubscribing' \subseteq Unsubscribing
    BY <1>3, <2>1 DEF Unsubscribing, Undone
  <2> QED
    BY <1>2, <1>3, <1>7, <2>1, <2>2 DEF UnsubsOK, Ops, Undone
<1>11. IdsOK'
  <2>1. <<r.msgID, r.topic>> \in Carried
    BY <1>5, <1>7 DEF Carried
  <2>2. Carried' \subseteq Carried
    BY <1>3, <1>7, <2>1 DEF Carried
  <2>3. nextMsgId' \in Nat /\ nextMsgId' >= nextMsgId
    BY <1>1, <1>3 DEF ManagersTypeOK
  <2> QED
    BY <1>2, <1>8, <2>2, <2>3, IdsKept
<1>12. ASSUME NEW e \in Held' PROVE \E d \in Held : d.topic = e.topic /\ d.msgID = e.msgID /\ (Granted(e)' => Granted(d))
  <2>1. CASE e = r
    <3>1. subs[i] \in Held
      BY <1>3, <1>5, <1>7, <2>1 DEF Held
    <3>2. Granted(subs[i])
      BY <1>3, <1>4, <1>8 DEF Granted
    <3> QED
      BY <1>5, <2>1, <3>1, <3>2
  <2>2. CASE e \in Elements(subs)
    <3>1. e \in Held
      BY <1>3, <2>2 DEF Held
    <3>2. Granted(e)' => Granted(e)
      BY <1>8 DEF Granted
    <3> QED
      BY <3>1, <3>2
  <2> QED
    BY <1>7, <2>1, <2>2 DEF Held
<1>13. OrderOK'
  BY <1>2, <1>3, <1>12 DEF OrderOK
<1>14. HeldOK'
  <2>1. \A e \in Held' : Granted(e)' /\ Again(e.topic) \notin Elements(todo') =>
            \E d \in Held : d.topic = e.topic /\ Granted(d) /\ Again(d.topic) \notin Elements(todo)
    <3>1. ASSUME NEW e \in Held', Granted(e)', Again(e.topic) \notin Elements(todo')
          PROVE  \E d \in Held : d.topic = e.topic /\ Granted(d) /\ Again(d.topic) \notin Elements(todo)
      <4>1. PICK d \in Held : d.topic = e.topic /\ Granted(d)
        BY <1>12, <3>1
      <4>2. Again(d.topic) = Again(e.topic)
        BY <4>1
      <4> QED
        BY <1>3, <3>1, <4>1, <4>2
    <3> QED
      BY <3>1
  <2>2. \A topic \in wanted' : Served(topic) => Served(topic)'
    BY <1>3 DEF Served
  <2> QED
    BY <1>2, <1>3, <2>1, <2>2, HeldKept
<1> QED
  BY <1>7, <1>9, <1>10, <1>11, <1>13, <1>14 DEF SubsKept

\* An element is freed: a SUBACK that refuses, or an UNSUBACK.
LEMMA RemovalKeeps ==
    ASSUME TypeOK, TypeOK', SubsKept, todo # <<>>, toClient # <<>>, NEW m, m = Head(toClient),
           UNCHANGED sessionVars,
           (ReceiveSuback(m) /\ ~m.accepted) \/ ReceiveUnsuback(m), WithId(m.msgID) # 0
    PROVE  SubsKept'
<1> USE DEF sessionVars, managerVars, netVars, noteVars
<1> DEFINE i == WithId(m.msgID)
<1>1. CallsTypeOK /\ ChannelsTypeOK /\ ManagersTypeOK
  BY DEF TypeOK
<1>2. StackOK /\ UnsubsOK /\ IdsOK /\ UniqueOK /\ OrderOK /\ HeldOK
  BY DEF SubsKept
<1>3. /\ UNCHANGED <<nextMsgId, wanted, conducted, todo, toGateway, status, brokerSubs>>
      /\ toClient' = Tail(toClient) /\ RemoveElement(i)
  BY DEF ReceiveSuback, ReceiveUnsuback, ReadOnly, Read
<1>4. i \in 1..Len(subs) /\ subs \in Seq(SubElements) /\ Len(subs) \in Nat
  BY <1>1, FoundById DEF ManagersTypeOK
<1> HIDE DEF i
<1>5. /\ Len(subs') = Len(subs) - 1 /\ Elements(subs') \subseteq Elements(subs)
      /\ \A j \in 1..Len(subs) - 1 : subs'[j] = IF j < i THEN subs[j] ELSE subs[j + 1]
  BY <1>3, <1>4, WithoutElement DEF RemoveElement
<1>6. ~Dead /\ (subs' = <<>> => subLast' = -1)
  <2>1. subs # <<>>
    BY <1>4
  <2>2. subs' = <<>> => Len(subs) = 1 /\ i = 1
    <3>1. subs' = <<>> => Len(subs) - 1 = 0
      <4>1. Len(<<>>) = 0
        OBVIOUS
      <4>2. Len(subs') = Len(subs) - 1
        BY <1>5
      <4> QED
        BY <4>1, <4>2
    <3>2. Len(subs) - 1 = 0 => Len(subs) = 1 /\ i = 1
      <4>1. \A n \in Nat : \A j \in 1..n : n - 1 = 0 => n = 1 /\ j = 1
        OBVIOUS
      <4> QED
        BY <1>4, <4>1
    <3> QED
      BY <3>1, <3>2
  <2>3. Len(subs) = 1 /\ i = 1 => subLast' = -1
    BY <1>3 DEF RemoveElement
  <2> QED
    BY <2>1, <2>2, <2>3 DEF Dead
<1>7. UniqueOK'
  <2> SUFFICES ASSUME NEW j \in 1..Len(subs) - 1, NEW k \in 1..Len(subs) - 1, subs'[j].topic = subs'[k].topic,
                      subs'[j].type = subs'[k].type \/ subs'[j].topic \in PredefinedIds
               PROVE  j = k
    BY <1>5 DEF UniqueOK
  <2> DEFINE a == IF j < i THEN j ELSE j + 1
             b == IF k < i THEN k ELSE k + 1
  <2>1. a \in 1..Len(subs) /\ b \in 1..Len(subs) /\ (a = b => j = k)
    BY <1>4
  <2>2. subs'[j] = subs[a] /\ subs'[k] = subs[b]
    BY <1>5
  <2> HIDE DEF a, b
  <2>3. a = b
    BY <1>2, <2>1, <2>2 DEF UniqueOK
  <2> QED
    BY <2>1, <2>3
<1>8. Elements(toClient') \subseteq Elements(toClient)
  BY <1>1, <1>3, HeadElement DEF ChannelsTypeOK
<1>9. StackOK'
  BY <1>2, <1>3 DEF StackOK, In, Ops
<1>10. UnsubsOK'
  <2>1. Unsubscribing' \subseteq Unsubscribing
    BY <1>3, <1>5 DEF Unsubscribing, Undone
  <2>2. ~(subs' = <<>> /\ subLast' = 0)
    BY <1>6
  <2> QED
    BY <1>2, <1>3, <1>5, <1>6, <2>1, <2>2 DEF UnsubsOK, Ops, Undone
<1>11. IdsOK'
  <2>1. Carried' \subseteq Carried
    BY <1>3, <1>5 DEF Carried
  <2>2. nextMsgId' \in Nat /\ nextMsgId' >= nextMsgId
    BY <1>1, <1>3 DEF ManagersTypeOK
  <2> QED
    BY <1>2, <1>8, <2>1, <2>2, IdsKept
<1>12. \A e \in Held' : e \in Held /\ (Granted(e)' => Granted(e))
  BY <1>3, <1>5, <1>8 DEF Held, Granted
<1>13. OrderOK'
  BY <1>2, <1>3, <1>12 DEF OrderOK
<1>14. HeldOK'
  <2>1. \A topic \in wanted' : Served(topic) => Served(topic)'
    BY <1>3 DEF Served
  <2>2. \A e \in Held' : Granted(e)' /\ Again(e.topic) \notin Elements(todo') =>
            \E d \in Held : d.topic = e.topic /\ Granted(d) /\ Again(d.topic) \notin Elements(todo)
    BY <1>3, <1>12
  <2> QED
    BY <1>2, <1>3, <2>1, <2>2, HeldKept
<1> QED
  BY <1>7, <1>9, <1>10, <1>11, <1>13, <1>14 DEF SubsKept

\* An element is asked for again.
LEMMA SendsSubElements ==
    ASSUME NEW type \in {"SUBSCRIBE", "UNSUBSCRIBE"}, NEW topic \in Topics, NEW k \in Nat, NEW w,
           w = [op |-> "writeSub", type |-> type, topic |-> topic, msgID |-> k]
    PROVE  /\ SendsSub(type, topic, k) \in Seq(Calls)
           /\ Elements(SendsSub(type, topic, k)) = {[op |-> "connect"], w}
           /\ \A c \in Elements(SendsSub(type, topic, k)) : c.op = "connect" \/ c = w
           /\ w.op = "writeSub" /\ w.type = type /\ w.topic = topic /\ w.msgID = k
<1>1. SendsSub(type, topic, k) \in Seq(Calls)
  BY CallTypes
<1>2. SendsSub(type, topic, k) = <<[op |-> "connect"], w>>
  BY DEF SendsSub
<1>3. w.op = "writeSub" /\ w.type = type /\ w.topic = topic /\ w.msgID = k
  OBVIOUS
<1>4. \A a, b : Elements(<<a, b>>) = {a, b}
  BY DEF Elements
<1>5. Elements(SendsSub(type, topic, k)) = {[op |-> "connect"], w}
  BY <1>2, <1>4
<1> QED
  BY <1>1, <1>3, <1>5

LEMMA ResendKeeps ==
    ASSUME TypeOK, TypeOK', SubsKept, todo # <<>>, UNCHANGED sessionVars,
           NEW i \in DOMAIN subs, SubTimeout(i), subs[i].retry >= 0
    PROVE  SubsKept'
<1> USE DEF sessionVars, managerVars, netVars, noteVars
<1> DEFINE e0 == subs[i]
           k  == IF e0.retry = RetryCount THEN nextMsgId + 1 ELSE e0.msgID
           r  == [subs[i] EXCEPT !.msgID = k]
           w  == [op |-> "writeSub", type |-> e0.type, topic |-> e0.topic, msgID |-> k]
<1>1. CallsTypeOK /\ ChannelsTypeOK /\ ManagersTypeOK /\ nextMsgId \in Nat
  BY DEF TypeOK, ManagersTypeOK
<1>2. StackOK /\ UnsubsOK /\ IdsOK /\ UniqueOK /\ OrderOK /\ HeldOK
  BY DEF SubsKept
<1>3. /\ UNCHANGED <<subLast, wanted, conducted, toClient, toGateway, status, brokerSubs>>
      /\ ~In("unsubscribe") /\ ~e0.done
      /\ subs' = [subs EXCEPT ![i].msgID = k]
      /\ Call(SendsSub(e0.type, e0.topic, k))
  BY DEF SubTimeout, InGetMessage, In
<1>4. i \in 1..Len(subs) /\ e0 \in SubElements
  BY <1>1 DEF ManagersTypeOK
<1>5. \/ k = nextMsgId + 1 /\ nextMsgId' = nextMsgId + 1
      \/ k = e0.msgID /\ nextMsgId' = nextMsgId
  BY DEF SubTimeout
<1>6. k \in Nat /\ e0.type \in {"SUBSCRIBE", "UNSUBSCRIBE"} /\ e0.topic \in Topics
  BY <1>1, <1>4, <1>5 DEF SubElements
<1> HIDE DEF k
<1>7. /\ r \in SubElements /\ r.topic = e0.topic /\ r.type = e0.type /\ r.msgID = k
      /\ ~r.done
  BY <1>3, <1>4, <1>6 DEF SubElements
<1>8. subs' = [subs EXCEPT ![i] = r]
  BY <1>1, <1>3, <1>4 DEF ManagersTypeOK
<1> HIDE DEF r
<1>9. /\ UniqueOK' /\ subs[i] \in Elements(subs) /\ ~Dead /\ ~Dead' /\ subs' # <<>>
      /\ \A e \in Elements(subs') : e \in Elements(subs) \/ e = r
  BY <1>1, <1>2, <1>4, <1>7, <1>8, Edits
<1>10. /\ SendsSub(e0.type, e0.topic, k) \in Seq(Calls)
       /\ Elements(SendsSub(e0.type, e0.topic, k)) = {[op |-> "connect"], w}
       /\ \A c \in Elements(SendsSub(e0.type, e0.topic, k)) : c.op = "connect" \/ c = w
       /\ w.op = "writeSub" /\ w.type = e0.type /\ w.topic = e0.topic /\ w.msgID = k
  <2>1. w = [op |-> "writeSub", type |-> e0.type, topic |-> e0.topic, msgID |-> k]
    OBVIOUS
  <2> HIDE DEF w, e0
  <2> QED
    BY <1>6, <2>1, SendsSubElements
<1> DEFINE items == SendsSub(e0.type, e0.topic, k)
<1> HIDE DEF w, items
<1>11. StackOK'
  <2>1. \A c \in Elements(items) : c.op # "prompt" /\ c.op # "unsubscribe"
    BY <1>10 DEF items
  <2>2. items \in Seq(Calls) /\ Call(items)
    BY <1>3, <1>10 DEF items
  <2> QED
    BY <1>1, <1>2, <1>3, <2>1, <2>2, StackKept
<1>12. /\ \A c \in Elements(todo') : c \in Elements(todo) \/ c.op = "connect" \/ c = w
       /\ \A c \in Elements(todo) : c \in Elements(todo')
  <2>1. Elements(todo') = Elements(items) \cup Elements(todo)
    BY <1>1, <1>3, <1>10, StackElements DEF items
  <2> QED
    BY <1>10, <2>1 DEF items
<1> HIDE DEF e0
<1>13. UnsubsOK'
  <2>1. e0.type = "UNSUBSCRIBE" => Undone(e0)
    BY <1>3 DEF Undone
  <2>2. \A e \in Elements(subs') : Undone(e) => \E d \in Elements(subs) : Undone(d) /\ d.topic = e.topic
    BY <1>7, <1>9, <2>1 DEF Undone, e0
  <2>3. Unsubscribing' \subseteq Unsubscribing
    <3>1. \A e \in Elements(subs') : Undone(e) => e.topic \in Unsubscribing
      BY <2>2 DEF Unsubscribing
    <3>2. w.type = "UNSUBSCRIBE" => w.topic \in Unsubscribing
      BY <1>9, <1>10, <2>1 DEF Unsubscribing, e0
    <3>3. \A c \in Elements(todo') : c.op = "writeSub" /\ c.type = "UNSUBSCRIBE" => c.topic \in Unsubscribing
      BY <1>12, <3>2 DEF Unsubscribing
    <3> QED
      BY <3>1, <3>3 DEF Unsubscribing, Undone
  <2>4. /\ "subscribe" \in Ops' => "subscribe" \in Ops
        /\ "busy" \in Ops => "busy" \in Ops'
    BY <1>10, <1>12 DEF Ops
  <2> QED
    BY <1>2, <1>3, <1>9, <2>2, <2>3, <2>4 DEF UnsubsOK, Undone
<1>14. Carried' \subseteq Carried \cup {<<k, e0.topic>>}
  BY <1>3, <1>7, <1>9, <1>10, <1>12 DEF Carried
<1>15. IdsOK'
  <2>1. CASE k = nextMsgId + 1 /\ nextMsgId' = nextMsgId + 1
    BY <1>2, <1>3, <1>14, <2>1, IdsGrow
  <2>2. CASE k = e0.msgID /\ nextMsgId' = nextMsgId
    <3>1. <<k, e0.topic>> \in Carried
      BY <1>9, <2>2 DEF Carried, e0
    <3>2. nextMsgId' \in Nat /\ nextMsgId' >= nextMsgId
      BY <1>1, <2>2
    <3> QED
      BY <1>2, <1>3, <1>14, <3>1, <3>2, IdsKept
  <2> QED
    BY <1>5, <2>1, <2>2
<1>16. ASSUME NEW e \in Held'
       PROVE  \/ e \in Held
              \/ e = r /\ e0 \in Held /\ e.topic = e0.topic /\ e.msgID = k /\ ~e.done
  BY <1>3, <1>7, <1>9 DEF Held, e0
<1>17. OrderOK'
  <2> SUFFICES ASSUME NEW e \in Held', NEW p \in Pairs(toGateway),
                      p[1].type = "SUBSCRIBE", p[1].msgID = e.msgID, p[2].type = "UNSUBSCRIBE"
               PROVE  p[2].topic # e.topic
    BY <1>3 DEF OrderOK
  <2>1. CASE e \in Held
    BY <1>2, <2>1 DEF OrderOK
  <2>2. CASE e0 \in Held /\ e.topic = e0.topic /\ e.msgID = k
    <3>1. k # nextMsgId + 1
      BY <1>1, <1>2, <2>2, NewId, PairElements
    <3>2. k = e0.msgID
      BY <1>5, <3>1
    <3> QED
      BY <1>2, <2>2, <3>2 DEF OrderOK
  <2> QED
    BY <1>16, <2>1, <2>2
<1>18. HeldOK'
  <2>1. ASSUME NEW e \in Held', Granted(e)', Again(e.topic) \notin Elements(todo')
        PROVE  \E d \in Held : d.topic = e.topic /\ Granted(d) /\ Again(d.topic) \notin Elements(todo)
    <3>1. Again(e.topic) \notin Elements(todo)
      BY <1>12, <2>1
    <3>2. CASE e \in Held
      <4>1. Granted(e)
        BY <1>3, <2>1 DEF Granted
      <4> QED
        BY <3>1, <3>2, <4>1
    <3>3. CASE e0 \in Held /\ e.topic = e0.topic /\ e.msgID = k /\ ~e.done
      <4>1. PICK a \in Elements(toClient) : a.type = "SUBACK" /\ a.accepted /\ a.msgID = k
        BY <1>3, <2>1, <3>3 DEF Granted
      <4>2. k = e0.msgID
        BY <1>2, <1>5, <4>1, NewId
      <4>3. Granted(e0)
        BY <4>1, <4>2 DEF Granted
      <4>4. Again(e0.topic) = Again(e.topic)
        BY <3>3
      <4> QED
        BY <3>1, <3>3, <4>3, <4>4
    <3> QED
      BY <1>16, <3>2, <3>3
  <2>2. \A topic \in wanted' : Served(topic) => Served(topic)'
    BY <1>3 DEF Served
  <2> QED
    BY <1>2, <1>3, <2>1, <2>2, HeldKept
<1> QED
  BY <1>9, <1>11, <1>13, <1>15, <1>17, <1>18 DEF SubsKept

LEMMA GiveUpKeeps ==
    ASSUME TypeOK, TypeOK', SubsKept, todo # <<>>, UNCHANGED sessionVars,
           NEW i \in DOMAIN subs, SubTimeout(i), ~(subs[i].retry >= 0)
    PROVE  SubsKept'
<1> USE DEF sessionVars, managerVars, netVars, noteVars
<1> DEFINE r == [subs[i] EXCEPT !.done = TRUE, !.refused = TRUE]
<1>1. CallsTypeOK /\ ChannelsTypeOK /\ ManagersTypeOK
  BY DEF TypeOK
<1>2. StackOK /\ UnsubsOK /\ IdsOK /\ UniqueOK /\ OrderOK /\ HeldOK
  BY DEF SubsKept
<1>3. /\ UNCHANGED <<subLast, nextMsgId, wanted, conducted, todo, toClient, toGateway, status, brokerSubs>>
      /\ subs' = [subs EXCEPT ![i].done = TRUE, ![i].refused = TRUE]
  BY DEF SubTimeout
<1>4. i \in 1..Len(subs) /\ subs[i] \in SubElements
  BY <1>1 DEF ManagersTypeOK
<1>5. /\ r \in SubElements /\ r.topic = subs[i].topic /\ r.type = subs[i].type /\ r.msgID = subs[i].msgID
      /\ r.done /\ r.refused
  BY <1>4 DEF SubElements
<1>6. subs' = [subs EXCEPT ![i] = r]
  BY <1>3, <1>4, <1>1 DEF ManagersTypeOK
<1> HIDE DEF r
<1>7. /\ UniqueOK' /\ subs[i] \in Elements(subs) /\ ~Dead /\ ~Dead' /\ subs' # <<>>
      /\ \A e \in Elements(subs') : e \in Elements(subs) \/ e = r
  BY <1>1, <1>2, <1>4, <1>5, <1>6, Edits
<1>8. StackOK'
  BY <1>2, <1>3 DEF StackOK, In, Ops
<1>9. UnsubsOK'
  <2>1. \A e \in Elements(subs') : Undone(e) => e \in Elements(subs)
    BY <1>5, <1>7 DEF Undone
  <2>2. Unsubscribing' \subseteq Unsubscribing
    BY <1>3, <2>1 DEF Unsubscribing, Undone
  <2> QED
    BY <1>2, <1>3, <1>7, <2>1, <2>2 DEF UnsubsOK, Ops, Undone
<1>10. IdsOK'
  <2>1. <<r.msgID, r.topic>> \in Carried
    BY <1>5, <1>7 DEF Carried
  <2>2. Carried' \subseteq Carried
    BY <1>3, <1>7, <2>1 DEF Carried
  <2>3. nextMsgId' \in Nat /\ nextMsgId' >= nextMsgId
    BY <1>1, <1>3 DEF ManagersTypeOK
  <2> QED
    BY <1>2, <1>3, <2>2, <2>3, IdsKept
<1>11. ASSUME NEW e \in Held' PROVE \E d \in Held : d.topic = e.topic /\ d.msgID = e.msgID /\ (Granted(e)' => Granted(d))
  <2>1. CASE e = r
    <3>1. subs[i] \in Held
      BY <1>3, <1>5, <1>7, <2>1 DEF Held
    <3>2. Granted(e)' => Granted(subs[i])
      BY <1>3, <1>5, <2>1 DEF Granted
    <3> QED
      BY <1>5, <2>1, <3>1, <3>2
  <2>2. CASE e \in Elements(subs)
    <3>1. e \in Held
      BY <1>3, <2>2 DEF Held
    <3>2. Granted(e)' => Granted(e)
      BY <1>3 DEF Granted
    <3> QED
      BY <3>1, <3>2
  <2> QED
    BY <1>7, <2>1, <2>2 DEF Held
<1>12. OrderOK'
  BY <1>2, <1>3, <1>11 DEF OrderOK
<1>13. HeldOK'
  <2>1. ASSUME NEW e \in Held', Granted(e)', Again(e.topic) \notin Elements(todo')
        PROVE  \E d \in Held : d.topic = e.topic /\ Granted(d) /\ Again(d.topic) \notin Elements(todo)
    <3>1. PICK d \in Held : d.topic = e.topic /\ Granted(d)
      BY <1>11, <2>1
    <3>2. Again(d.topic) = Again(e.topic)
      BY <3>1
    <3> QED
      BY <1>3, <2>1, <3>1, <3>2
  <2>2. \A topic \in wanted' : Served(topic) => Served(topic)'
    BY <1>3 DEF Served
  <2> QED
    BY <1>2, <1>3, <2>1, <2>2, HeldKept
<1> QED
  BY <1>7, <1>8, <1>9, <1>10, <1>12, <1>13 DEF SubsKept

----------------------------------------------------------------------------
(* subscribe, unsubscribe, and the SUBSCRIBEs that onConnect repeats. *)

Meant(e, type, topic) == e.topic = topic /\ (e.type = type \/ topic \in PredefinedIds)

LEMMA ElementSought ==
    ASSUME ManagersTypeOK, NEW type, NEW topic
    PROVE  /\ Element(type, topic) = 0 => \A e \in Elements(subs) : ~Meant(e, type, topic)
           /\ Element(type, topic) # 0 => /\ Element(type, topic) \in 1..Len(subs)
                                          /\ Meant(subs[Element(type, topic)], type, topic)
<1>1. Len(subs) \in Nat
  BY DEF ManagersTypeOK
<1> DEFINE J == {i \in 1..Len(subs) : subs[i].topic = topic /\ (subs[i].type = type \/ topic \in PredefinedIds)}
<1>2. Element(type, topic) = IF J # {} THEN Min(J) ELSE 0
  BY DEF Element, SelectInSeq
<1>3. J # {} => Min(J) \in J
  BY <1>1, LeastOf
<1>4. \A i \in J : i # 0
  BY <1>1
<1>5. \A i \in 1..Len(subs) : Meant(subs[i], type, topic) <=> i \in J
  BY DEF Meant
<1> HIDE DEF J
<1>6. CASE J = {}
  BY <1>2, <1>5, <1>6 DEF Elements
<1>7. CASE J # {}
  <2>1. Element(type, topic) \in J /\ Element(type, topic) \in 1..Len(subs)
    BY <1>2, <1>3, <1>7 DEF J
  <2> QED
    BY <1>4, <1>5, <2>1
<1> QED
  BY <1>6, <1>7

LEMMA Added ==
    ASSUME ManagersTypeOK, UniqueOK, NEW r \in SubElements, AddElement(r)
    PROVE  /\ UniqueOK'
           /\ \A e \in Elements(subs') : e \in Elements(subs) \/ e = r
           /\ \A e \in Elements(subs') : Meant(e, r.type, r.topic) => e = r
           /\ Dead => Dead'
           /\ ~Dead => subs' # <<>>
<1> DEFINE found == Element(r.type, r.topic)
<1>1. /\ found = 0 => \A e \in Elements(subs) : ~Meant(e, r.type, r.topic)
      /\ found # 0 => found \in 1..Len(subs) /\ Meant(subs[found], r.type, r.topic)
      /\ subs \in Seq(SubElements) /\ Len(subs) \in Nat /\ subLast \in -1..Len(subs)
  BY ElementSought DEF ManagersTypeOK
<1>2. \/ found # 0 /\ subs' = ReplaceAt(subs, found, r) /\ UNCHANGED subLast
      \/ found = 0 /\ subLast = -1 /\ UNCHANGED <<subs, subLast>>
      \/ /\ found = 0 /\ subLast # -1
         /\ subs' = SubSeq(subs, 1, subLast) \o <<r>> /\ subLast' = subLast + 1
  BY DEF AddElement
<1> HIDE DEF found
<1>3. CASE found # 0 /\ subs' = ReplaceAt(subs, found, r) /\ UNCHANGED subLast
  <2>1. subs' = [subs EXCEPT ![found] = r] /\ found \in 1..Len(subs)
    BY <1>1, <1>3 DEF ReplaceAt
  <2>2. r.topic = subs[found].topic /\ (r.type = subs[found].type \/ r.topic \in PredefinedIds)
    BY <1>1, <1>3 DEF Meant
  <2>3. /\ UniqueOK' /\ Len(subs') = Len(subs) /\ subs' \in Seq(SubElements)
        /\ \A e \in Elements(subs') : e \in Elements(subs) \/ e = r
        /\ subs' # <<>> /\ ~Dead
    BY <2>1, <2>2, Edits
  <2>4. subs'[found] = r
    BY <1>1, <2>1
  <2>5. ASSUME NEW j \in 1..Len(subs'), Meant(subs'[j], r.type, r.topic) PROVE subs'[j] = r
    <3>1. j = found
      BY <2>1, <2>3, <2>4, <2>5 DEF UniqueOK, Meant
    <3> QED
      BY <2>4, <3>1
  <2>6. \A e \in Elements(subs') : Meant(e, r.type, r.topic) => e = r
    BY <2>5 DEF Elements
  <2> QED
    BY <2>3, <2>6
<1>4. CASE found = 0 /\ subLast = -1 /\ UNCHANGED <<subs, subLast>>
  BY <1>1, <1>4 DEF Dead, UniqueOK
<1>5. CASE /\ found = 0 /\ subLast # -1
           /\ subs' = SubSeq(subs, 1, subLast) \o <<r>> /\ subLast' = subLast + 1
  <2> DEFINE before == SubSeq(subs, 1, subLast)
  <2>1. before \in Seq(SubElements) /\ Len(before) = subLast /\ \A j \in 1..subLast : before[j] = subs[j]
    BY <1>1, <1>5, SubSeqProperties
  <2>2. subs' = before \o <<r>> /\ subLast \in Nat /\ subLast <= Len(subs)
    BY <1>1, <1>5
  <2> HIDE DEF before
  <2>3. /\ subs' \in Seq(SubElements) /\ Len(subs') = subLast + 1
        /\ \A j \in 1..subLast : subs'[j] = before[j]
        /\ subs'[subLast + 1] = r
    BY <2>1, <2>2
  <2>4. \A j \in 1..subLast : subs'[j] = subs[j] /\ j \in 1..Len(subs) /\ ~Meant(subs[j], r.type, r.topic)
    <3>1. \A j \in 1..subLast : j \in 1..Len(subs)
      BY <1>1, <2>2
    <3>2. \A j \in 1..Len(subs) : ~Meant(subs[j], r.type, r.topic)
      BY <1>1, <1>5 DEF Elements
    <3> QED
      BY <2>1, <2>3, <3>1, <3>2
  <2>5. \A j \in 1..Len(subs') : j \in 1..subLast \/ j = subLast + 1
    BY <2>2, <2>3
  <2>6. UniqueOK'
    <3> SUFFICES ASSUME NEW j \in 1..Len(subs'), NEW k \in 1..Len(subs'), subs'[j].topic = subs'[k].topic,
                        subs'[j].type = subs'[k].type \/ subs'[j].topic \in PredefinedIds
                 PROVE  j = k
      BY DEF UniqueOK
    <3>1. CASE j \in 1..subLast /\ k \in 1..subLast
      BY <2>4, <3>1 DEF UniqueOK
    <3>2. CASE j \in 1..subLast /\ k = subLast + 1
      BY <2>3, <2>4, <3>2 DEF Meant
    <3>3. CASE j = subLast + 1 /\ k \in 1..subLast
      BY <2>3, <2>4, <3>3 DEF Meant
    <3> QED
      BY <2>5, <3>1, <3>2, <3>3
  <2>7. ASSUME NEW j \in 1..Len(subs')
        PROVE  /\ subs'[j] \in Elements(subs) \/ subs'[j] = r
               /\ Meant(subs'[j], r.type, r.topic) => subs'[j] = r
    BY <2>3, <2>4, <2>5 DEF Elements
  <2>8. subs' # <<>> /\ ~Dead
    BY <1>5, <2>2, <2>3 DEF Dead
  <2> QED
    BY <2>6, <2>7, <2>8 DEF Elements
<1> QED
  BY <1>2, <1>3, <1>4, <1>5

LEMMA AskedKeeps ==
    ASSUME TypeOK, TypeOK', SubsKept, todo # <<>>,
           NEW type \in {"SUBSCRIBE", "UNSUBSCRIBE"}, NEW topic \in Topics, NEW k, k = nextMsgId + 1,
           NEW r, r = [type |-> type, topic |-> topic, msgID |-> k, retry |-> RetryCount, done |-> FALSE, refused |-> FALSE],
           AddElement(r), nextMsgId' = k, Becomes(SendsSub(type, topic, k)),
           UNCHANGED <<toGateway, toClient, conducted, status, brokerSubs>>,
           \/ In("subscribe") /\ type = "SUBSCRIBE" /\ wanted' = wanted \cup {topic}
           \/ In("unsubscribe") /\ type = "UNSUBSCRIBE" /\ wanted' = wanted \ {topic}
           \/ In("resubscribe") /\ type = "SUBSCRIBE" /\ Head(todo) = Again(topic) /\ wanted' = wanted
    PROVE  SubsKept'
<1> DEFINE w == [op |-> "writeSub", type |-> type, topic |-> topic, msgID |-> k]
           items == SendsSub(type, topic, k)
<1>1. CallsTypeOK /\ ChannelsTypeOK /\ ManagersTypeOK /\ nextMsgId \in Nat /\ k \in Nat
  BY DEF TypeOK, ManagersTypeOK
<1>2. StackOK /\ UnsubsOK /\ IdsOK /\ UniqueOK /\ OrderOK /\ HeldOK
  BY DEF SubsKept
<1>3. /\ items \in Seq(Calls)
      /\ Elements(items) = {[op |-> "connect"], w}
      /\ \A c \in Elements(items) : c.op = "connect" \/ c = w
      /\ w.op = "writeSub" /\ w.type = type /\ w.topic = topic /\ w.msgID = k
  <2>1. w = [op |-> "writeSub", type |-> type, topic |-> topic, msgID |-> k]
    OBVIOUS
  <2> HIDE DEF w
  <2> QED
    BY <1>1, <2>1, SendsSubElements
<1> HIDE DEF w, items
<1>4. /\ r \in SubElements /\ r.topic = topic /\ r.type = type /\ r.msgID = k /\ ~r.done
  <2>1. RetryCount \in Retries
    BY Counts DEF Retries
  <2> QED
    BY <1>1, <2>1 DEF SubElements
<1>5. /\ UniqueOK'
      /\ \A e \in Elements(subs') : e \in Elements(subs) \/ e = r
      /\ \A e \in Elements(subs') : Meant(e, type, topic) => e = r
      /\ Dead => Dead'
      /\ ~Dead => subs' # <<>>
  BY <1>1, <1>2, <1>4, Added
<1>6. StackOK'
  <2>1. \A c \in Elements(items) : c.op # "prompt" /\ c.op # "unsubscribe"
    BY <1>3
  <2>2. Becomes(items)
    BY DEF items
  <2> QED
    BY <1>1, <1>2, <1>3, <2>1, <2>2, StackKept
<1>7. /\ \A c \in Elements(todo') : c \in Elements(todo) \/ c.op = "connect" \/ c = w
      /\ \A c \in Elements(todo) : c \in Elements(todo') \/ c = Head(todo)
      /\ Head(todo) \in Elements(todo)
  <2>1. Becomes(items)
    BY DEF items
  <2>2. /\ Elements(todo) = {Head(todo)} \cup Elements(Tail(todo))
        /\ Elements(todo') = Elements(items) \cup Elements(Tail(todo))
    BY <1>1, <1>3, <2>1, StackElements
  <2> QED
    BY <1>3, <2>2
<1>8. UnsubsOK'
  <2>1. Head(todo).op \in {"subscribe", "unsubscribe", "resubscribe"}
    BY DEF In
  <2>2. /\ "subscribe" \in Ops' => "subscribe" \in Ops
        /\ "busy" \in Ops => "busy" \in Ops'
    BY <1>3, <1>7, <2>1 DEF Ops
  <2>3. type = "SUBSCRIBE" => Unsubscribing' \subseteq Unsubscribing
    <3>1. ASSUME type = "SUBSCRIBE" PROVE \A e \in Elements(subs') : Undone(e) => e \in Elements(subs)
      BY <1>4, <1>5, <3>1 DEF Undone
    <3>2. ASSUME type = "SUBSCRIBE"
          PROVE  \A c \in Elements(todo') : c.op = "writeSub" /\ c.type = "UNSUBSCRIBE" => c \in Elements(todo)
      BY <1>3, <1>7, <3>2
    <3> QED
      BY <3>1, <3>2 DEF Unsubscribing, Undone
  <2>4. Unsubscribing' \subseteq Unsubscribing \cup {topic}
    <3>1. \A e \in Elements(subs') : e \in Elements(subs) \/ e.topic = topic
      BY <1>4, <1>5
    <3>2. \A c \in Elements(todo') : c.op = "writeSub" => c \in Elements(todo) \/ c.topic = topic
      BY <1>3, <1>7
    <3> QED
      BY <3>1, <3>2 DEF Unsubscribing, Undone
  <2>5. In("unsubscribe") => "busy" \in Ops /\ "subscribe" \notin Ops
    BY <1>2 DEF StackOK
  <2>6. In("subscribe") => "subscribe" \in Ops
    BY <1>7 DEF In, Ops
  <2>7. ~Dead' => Unsubscribing' \cap wanted' = {}
    BY <1>2, <1>5, <2>3, <2>4, <2>6 DEF UnsubsOK
  <2>8. ~Dead' /\ "subscribe" \in Ops' => Unsubscribing' = {}
    BY <1>2, <1>5, <2>2, <2>3, <2>5 DEF UnsubsOK
  <2>9. ASSUME NEW e \in Elements(subs'), Undone(e) PROVE "busy" \in Ops'
    <3>1. CASE e \in Elements(subs)
      BY <1>2, <2>2, <2>9, <3>1 DEF UnsubsOK
    <3>2. CASE e = r
      BY <1>4, <2>2, <2>5, <2>9, <3>2 DEF Undone
    <3> QED
      BY <1>5, <3>1, <3>2
  <2>10. ~(subs' = <<>> /\ subLast' = 0)
    BY <1>5 DEF Dead
  <2> QED
    BY <2>7, <2>8, <2>9, <2>10 DEF UnsubsOK, Undone
<1>9. IdsOK'
  <2>1. Carried' \subseteq Carried \cup {<<k, topic>>}
    BY <1>3, <1>4, <1>5, <1>7 DEF Carried
  <2> QED
    BY <1>2, <2>1, IdsGrow
<1>10. ASSUME NEW e \in Held'
       PROVE  e = r \/ (e \in Held /\ ~Meant(e, type, topic))
  <2>1. e \in Elements(subs') /\ e.type = "SUBSCRIBE" /\ e.topic \in wanted'
    BY DEF Held
  <2>2. e = r \/ (e \in Elements(subs) /\ ~Meant(e, type, topic))
    BY <1>5, <2>1
  <2>3. ~Meant(e, type, topic) => e.topic \in wanted
    BY <2>1 DEF Meant
  <2> QED
    BY <2>1, <2>2, <2>3 DEF Held
<1>11. OrderOK'
  <2> SUFFICES ASSUME NEW e \in Held', NEW p \in Pairs(toGateway),
                      p[1].type = "SUBSCRIBE", p[1].msgID = e.msgID, p[2].type = "UNSUBSCRIBE"
               PROVE  p[2].topic # e.topic
    BY DEF OrderOK
  <2>1. CASE e \in Held
    BY <1>2, <2>1 DEF OrderOK
  <2>2. CASE e = r
    BY <1>2, <1>4, <2>2, NewId, PairElements
  <2> QED
    BY <1>10, <2>1, <2>2
<1>12. HeldOK'
  <2>1. ASSUME NEW e \in Held', Granted(e)', Again(e.topic) \notin Elements(todo')
        PROVE  \E d \in Held : d.topic = e.topic /\ Granted(d) /\ Again(d.topic) \notin Elements(todo)
    <3>1. ~(e = r)
      BY <1>2, <1>4, <2>1, NewId DEF Granted
    <3>2. e \in Held /\ ~Meant(e, type, topic)
      BY <1>10, <3>1
    <3>3. Granted(e)
      BY <2>1 DEF Granted
    <3>4. Again(e.topic) # Head(todo)
      <4>1. e.type = "SUBSCRIBE"
        BY <3>2 DEF Held
      <4>2. Again(e.topic).op = "resubscribe" /\ Again(e.topic).topic = e.topic /\ Again(topic).topic = topic
        BY DEF Again
      <4> QED
        BY <3>2, <4>1, <4>2 DEF In, Meant
    <3>5. Again(e.topic) \notin Elements(todo)
      BY <1>7, <2>1, <3>4
    <3> QED
      BY <3>2, <3>3, <3>5
  <2>2. \A t \in wanted' : Served(t) => Served(t)'
    BY DEF Served
  <2> QED
    BY <1>2, <2>1, <2>2, HeldKept
<1> QED
  BY <1>5, <1>6, <1>8, <1>9, <1>11, <1>12 DEF SubsKept

LEMMA AskKeeps ==
    ASSUME TypeOK, TypeOK', SubsKept, todo # <<>>, UNCHANGED sessionVars,
           SubscribeCalled \/ (Resubscribe /\ Head(todo).type = "SUBSCRIBE")
    PROVE  SubsKept'
<1> USE DEF sessionVars, managerVars, netVars, noteVars
<1> DEFINE type == IF In("unsubscribe") THEN "UNSUBSCRIBE" ELSE "SUBSCRIBE"
           topic == Head(todo).topic
           k == nextMsgId + 1
           r == [type |-> type, topic |-> topic, msgID |-> k, retry |-> RetryCount, done |-> FALSE, refused |-> FALSE]
<1>1. Head(todo) \in Calls
  BY HeadElement DEF TypeOK, CallsTypeOK
<1>2. UNCHANGED <<toGateway, toClient, conducted, status, brokerSubs>>
  BY DEF SubscribeCalled, Resubscribe
<1>3. /\ \/ In("subscribe") /\ wanted' = wanted \cup {topic}
         \/ In("unsubscribe") /\ wanted' = wanted \ {topic}
         \/ In("resubscribe") /\ wanted' = wanted /\ Head(todo).type = "SUBSCRIBE"
      /\ Ask(type, topic) \/ todo' = <<>>
  BY DEF SubscribeCalled, Resubscribe, In, Crash
<1>4. topic \in Topics
  BY <1>1, <1>3 DEF Calls, In, Topics
<1>5. In("resubscribe") /\ Head(todo).type = "SUBSCRIBE" => Head(todo) = Again(topic)
  BY <1>1 DEF Calls, In, Again
<1>6. CASE todo' = <<>>
  BY <1>6 DEF SubsKept
<1>7. CASE todo' # <<>>
  <2>1. AddElement(r) /\ nextMsgId' = k /\ Becomes(SendsSub(type, topic, k))
    BY <1>3, <1>7 DEF Ask, Crash
  <2>2. \/ In("subscribe") /\ type = "SUBSCRIBE" /\ wanted' = wanted \cup {topic}
        \/ In("unsubscribe") /\ type = "UNSUBSCRIBE" /\ wanted' = wanted \ {topic}
        \/ In("resubscribe") /\ type = "SUBSCRIBE" /\ Head(todo) = Again(topic) /\ wanted' = wanted
    BY <1>3, <1>5 DEF In
  <2>3. /\ type \in {"SUBSCRIBE", "UNSUBSCRIBE"} /\ k = nextMsgId + 1
        /\ r = [type |-> type, topic |-> topic, msgID |-> k, retry |-> RetryCount, done |-> FALSE, refused |-> FALSE]
    OBVIOUS
  <2> HIDE DEF type, topic, k, r
  <2> QED
    BY <1>2, <1>4, <2>1, <2>2, <2>3, AskedKeeps
<1> QED
  BY <1>6, <1>7

----------------------------------------------------------------------------
(* What the gateway and the broker do, and what is lost. *)

LEMMA SessionKeeps ==
    ASSUME TypeOK, SubsKept, todo # <<>>, UNCHANGED <<subs, subLast, wanted, todo, nextMsgId>>,
           Elements(toGateway') \subseteq Elements(toGateway), Pairs(toGateway') \subseteq Pairs(toGateway),
           \A a \in Elements(toClient') : a.type = "SUBACK" => a \in Elements(toClient) \/ \E p \in Carried : p[1] = a.msgID,
           HeldOK'
    PROVE  SubsKept'
<1>1. StackOK /\ UnsubsOK /\ IdsOK /\ UniqueOK /\ OrderOK
  BY DEF SubsKept
<1>2. StackOK' /\ UniqueOK'
  BY <1>1 DEF StackOK, UniqueOK, In, Ops
<1>3. UnsubsOK'
  BY <1>1 DEF UnsubsOK, Dead, Unsubscribing, Ops, Undone
<1>4. IdsOK'
  <2>1. Carried' \subseteq Carried
    BY DEF Carried
  <2>2. nextMsgId' \in Nat /\ nextMsgId' >= nextMsgId
    BY DEF TypeOK, ManagersTypeOK
  <2> QED
    BY <1>1, <2>1, <2>2, IdsKept
<1>5. OrderOK'
  <2>1. Held' = Held
    BY DEF Held
  <2> QED
    BY <1>1, <2>1 DEF OrderOK
<1> QED
  BY <1>2, <1>3, <1>4, <1>5 DEF SubsKept

\* The held elements after such a step.
LEMMA SessionHeld ==
    ASSUME HeldOK, UNCHANGED <<subs, wanted, todo>>,
           conducted' /\ status' # "Unknown" => conducted /\ status # "Unknown",
           \A a \in Elements(toClient') : a.type = "SUBACK" /\ a.accepted => a \in Elements(toClient),
           \A topic \in wanted : Served(topic) => Served(topic)'
    PROVE  HeldOK'
<1>1. ASSUME NEW e \in Held', Granted(e)', Again(e.topic) \notin Elements(todo')
      PROVE  \E d \in Held : d.topic = e.topic /\ Granted(d) /\ Again(d.topic) \notin Elements(todo)
  <2>1. e \in Held
    BY DEF Held
  <2>2. Granted(e)
    BY <1>1 DEF Granted
  <2> QED
    BY <1>1, <2>1, <2>2
<1> QED
  BY <1>1, HeldKept

LEMMA MessageTaken ==
    ASSUME ChannelsTypeOK, toGateway # <<>>, NEW m, m = Head(toGateway), NEW answers \in Seq(Answers), Takes(m, answers)
    PROVE  /\ m \in Requests /\ m \in Elements(toGateway)
           /\ Elements(toGateway') \subseteq Elements(toGateway) /\ Pairs(toGateway') \subseteq Pairs(toGateway)
           /\ \A n \in Elements(toGateway') : <<m, n>> \in Pairs(toGateway)
           /\ Elements(toClient') = Elements(toClient) \cup Elements(answers)
           /\ UNCHANGED <<subs, subLast, wanted, todo, nextMsgId>>
<1>1. toGateway \in Seq(Requests) /\ toClient \in Seq(Answers)
  BY DEF ChannelsTypeOK
<1>2. toGateway' = Tail(toGateway) /\ toClient' = toClient \o answers /\ UNCHANGED <<subs, subLast, wanted, todo, nextMsgId>>
  BY DEF Takes, managerVars
<1>3. m \in Requests
  BY <1>1, HeadElement
<1>4. /\ Elements(toGateway) = {m} \cup Elements(toGateway')
      /\ Pairs(toGateway') \subseteq Pairs(toGateway)
      /\ \A n \in Elements(toGateway') : <<m, n>> \in Pairs(toGateway)
  BY <1>1, <1>2, HeadAndTail
<1>5. Elements(toClient') = Elements(toClient) \cup Elements(answers)
  BY <1>1, <1>2, ConcatElements
<1> QED
  BY <1>2, <1>3, <1>4, <1>5

\* What is answered says nothing of a subscription, or refuses one.
LEMMA AnswersKeep ==
    ASSUME TypeOK, SubsKept, todo # <<>>, toGateway # <<>>, NEW m, m = Head(toGateway),
           NEW answers \in Seq(Answers), Takes(m, answers),
           \A a \in Elements(answers) :
               a.type = "SUBACK" => m.type = "SUBSCRIBE" /\ a.msgID = m.msgID /\ ~a.accepted,
           \/ ~conducted' \/ status' = "Unknown"
           \/ brokerSubs' = brokerSubs /\ (conducted' /\ status' # "Unknown" => conducted /\ status # "Unknown")
    PROVE  SubsKept'
<1>1. /\ m \in Requests /\ m \in Elements(toGateway)
      /\ Elements(toGateway') \subseteq Elements(toGateway) /\ Pairs(toGateway') \subseteq Pairs(toGateway)
      /\ Elements(toClient') = Elements(toClient) \cup Elements(answers)
      /\ UNCHANGED <<subs, subLast, wanted, todo, nextMsgId>>
  BY MessageTaken DEF TypeOK
<1>2. \A a \in Elements(toClient') : a.type = "SUBACK" => a \in Elements(toClient) \/ \E p \in Carried : p[1] = a.msgID
  <2>1. m.type = "SUBSCRIBE" => <<m.msgID, m.topic>> \in Carried
    BY <1>1 DEF Carried
  <2>2. <<m.msgID, m.topic>>[1] = m.msgID
    OBVIOUS
  <2>3. m.type = "SUBSCRIBE" => \E p \in Carried : p[1] = m.msgID
    BY <2>1, <2>2
  <2> QED
    BY <1>1, <2>3
<1>3. HeldOK'
  <2>1. CASE ~conducted' \/ status' = "Unknown"
    BY <2>1 DEF HeldOK
  <2>2. CASE brokerSubs' = brokerSubs /\ (conducted' /\ status' # "Unknown" => conducted /\ status # "Unknown")
    <3>1. HeldOK
      BY DEF SubsKept
    <3>2. \A a \in Elements(toClient') : a.type = "SUBACK" /\ a.accepted => a \in Elements(toClient)
      BY <1>1
    <3>3. \A topic \in wanted : Served(topic) => Served(topic)'
      BY <1>1, <2>2 DEF Served
    <3> QED
      BY <1>1, <2>2, <3>1, <3>2, <3>3, SessionHeld
  <2> QED
    BY <2>1, <2>2
<1> QED
  BY <1>1, <1>2, <1>3, SessionKeeps

LEMMA SubscribedKeeps ==
    ASSUME TypeOK, SubsKept, todo # <<>>, toGateway # <<>>, NEW m, m = Head(toGateway), m.type = "SUBSCRIBE",
           NEW a \in Answers, a.msgID = m.msgID, Takes(m, <<a>>),
           brokerSubs' = brokerSubs \cup {m.topic}, UNCHANGED <<status, conducted>>
    PROVE  SubsKept'
<1>1. <<a>> \in Seq(Answers) /\ Elements(<<a>>) = {a}
  BY FewElements
<1>2. /\ m \in Requests /\ m \in Elements(toGateway)
      /\ Elements(toGateway') \subseteq Elements(toGateway) /\ Pairs(toGateway') \subseteq Pairs(toGateway)
      /\ \A n \in Elements(toGateway') : <<m, n>> \in Pairs(toGateway)
      /\ Elements(toClient') = Elements(toClient) \cup {a}
      /\ UNCHANGED <<subs, subLast, wanted, todo, nextMsgId>>
  <2> DEFINE answers == <<a>>
  <2>1. answers \in Seq(Answers) /\ Elements(answers) = {a} /\ Takes(m, answers)
    BY <1>1
  <2> HIDE DEF answers
  <2> QED
    BY <2>1, MessageTaken DEF TypeOK
<1>3. IdsOK /\ OrderOK /\ HeldOK
  BY DEF SubsKept
<1> DEFINE q == <<m.msgID, m.topic>>
<1>4. q \in Carried /\ q[1] = m.msgID /\ q[2] = m.topic
  BY <1>2 DEF Carried
<1> HIDE DEF q
<1>5. HeldOK'
  <2> SUFFICES ASSUME conducted', status' # "Unknown", NEW e \in Held',
                      Granted(e)', Again(e.topic) \notin Elements(todo')
               PROVE  Served(e.topic)'
    BY DEF HeldOK
  <2>1. e \in Held
    BY <1>2 DEF Held
  <2>2. CASE Granted(e)
    <3>1. Served(e.topic)
      BY <1>2, <1>3, <2>1, <2>2 DEF HeldOK
    <3> QED
      BY <1>2, <3>1 DEF Served
  <2>3. CASE ~Granted(e)
    <3>1. a.msgID = e.msgID
      BY <1>2, <2>3 DEF Granted
    <3> DEFINE p == <<e.msgID, e.topic>>
    <3>2. p \in Carried /\ p[1] = e.msgID /\ p[2] = e.topic
      BY <2>1 DEF Carried, Held
    <3> HIDE DEF p
    <3>3. m.topic = e.topic
      BY <1>3, <1>4, <3>1, <3>2 DEF IdsOK
    <3>4. ASSUME NEW n \in Elements(toGateway'), n.type = "UNSUBSCRIBE" PROVE n.topic # e.topic
      <4> DEFINE p2 == <<m, n>>
      <4>1. p2 \in Pairs(toGateway) /\ p2[1] = m /\ p2[2] = n
        BY <1>2
      <4> HIDE DEF p2
      <4> QED
        BY <1>3, <2>1, <3>1, <3>4, <4>1 DEF OrderOK
    <3> QED
      BY <3>3, <3>4 DEF Served
  <2> QED
    BY <2>2, <2>3
<1>6. \A b \in Elements(toClient') : b.type = "SUBACK" => b \in Elements(toClient) \/ \E p \in Carried : p[1] = b.msgID
  BY <1>2, <1>4
<1> QED
  BY <1>2, <1>5, <1>6, SessionKeeps

LEMMA UnsubscribedKeeps ==
    ASSUME TypeOK, SubsKept, todo # <<>>, toGateway # <<>>, NEW m, m = Head(toGateway), HandleUnsubscribe(m)
    PROVE  SubsKept'
<1> DEFINE a == [type |-> "UNSUBACK", msgID |-> m.msgID]
<1>1. m \in Requests
  BY HeadElement DEF TypeOK, ChannelsTypeOK
<1>2. /\ a \in Answers /\ a.type = "UNSUBACK" /\ Takes(m, <<a>>) /\ brokerSubs' = brokerSubs \ {m.topic}
      /\ UNCHANGED <<status, conducted>> /\ m.type = "UNSUBSCRIBE"
  BY <1>1 DEF HandleUnsubscribe, Requests, Answers
<1> HIDE DEF a
<1> DEFINE answers == <<a>>
<1>3. answers \in Seq(Answers) /\ Elements(answers) = {a} /\ Takes(m, answers)
  BY <1>2, FewElements
<1> HIDE DEF answers
<1>4. /\ m \in Elements(toGateway)
      /\ Elements(toGateway') \subseteq Elements(toGateway) /\ Pairs(toGateway') \subseteq Pairs(toGateway)
      /\ Elements(toClient') = Elements(toClient) \cup {a}
      /\ UNCHANGED <<subs, subLast, wanted, todo, nextMsgId>>
  BY <1>3, MessageTaken DEF TypeOK
<1>5. \A b \in Elements(toClient') : b.type = "SUBACK" => b \in Elements(toClient)
  BY <1>2, <1>4
<1>6. HeldOK'
  <2>1. \A topic \in wanted : Served(topic) => Served(topic)'
    BY <1>2, <1>4 DEF Served
  <2>2. HeldOK
    BY DEF SubsKept
  <2> QED
    BY <1>2, <1>4, <1>5, <2>1, <2>2, SessionHeld
<1> QED
  BY <1>4, <1>5, <1>6, SessionKeeps

LEMMA SubscribeKeeps ==
    ASSUME TypeOK, SubsKept, todo # <<>>, toGateway # <<>>, NEW m, m = Head(toGateway), HandleSubscribe(m)
    PROVE  SubsKept'
<1>1. m \in Requests /\ m.type = "SUBSCRIBE" /\ UNCHANGED <<status, conducted>>
  BY HeadElement DEF TypeOK, ChannelsTypeOK, HandleSubscribe
<1>2. m.msgID \in Nat /\ m.topic \in Topics
  BY <1>1 DEF Requests
<1>3. CASE m.topic \in PredefinedIds \ GatewayIds
  <2> DEFINE a == [type |-> "SUBACK", msgID |-> m.msgID, topic |-> m.topic, id |-> 0, accepted |-> FALSE]
             answers == <<a>>
  <2>1. a \in Answers
    BY <1>2, AnswerTypes
  <2>2. a.msgID = m.msgID /\ ~a.accepted /\ Takes(m, <<a>>) /\ brokerSubs' = brokerSubs
    BY <1>3 DEF HandleSubscribe
  <2> HIDE DEF a
  <2>3. answers \in Seq(Answers) /\ Elements(answers) = {a} /\ Takes(m, answers)
    BY <2>1, <2>2, FewElements
  <2> HIDE DEF answers
  <2> QED
    BY <1>1, <2>2, <2>3, AnswersKeep
<1>4. CASE ~(m.topic \in PredefinedIds \ GatewayIds)
  <2> DEFINE n == IF m.topic \in Names THEN topics'[m.topic] ELSE 0
             a == [type |-> "SUBACK", msgID |-> m.msgID, topic |-> m.topic, accepted |-> TRUE, id |-> n]
  <2>1. Takes(m, <<a>>) /\ brokerSubs' = brokerSubs \cup {m.topic}
    BY <1>4 DEF HandleSubscribe
  <2>2. n \in Nat
    BY <1>4, AddTopicTyped DEF HandleSubscribe, TypeOK
  <2>3. a = [type |-> "SUBACK", msgID |-> m.msgID, topic |-> m.topic, id |-> n, accepted |-> TRUE]
    OBVIOUS
  <2> HIDE DEF n
  <2>4. a \in Answers
    <3>1. [type |-> "SUBACK", msgID |-> m.msgID, topic |-> m.topic, id |-> n, accepted |-> TRUE] \in Answers
      BY <1>2, <2>2, AnswerTypes
    <3> QED
      BY <2>3, <3>1
  <2>5. a.msgID = m.msgID
    OBVIOUS
  <2> HIDE DEF a
  <2> QED
    BY <1>1, <2>1, <2>4, <2>5, SubscribedKeeps
<1> QED
  BY <1>3, <1>4

\* A handler answers with one message or with none.
LEMMA OneAnswer ==
    /\ <<>> \in Seq(Answers) /\ Elements(<<>>) = {}
    /\ \A a \in Answers : <<a>> \in Seq(Answers) /\ Elements(<<a>>) = {a}
BY AnswerTypes, FewElements

LEMMA HandlersKeep ==
    ASSUME TypeOK, SubsKept, todo # <<>>, toGateway # <<>>, NEW m, m = Head(toGateway),
           HandleSearchgw(m) \/ HandleConnect(m) \/ HandleConnectRefused(m) \/ HandleDisconnect(m) \/ HandlePingreq(m)
             \/ HandleRegister(m) \/ HandlePublish(m) \/ HandlePubrel(m) \/ HandleIgnored(m)
    PROVE  SubsKept'
<1> USE DEF sessionVars
<1>1. m \in Requests /\ SessionTypeOK
  BY HeadElement DEF TypeOK, ChannelsTypeOK
<1>2. ASSUME NEW a \in Answers, a.type # "SUBACK", Takes(m, <<a>>),
             \/ ~conducted' \/ status' = "Unknown"
             \/ brokerSubs' = brokerSubs /\ (conducted' /\ status' # "Unknown" => conducted /\ status # "Unknown")
      PROVE  SubsKept'
  <2> DEFINE answers == <<a>>
  <2>1. answers \in Seq(Answers) /\ Elements(answers) = {a} /\ Takes(m, answers)
    BY <1>2, OneAnswer
  <2> HIDE DEF answers
  <2> QED
    BY <1>2, <2>1, AnswersKeep
<1>3. ASSUME Takes(m, <<>>), UNCHANGED <<brokerSubs, conducted, status>>
      PROVE  SubsKept'
  <2> DEFINE answers == <<>>
  <2>1. answers \in Seq(Answers) /\ Elements(answers) = {} /\ Takes(m, answers)
    BY <1>3, OneAnswer
  <2> HIDE DEF answers
  <2> QED
    BY <1>3, <2>1, AnswersKeep
<1>4. CASE HandleSearchgw(m)
  <2>1. Msg("GWINFO") \in Answers /\ Msg("GWINFO").type # "SUBACK"
    BY AnswerTypes DEF Msg
  <2> QED
    BY <1>2, <1>4, <2>1 DEF HandleSearchgw
<1>5. CASE HandlePingreq(m)
  <2>1. Msg("PINGRESP") \in Answers /\ Msg("PINGRESP").type # "SUBACK"
    BY AnswerTypes DEF Msg
  <2> QED
    BY <1>2, <1>5, <2>1 DEF HandlePingreq
<1>6. CASE HandleConnect(m)
  <2>1. Connack(TRUE) \in Answers /\ Connack(TRUE).type # "SUBACK" /\ Takes(m, <<Connack(TRUE)>>)
    BY <1>6, AnswerTypes DEF Connack, HandleConnect
  <2>2. \/ ~conducted'
        \/ brokerSubs' = brokerSubs /\ (conducted' /\ status' # "Unknown" => conducted /\ status # "Unknown")
    BY <1>6 DEF HandleConnect, Resting
  <2> QED
    BY <1>2, <2>1, <2>2
<1>7. CASE HandleConnectRefused(m)
  <2>1. Connack(FALSE) \in Answers /\ Connack(FALSE).type # "SUBACK" /\ Takes(m, <<Connack(FALSE)>>)
    BY <1>7, AnswerTypes DEF Connack, HandleConnectRefused
  <2>2. ~conducted'
    BY <1>7 DEF HandleConnectRefused
  <2> QED
    BY <1>2, <2>1, <2>2
<1>8. CASE HandleDisconnect(m)
  <2>1. DisconnectMsg(FALSE) \in Answers /\ DisconnectMsg(FALSE).type # "SUBACK" /\ Takes(m, <<DisconnectMsg(FALSE)>>)
    BY <1>8, AnswerTypes DEF DisconnectMsg, HandleDisconnect
  <2>2. \/ status' = "Unknown"
        \/ brokerSubs' = brokerSubs /\ (conducted' /\ status' # "Unknown" => conducted /\ status # "Unknown")
    BY <1>8 DEF HandleDisconnect, Erase
  <2> QED
    BY <1>2, <2>1, <2>2
<1>9. CASE HandleRegister(m)
  <2> DEFINE a == [type |-> "REGACK", msgID |-> m.msgID, id |-> topics'[m.topic]]
  <2>1. m.topic \in Names /\ m.msgID \in Nat
    BY <1>1, <1>9 DEF Requests, HandleRegister
  <2>2. topics'[m.topic] \in Nat
    BY <1>1, <1>9, <2>1, AddTopicTyped DEF HandleRegister
  <2>3. a \in Answers
    BY <2>1, <2>2, AnswerTypes
  <2>4. a.type # "SUBACK" /\ Takes(m, <<a>>) /\ UNCHANGED <<brokerSubs, conducted, status>>
    BY <1>9 DEF HandleRegister
  <2> HIDE DEF a
  <2> QED
    BY <1>2, <2>3, <2>4
<1>10. CASE HandlePublish(m)
  <2>1. m.msgID \in Nat /\ m.qos \in 0..2 /\ UNCHANGED <<brokerSubs, conducted, status>>
    BY <1>1, <1>10 DEF Requests, HandlePublish
  <2>2. \/ Takes(m, <<>>)
        \/ Takes(m, <<[type |-> "PUBREC", msgID |-> m.msgID]>>)
        \/ \E b \in BOOLEAN : Takes(m, <<[type |-> "PUBACK", msgID |-> m.msgID, accepted |-> b]>>)
    <3> DEFINE valid == \E name \in Names : m.id = topics[name] /\ m.id # 0
    <3>1. Takes(m, CASE m.qos = 0 -> <<>>
                         [] m.qos = 2 /\ valid -> <<[type |-> "PUBREC", msgID |-> m.msgID]>>
                         [] OTHER -> <<[type |-> "PUBACK", msgID |-> m.msgID, accepted |-> valid]>>)
      BY <1>10 DEF HandlePublish
    <3>2. valid \in BOOLEAN
      OBVIOUS
    <3> HIDE DEF valid
    <3>3. CASE m.qos = 0
      BY <3>1, <3>3
    <3>4. CASE m.qos = 2 /\ valid
      BY <3>1, <3>4
    <3>5. CASE ~(m.qos = 0) /\ ~(m.qos = 2 /\ valid)
      BY <3>1, <3>2, <3>5
    <3> QED
      BY <3>3, <3>4, <3>5
  <2>3. CASE Takes(m, <<>>)
    BY <1>3, <2>1, <2>3
  <2>4. CASE Takes(m, <<[type |-> "PUBREC", msgID |-> m.msgID]>>)
    <3> DEFINE a == [type |-> "PUBREC", msgID |-> m.msgID]
    <3>1. a \in Answers /\ a.type # "SUBACK" /\ Takes(m, <<a>>)
      BY <2>1, <2>4, AnswerTypes
    <3> HIDE DEF a
    <3> QED
      BY <1>2, <2>1, <3>1
  <2>5. ASSUME NEW b \in BOOLEAN, Takes(m, <<[type |-> "PUBACK", msgID |-> m.msgID, accepted |-> b]>>)
        PROVE  SubsKept'
    <3> DEFINE a == [type |-> "PUBACK", msgID |-> m.msgID, accepted |-> b]
    <3>1. a \in Answers /\ a.type # "SUBACK" /\ Takes(m, <<a>>)
      BY <2>1, <2>5, AnswerTypes
    <3> HIDE DEF a
    <3> QED
      BY <1>2, <2>1, <3>1
  <2> QED
    BY <2>2, <2>3, <2>4, <2>5
<1>11. CASE HandlePubrel(m)
  <2> DEFINE a == [type |-> "PUBCOMP", msgID |-> m.msgID]
  <2>1. m.msgID \in Nat
    BY <1>1, <1>11 DEF Requests, HandlePubrel
  <2>2. a \in Answers /\ a.type # "SUBACK"
    BY <2>1, AnswerTypes
  <2>3. Takes(m, <<a>>) /\ UNCHANGED <<brokerSubs, conducted, status>>
    BY <1>11 DEF HandlePubrel
  <2> HIDE DEF a
  <2> QED
    BY <1>2, <2>2, <2>3
<1>12. CASE HandleIgnored(m)
  BY <1>3, <1>12 DEF HandleIgnored
<1> QED
  BY <1>4, <1>5, <1>6, <1>7, <1>8, <1>9, <1>10, <1>11, <1>12

LEMMA GatewayKeeps ==
    ASSUME TypeOK, SubsKept, todo # <<>>, toGateway # <<>>,
           Handle(Head(toGateway)) \/ HandleConnectRefused(Head(toGateway))
    PROVE  SubsKept'
<1> DEFINE m == Head(toGateway)
<1>1. Handle(m) \/ HandleConnectRefused(m)
  OBVIOUS
<1>2. m = Head(toGateway)
  OBVIOUS
<1> HIDE DEF m
<1> QED
  BY <1>1, <1>2, HandlersKeep, SubscribeKeeps, UnsubscribedKeeps DEF Handle

LEMMA LossKeeps ==
    ASSUME TypeOK, SubsKept, todo # <<>>, BrokerCloses \/ Lose
    PROVE  SubsKept'
<1> USE DEF netVars, managerVars, noteVars, sessionVars
<1>1. toGateway \in Seq(Requests) /\ toClient \in Seq(Answers)
  BY DEF TypeOK, ChannelsTypeOK
<1>2. UNCHANGED <<subs, subLast, wanted, todo, nextMsgId, conducted>>
  BY DEF BrokerCloses, Lose
<1>3. CASE BrokerCloses
  <2>1. UNCHANGED <<toGateway, toClient>> /\ status' = "Unknown"
    BY <1>3 DEF BrokerCloses, Erase
  <2>2. HeldOK'
    BY <2>1 DEF HeldOK
  <2>3. /\ Elements(toGateway') \subseteq Elements(toGateway) /\ Pairs(toGateway') \subseteq Pairs(toGateway)
        /\ Elements(toClient') \subseteq Elements(toClient)
    BY <2>1
  <2> QED
    BY <1>2, <2>2, <2>3, SessionKeeps
<1>4. CASE Lose
  <2>1. UNCHANGED <<brokerSubs, status>>
    BY <1>4 DEF Lose
  <2>2. /\ Elements(toGateway') \subseteq Elements(toGateway) /\ Pairs(toGateway') \subseteq Pairs(toGateway)
        /\ Elements(toClient') \subseteq Elements(toClient)
    <3>1. ASSUME NEW i \in DOMAIN toGateway, toGateway' = RemoveAt(toGateway, i), UNCHANGED toClient
          PROVE  /\ Elements(toGateway') \subseteq Elements(toGateway) /\ Pairs(toGateway') \subseteq Pairs(toGateway)
                 /\ Elements(toClient') \subseteq Elements(toClient)
      <4>1. i \in 1..Len(toGateway)
        BY <1>1
      <4> QED
        BY <1>1, <3>1, <4>1, WithoutElement, WithoutPairs
    <3>2. ASSUME NEW i \in DOMAIN toClient, toClient' = RemoveAt(toClient, i), UNCHANGED toGateway
          PROVE  /\ Elements(toGateway') \subseteq Elements(toGateway) /\ Pairs(toGateway') \subseteq Pairs(toGateway)
                 /\ Elements(toClient') \subseteq Elements(toClient)
      <4>1. i \in 1..Len(toClient)
        BY <1>1
      <4> QED
        BY <1>1, <3>2, <4>1, WithoutElement
    <3> QED
      BY <1>4, <3>1, <3>2 DEF Lose
  <2>3. HeldOK'
    <3>1. \A topic \in wanted : Served(topic) => Served(topic)'
      BY <2>1, <2>2 DEF Served
    <3>2. HeldOK
      BY DEF SubsKept
    <3> QED
      BY <1>2, <2>1, <2>2, <3>1, <3>2, SessionHeld
  <2> QED
    BY <1>2, <2>2, <2>3, SessionKeeps
<1> QED
  BY <1>3, <1>4

----------------------------------------------------------------------------
(* Every step. *)

LEMMA ProceedKeeps ==
    ASSUME TypeOK, TypeOK', SubsKept, todo # <<>>, UNCHANGED sessionVars, Proceed
    PROVE  SubsKept'
<1>1. CASE SubscribeCalled \/ (Resubscribe /\ Head(todo).type = "SUBSCRIBE")
  BY <1>1, AskKeeps
<1>2. CASE WriteSub
  BY <1>2, WritesKeep
<1>3. CASE \/ ConnectReturns \/ ConnectSearches \/ ConnectSends \/ DisconnectBegins
           \/ PublishCalled \/ WritePublish \/ WriteRegister \/ Reconnected
           \/ Resubscribe /\ Head(todo).type # "SUBSCRIBE"
           \/ OnConnectReturns \/ TestEnds
  <2>1. PlainStep
    BY <1>3, PlainProceeds
  <2> QED
    BY <2>1, PlainKeeps
<1> QED
  BY <1>1, <1>2, <1>3 DEF Proceed

LEMMA TimeoutKeeps ==
    ASSUME TypeOK, TypeOK', SubsKept, todo # <<>>, UNCHANGED sessionVars, Timeout \/ Ping
    PROVE  SubsKept'
<1>1. CASE \E i \in DOMAIN subs : SubTimeout(i)
  BY <1>1, ResendKeeps, GiveUpKeeps
<1>2. CASE \/ ConnectTimeout \/ DisconnectTimeout \/ PublishTimeout \/ RegisterTimeout \/ PingTimeout \/ Ping
  <2>1. PlainStep
    BY <1>2, PlainTimeouts
  <2> QED
    BY <2>1, PlainKeeps
<1> QED
  BY <1>1, <1>2 DEF Timeout

LEMMA ReceiveKeeps ==
    ASSUME TypeOK, TypeOK', SubsKept, todo # <<>>, UNCHANGED sessionVars, toClient # <<>>, Receive(Head(toClient))
    PROVE  SubsKept'
<1> DEFINE m == Head(toClient)
<1>1. m = Head(toClient) /\ Receive(m)
  OBVIOUS
<1> HIDE DEF m
<1>2. CASE ConnectAccepted(m) /\ ~proxy.tSleep
  BY <1>1, <1>2, ConductKeeps
<1>3. CASE ReceiveSuback(m) /\ WithId(m.msgID) # 0 /\ m.accepted
  BY <1>1, <1>3, AcceptKeeps
<1>4. CASE ((ReceiveSuback(m) /\ ~m.accepted) \/ ReceiveUnsuback(m)) /\ WithId(m.msgID) # 0
  BY <1>1, <1>4, RemovalKeeps
<1>5. CASE \/ ConnectFindsGateway(m) \/ ConnectRefused(m) \/ ConnectDrops(m)
           \/ ConnectAccepted(m) /\ proxy.tSleep
           \/ DisconnectAnswered(m) \/ DisconnectDrops(m)
           \/ ReceivePuback(m) \/ ReceivePubrec(m) \/ ReceivePubcomp(m) \/ ReceiveRegack(m)
           \/ (ReceiveSuback(m) \/ ReceiveUnsuback(m)) /\ WithId(m.msgID) = 0
           \/ ReceivePingresp(m) \/ ReceiveDisconnect(m) \/ ReceiveOther(m)
  <2>1. PlainStep
    BY <1>1, <1>5, PlainReceives
  <2> QED
    BY <2>1, PlainKeeps
<1> QED
  BY <1>1, <1>2, <1>3, <1>4, <1>5 DEF Receive

\* A program that has ended does nothing more.
LEMMA EndedStays ==
    ASSUME todo = <<>>, [Next]_vars
    PROVE  todo' = <<>>
<1> USE DEF netVars, managerVars, noteVars, sessionVars
<1>1. \A op : ~In(op)
  BY DEF In
<1>2. ~Proceed
  BY <1>1 DEF Proceed, ConnectReturns, ConnectSearches, ConnectSends, DisconnectBegins, PublishCalled, WritePublish,
     WriteRegister, Reconnected, SubscribeCalled, Resubscribe, WriteSub, OnConnectReturns, TestEnds
<1>3. ~InGetMessage /\ ~ConnectWaits
  BY <1>1 DEF InGetMessage, ConnectWaits
<1>4. ~Timeout /\ ~Ping /\ ~RunTest /\ ~ProgramEnds
  BY <1>1, <1>3 DEF Timeout, ConnectTimeout, DisconnectTimeout, PublishTimeout, RegisterTimeout, PingTimeout,
     SubTimeout, Ping, RunTest, ProgramEnds
<1>5. ~Receive(Head(toClient))
  BY <1>1, <1>3 DEF Receive, ConnectFindsGateway, ConnectAccepted, ConnectRefused, ConnectDrops, DisconnectAnswered,
     DisconnectDrops, ReceivePuback, ReceivePubrec, ReceivePubcomp, ReceiveRegack, ReceiveSuback, ReceiveUnsuback,
     ReceivePingresp, ReceiveDisconnect, ReceiveOther
<1>6. CASE Handle(Head(toGateway)) \/ HandleConnectRefused(Head(toGateway))
  BY <1>6 DEF Handle, HandleConnectRefused, HandleSearchgw, HandleConnect, HandleDisconnect, HandlePingreq,
     HandleRegister, HandlePublish, HandlePubrel, HandleSubscribe, HandleUnsubscribe, HandleIgnored, Takes
<1>7. CASE BrokerCloses \/ Lose \/ UNCHANGED vars
  BY <1>7 DEF BrokerCloses, Lose, vars, clientVars
<1> QED
  BY <1>2, <1>4, <1>5, <1>6, <1>7 DEF Next, ClientStep

LEMMA StepKeeps ==
    ASSUME TypeOK, TypeOK', SubsKept, [Next]_vars
    PROVE  SubsKept'
<1>1. CASE todo = <<>>
  <2>1. todo' = <<>>
    BY <1>1, EndedStays
  <2> QED
    BY <2>1 DEF SubsKept
<1>2. CASE todo # <<>>
  <2>1. CASE ClientStep(Proceed) \/ ClientStep(Timeout) \/ ClientStep(Ping)
    BY <1>2, <2>1, ProceedKeeps, TimeoutKeeps DEF ClientStep
  <2>2. CASE ClientStep(RunTest)
    BY <1>2, <2>2, TestKeeps DEF ClientStep
  <2>3. CASE ClientStep(ProgramEnds)
    BY <2>3 DEF ClientStep, ProgramEnds, SubsKept
  <2>4. CASE toClient # <<>> /\ ClientStep(Receive(Head(toClient)))
    BY <1>2, <2>4, ReceiveKeeps DEF ClientStep
  <2>5. CASE toGateway # <<>> /\ (Handle(Head(toGateway)) \/ HandleConnectRefused(Head(toGateway)))
    BY <1>2, <2>5, GatewayKeeps
  <2>6. CASE BrokerCloses \/ Lose
    BY <1>2, <2>6, LossKeeps
  <2>7. CASE UNCHANGED vars
    <3>1. UNCHANGED <<toGateway, toClient, subs, subLast, wanted, todo, nextMsgId, conducted, status, brokerSubs>>
      BY <2>7 DEF vars, clientVars, netVars, sessionVars, managerVars, noteVars
    <3>2. HeldOK /\ (\A topic \in wanted : Served(topic) => Served(topic)')
      BY <1>2, <3>1 DEF SubsKept, Served
    <3>3. HeldOK'
      BY <3>1, <3>2, SessionHeld
    <3> QED
      BY <1>2, <3>1, <3>3, SessionKeeps
  <2> QED
    BY <2>1, <2>2, <2>3, <2>4, <2>5, <2>6, <2>7 DEF Next
<1> QED
  BY <1>1, <1>2

LEMMA InitKept == Init => SubsKept
<1> SUFFICES ASSUME Init PROVE SubsKept
  OBVIOUS
<1>1. /\ todo = <<[op |-> "connect"], [op |-> "prompt"]>> /\ subs = <<>> /\ subLast = 0
      /\ toGateway = <<>> /\ toClient = <<>> /\ wanted = {} /\ ~conducted
  BY DEF Init, TesterInit
<1>2. Elements(subs) = {} /\ Elements(toGateway) = {} /\ Elements(toClient) = {}
  BY <1>1, FewElements
<1>3. \A i \in 1..Len(todo) : todo[i].op \in {"connect", "prompt"} /\ (i = 1 => todo[i].op = "connect")
  BY <1>1
<1>4. \A c \in Elements(todo) : c.op \in {"connect", "prompt"}
  BY <1>3 DEF Elements
<1>5. Len(todo) = 2 /\ Head(todo).op = "connect"
  BY <1>1
<1>6. StackOK
  BY <1>3, <1>5 DEF StackOK, In
<1>7. UnsubsOK
  <2>1. Unsubscribing = {} /\ "writeSub" \notin Ops
    BY <1>2, <1>4 DEF Unsubscribing, Ops
  <2> QED
    BY <1>2, <2>1 DEF UnsubsOK
<1>8. IdsOK
  <2>1. Carried = {}
    BY <1>2, <1>4 DEF Carried
  <2> QED
    BY <1>2, <2>1 DEF IdsOK
<1>9. UniqueOK
  BY <1>1 DEF UniqueOK
<1>10. OrderOK
  BY <1>2 DEF OrderOK, Held
<1> QED
  BY <1>1, <1>6, <1>7, <1>8, <1>9, <1>10 DEF SubsKept, HeldOK

LEMMA KeptSuffices ==
    ASSUME TypeOK, SubsKept
    PROVE  SubscriptionsKept
<1> SUFFICES ASSUME In("prompt"), status = "Active", conducted, NEW topic \in Accepted \cap wanted
             PROVE  topic \in brokerSubs
  BY DEF SubscriptionsKept
<1>1. todo \in Seq(Calls) /\ todo # <<>> /\ subs \in Seq(SubElements)
  BY DEF In, TypeOK, CallsTypeOK, ManagersTypeOK
<1>2. StackOK /\ HeldOK
  BY <1>1 DEF SubsKept
<1>3. Len(todo) \in Nat /\ Head(todo) = todo[1] /\ 1 \in 1..Len(todo)
  BY <1>1
<1>4. Len(todo) = 1
  BY <1>2, <1>3 DEF StackOK, In
<1>5. \A c \in Elements(todo) : c = Head(todo)
  BY <1>3, <1>4 DEF Elements
<1>6. Again(topic) \notin Elements(todo)
  <2>1. Again(topic).op = "resubscribe"
    BY DEF Again
  <2> QED
    BY <1>5, <2>1 DEF In
<1>7. PICK i \in DOMAIN subs : subs[i].type = "SUBSCRIBE" /\ subs[i].done /\ ~subs[i].refused /\ subs[i].topic = topic
  BY DEF Accepted
<1> DEFINE e == subs[i]
<1>8. e \in Elements(subs)
  BY <1>1, <1>7 DEF Elements
<1>9. e \in Held /\ Granted(e) /\ e.topic = topic
  BY <1>7, <1>8 DEF Held, Granted
<1> HIDE DEF e
<1>10. Served(topic)
  BY <1>2, <1>6, <1>9 DEF HeldOK
<1> QED
  BY <1>10 DEF Served

\* Whatever is lost, sent again or begun anew: while the program waits for its next test and
\* onConnect was called for the session the gateway has, the broker has each subscription
\* that the library was told it has and that the program wants.
THEOREM SubscriptionsAlwaysKept == Spec => []SubscriptionsKept
<1>1. Init => SubsKept
  BY InitKept
<1>2. TypeOK /\ TypeOK' /\ SubsKept /\ [Next]_vars => SubsKept'
  BY StepKeeps
<1>3. TypeOK /\ SubsKept => SubscriptionsKept
  BY KeptSuffices
<1> QED
  BY <1>1, <1>2, <1>3, TypeCorrect, PTL DEF Spec
==============================================================================
