-------------------------------- MODULE Lists --------------------------------
(***************************************************************************)
(* The linked lists of the gateway and of its tester.  Each class has the  *)
(* text that links and unlinks an element written out again, each a little *)
(* differently: with or without a pointer to the last element, a pointer   *)
(* back, a counter and a limit.  One list of one class at a time; an       *)
(* operation is a function on the list as it is in memory, 0 is a null     *)
(* pointer, and the pointers of a freed element lead to Freed.             *)
(***************************************************************************)
EXTENDS Integers, FiniteSets, SequencesExt

CONSTANTS
    Nodes,             \* bound: addresses of elements
    Keys,              \* what elements are searched by
    PredefinedKeys,    \* those of predefined topics, which eraseNormal leaves
    MaxElements        \* MAX_INFLIGHTMESSAGES * 2, MAX_CLIENTS, MAX_TOPIC_PAR_CLIENT, ...

ASSUME ListsAssumption ==
    /\ Nodes \subseteq Int \ {0, -1} /\ IsFiniteSet(Nodes)
    /\ PredefinedKeys \subseteq Keys
    /\ MaxElements \in Nat \ {0}

ListClasses == {"Que", "List", "TopicIdMap", "WaitREGACKPacketList", "MessageIdTable",
                "ClientList", "Topics", "ForwarderList", "Forwarder", "LTopicTable",
                "AggregateTopicElement"}

VARIABLES
    class,         \* the class of the list
    list,          \* _first or _head, _end or _tail, _next and _prev of every element, _cnt,
                   \* the elements allocated and what each is found by
    contents       \* the keys that were put in and not taken out, oldest first

listVars == <<list, contents>>

Freed == -1

EmptyList ==
    [first |-> 0, last |-> 0, next |-> [n \in Nodes |-> 0], prev |-> [n \in Nodes |-> 0],
     cnt |-> 0, live |-> {}, key |-> <<>>]

ListInit == list = EmptyList /\ contents = <<>>

\* The elements in the order in which a search meets them.
Walk(l) ==
    LET at[i \in 1..(Cardinality(Nodes) + 1)] ==
            IF i = 1 THEN l.first ELSE IF at[i - 1] \in Nodes THEN l.next[at[i - 1]] ELSE 0
    IN  [i \in {j \in DOMAIN at : at[j] # 0} |-> at[i]]

\* The first element that a search for the key meets, as a set.
Find(l, k) ==
    LET i == SelectInSeq(Walk(l), LAMBDA n : n \in l.live /\ l.key[n] = k)
    IN  IF i = 0 THEN {} ELSE {Walk(l)[i]}

Alloc(l, n, k) ==
    [l EXCEPT !.live = @ \cup {n}, !.next[n] = 0, !.prev[n] = 0,
              !.key = [j \in DOMAIN @ \cup {n} |-> IF j = n THEN k ELSE @[j]]]

Free(l, n) == [l EXCEPT !.live = @ \ {n}, !.next[n] = Freed, !.prev[n] = Freed]

----------------------------------------------------------------------------
(* Putting an element in. *)

\* The text that most classes share.
Linked(l, n) ==
    IF l.first = 0
    THEN [l EXCEPT !.first = n, !.last = n, !.cnt = @ + 1]
    ELSE [l EXCEPT !.prev[n] = l.last, !.next[l.last] = n, !.last = n, !.cnt = @ + 1]

\* The lists without a pointer to the last element are walked to their end.
LinkedAtEnd(l, n) ==
    IF l.first = 0
    THEN [l EXCEPT !.first = n, !.cnt = @ + 1]
    ELSE [l EXCEPT !.next[Last(Walk(l))] = n, !.cnt = @ + 1]

Put(k, L(_, _)) ==
    /\ \E n \in Nodes \ list.live : list' = L(Alloc(list, n, k), n)
    /\ contents' = Append(contents, k)

QuePost(k) == class = "Que" /\ list.cnt < MaxElements /\ Put(k, Linked)

ListAdd(k) == class = "List" /\ Put(k, Linked)

SetPacket(k) == class = "WaitREGACKPacketList" /\ Put(k, Linked)

\* One element more than the limit says.
MessageIdTableAdd(k) ==
    class = "MessageIdTable" /\ list.cnt <= MaxElements /\ Find(list, k) = {} /\ Put(k, Linked)

createClient(k) ==
    class = "ClientList" /\ list.cnt <= MaxElements /\ Find(list, k) = {} /\ Put(k, Linked)

\* With a client id instead of an address, and the same text once more.
createPredefinedTopic(k) ==
    /\ class = "ClientList" /\ k \in PredefinedKeys
    /\ list.cnt <= MaxElements /\ Find(list, k) = {}
    /\ Put(k, Linked)

TopicsAdd(k) ==
    class = "Topics" /\ list.cnt < MaxElements /\ Find(list, k) = {} /\ Put(k, LinkedAtEnd)

ForwarderAdd(k) == class = "ForwarderList" /\ Put(k, LinkedAtEnd)

\* Forwarder::addClient; a client that is there already keeps its node id.
addClient(k) ==
    /\ class = "Forwarder"
    /\ IF Find(list, k) = {} THEN Put(k, LinkedAtEnd) ELSE UNCHANGED listVars

\* AggregateTopicElement::add, whose list is created with its first client.
AggregateAdd(k) ==
    class = "AggregateTopicElement" /\ Find(list, k) = {} /\ Put(k, Linked)

\* _prev is set, and reset at the end of add.
LTopicTableAdd(k) ==
    /\ class = "LTopicTable" /\ Find(list, k) = {}
    /\ Put(k, LAMBDA l, n : [Linked(l, n) EXCEPT !.prev[n] = 0])

----------------------------------------------------------------------------
(* Taking an element out. *)

\* Mutant: the element behind keeps its pointer back.
UnlinkedOneWay(l, n) ==
    LET p == l.prev[n]  q == l.next[n]
    IN  [l EXCEPT !.first = IF p = 0 THEN q ELSE @,
                  !.next  = IF p = 0 THEN @ ELSE [@ EXCEPT ![p] = q],
                  !.last  = IF q = 0 THEN p ELSE @,
                  !.cnt   = @ - 1]

\* TopicIdMap::erase, WaitREGACKPacketList::erase and ClientList::erase.
Unlinked(l, n) ==
    LET p == l.prev[n]  q == l.next[n]
    IN  [l EXCEPT !.first = IF p = 0 THEN q ELSE @,
                  !.next  = IF p = 0 THEN @ ELSE [@ EXCEPT ![p] = q],
                  !.last  = IF q = 0 THEN p ELSE @,
                  !.prev  = IF q = 0 THEN @ ELSE [@ EXCEPT ![q] = p],
                  !.cnt   = @ - 1]

\* MessageIdTable::clear, by cases: the last of a list of one, its head, its tail, another.
ClearedMessageId(l, n) ==
    LET p == l.prev[n]  q == l.next[n]
    IN  CASE p = 0 /\ q = 0 -> [l EXCEPT !.first = 0, !.last = 0, !.cnt = @ - 1]
          [] p = 0 /\ q # 0 -> [l EXCEPT !.first = q, !.prev[q] = 0, !.cnt = @ - 1]
          [] p # 0 /\ q = 0 -> [l EXCEPT !.next[p] = 0, !.last = p, !.cnt = @ - 1]
          [] p # 0 /\ q # 0 -> [l EXCEPT !.next[p] = q, !.prev[q] = p, !.cnt = @ - 1]

\* List::erase leaves _tail and the new head's _prev as they are.
ErasedElm(l, n) ==
    LET p == l.prev[n]  q == l.next[n]
    IN  CASE l.first = n                 -> [l EXCEPT !.first = q, !.cnt = @ - 1]
          [] l.first # n /\ l.last = n   -> [l EXCEPT !.last = p, !.next[p] = 0, !.cnt = @ - 1]
          [] l.first # n /\ l.last # n   ->
                [l EXCEPT !.next[p] = q, !.prev[q] = p, !.cnt = @ - 1]

\* Que::pop: the pointer back that is reset is the old head's.
Popped(l, n) ==
    IF l.first = l.last
    THEN [l EXCEPT !.first = 0, !.last = 0, !.cnt = @ - 1]
    ELSE [l EXCEPT !.first = l.next[n], !.prev[n] = 0, !.cnt = @ - 1]

\* The element n is unlinked and freed; it is the one at its place in contents.
TakeOut(n, U(_, _)) ==
    /\ list' = Free(U(list, n), n)
    /\ contents' = RemoveAt(contents, SelectInSeq(Walk(list), LAMBDA x : x = n))

QuePop == class = "Que" /\ list.first # 0 /\ TakeOut(list.first, Popped)

ListErase == class = "List" /\ \E n \in ToSet(Walk(list)) : TakeOut(n, ErasedElm)

\* Nobody frees the element (MQTTSNGWClient.cpp:683), so that its address is not used again;
\* here it may be, which includes that it is not.
ErasePacket(k) ==
    class = "WaitREGACKPacketList" /\ \E n \in Find(list, k) : TakeOut(n, Unlinked)

MessageIdTableErase(k) ==
    class = "MessageIdTable" /\ \E n \in Find(list, k) : TakeOut(n, ClearedMessageId)

EraseFromClientList(k) ==
    class = "ClientList" /\ \E n \in Find(list, k) : TakeOut(n, Unlinked)

\* The counter goes down whether or not the id is there; its callers have looked it up.
TopicIdMapErase(k) ==
    class = "TopicIdMap" /\ \E n \in Find(list, k) : TakeOut(n, Unlinked)

\* TopicIdMap::add, which erases an element of the same id first.
TopicIdMapAdd(k) ==
    /\ class = "TopicIdMap" /\ list.cnt <= MaxElements
    /\ LET old  == Find(list, k)
           rest == IF old = {} THEN list
                   ELSE LET n == CHOOSE n \in old : TRUE IN Free(Unlinked(list, n), n)
       IN  \E n \in Nodes \ rest.live : list' = Linked(Alloc(rest, n, k), n)
    /\ contents' = Append(RemoveFirst(contents, k), k)

TopicIdMapClear ==
    /\ class = "TopicIdMap" /\ list.first # 0
    /\ list' = EmptyList
    /\ contents' = <<>>

\* Topics::eraseNormal: one walk, with the last element that was kept.
ErasedNormal(at, n) ==
    IF at.list.key[n] \in PredefinedKeys
    THEN [at EXCEPT !.prev = n]
    ELSE LET q == at.list.next[n]
         IN  [at EXCEPT !.list = Free([at.list EXCEPT
                 !.first = IF @ = n THEN q ELSE @,
                 !.next  = IF at.prev = 0 THEN @ ELSE [@ EXCEPT ![at.prev] = q],
                 !.cnt   = @ - 1], n)]

OfPredefined(keys) ==
    LET kept[i \in 0..Len(keys)] ==
            IF i = 0 THEN <<>>
            ELSE IF keys[i] \in PredefinedKeys THEN Append(kept[i - 1], keys[i]) ELSE kept[i - 1]
    IN  kept[Len(keys)]

eraseNormal ==
    /\ class = "Topics"
    /\ LET w == Walk(list)
           at[i \in 0..Len(w)] == IF i = 0 THEN [list |-> list, prev |-> 0]
                                  ELSE ErasedNormal(at[i - 1], w[i])
       IN  list' = at[Len(w)].list
    /\ contents' = OfPredefined(contents)

ListNext ==
    \/ QuePop \/ ListErase \/ TopicIdMapClear \/ eraseNormal
    \/ \E k \in Keys :
          \/ QuePost(k) \/ ListAdd(k) \/ SetPacket(k) \/ MessageIdTableAdd(k) \/ createClient(k)
          \/ createPredefinedTopic(k) \/ TopicsAdd(k) \/ ForwarderAdd(k) \/ LTopicTableAdd(k)
          \/ addClient(k) \/ AggregateAdd(k)
          \/ ErasePacket(k) \/ MessageIdTableErase(k) \/ EraseFromClientList(k)
          \/ TopicIdMapErase(k) \/ TopicIdMapAdd(k)

\* One list, whatever its class; Containers has it next to the tree.
ListSpec == ListInit /\ [][ListNext /\ UNCHANGED class]_<<class, listVars>>

----------------------------------------------------------------------------
(* Properties. *)

Limit == IF class \in {"Que", "Topics"} THEN MaxElements ELSE MaxElements + 1

Limited == {"Que", "TopicIdMap", "MessageIdTable", "ClientList", "Topics"}

LinkedBack == {"TopicIdMap", "WaitREGACKPacketList", "MessageIdTable", "ClientList"}

\* In every order of operations a search meets the elements that were put in and not taken
\* out, oldest first, and none that was freed; the end, the counter and the pointers back by
\* which the next element is linked or unlinked are those of these elements; and the limit,
\* or one above it where the test is for more than the limit, is kept.
ListsAgree ==
    LET w == Walk(list)
    IN  /\ ToSet(w) \subseteq list.live
        /\ [i \in DOMAIN w |-> list.key[w[i]]] = contents
        /\ list.cnt = Len(contents)
        /\ class \notin {"Topics", "ForwarderList", "Forwarder"} /\ w # <<>> => list.last = Last(w)
        /\ class \in LinkedBack \cup {"List", "AggregateTopicElement"} => \A i \in 2..Len(w) : list.prev[w[i]] = w[i - 1]
        /\ class \in LinkedBack /\ w # <<>> => list.prev[w[1]] = 0
        /\ class \in Limited => Len(contents) <= Limit
============================================================================
