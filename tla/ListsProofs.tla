------------------------------ MODULE ListsProofs ------------------------------
(***************************************************************************)
(* Each list of the gateway and of its tester is, in every order of its    *)
(* operations and for any number of elements, the sequence of what was put *)
(* in and not taken out.                                                   *)
(*                                                                         *)
(* A walk along pointers is a recursive function.  That it exists is shown *)
(* by giving it, and that there is no other one by induction, in the form  *)
(* of a set that contains 0 and the successor of each of its numbers.      *)
(***************************************************************************)
EXTENDS Lists, FiniteSetTheorems, WellFoundedInduction, SequenceTheorems, TLAPS

----------------------------------------------------------------------------
(* Induction. *)

\* A set with 0 and the successor of each of its numbers has every number: if it had not,
\* one of the intervals 1..n, n not in the set, would be the smallest.
LEMMA SetInduction ==
    ASSUME NEW S, 0 \in S, \A n \in Nat : n \in S => n + 1 \in S
    PROVE  Nat \subseteq S
<1> DEFINE T == Nat \ S
           W == {1..n : n \in T}
           F == FiniteSubsetsOf(Nat)
           R == StrictSubsetOrdering(Nat)
<1>1. SUFFICES ASSUME T # {} PROVE FALSE
  OBVIOUS
<1>2. IsWellFoundedOn(R, F)
  BY FS_StrictSubsetOrderingWellFounded
<1>3. W \subseteq F
  <2> SUFFICES ASSUME NEW n \in Nat PROVE 1..n \in F
    OBVIOUS
  <2>1. IsFiniteSet(1..n)
    BY FS_Interval
  <2> QED
    BY <2>1 DEF FiniteSubsetsOf
<1>4. W # {}
  BY <1>1
<1>5. \A x, y \in Nat : x < y => <<1..x, 1..y>> \in R
  <2> SUFFICES ASSUME NEW x \in Nat, NEW y \in Nat, x < y PROVE <<1..x, 1..y>> \in R
    OBVIOUS
  <2>1. 1..x \subseteq 1..y /\ y \in 1..y /\ y \notin 1..x
    OBVIOUS
  <2>2. 1..x # 1..y /\ 1..x \in SUBSET Nat /\ 1..y \in SUBSET Nat
    BY <2>1
  <2> QED
    BY <2>1, <2>2 DEF StrictSubsetOrdering
<1> HIDE DEF R, F, W
<1>6. PICK w \in W : \A v \in W : ~ (<<v, w>> \in R)
  BY <1>2, <1>3, <1>4, WFMin
<1>7. PICK x \in T : w = 1..x
  BY <1>6 DEF W
<1>8. x \in Nat /\ x \notin S /\ x # 0
  BY <1>7
<1>9. x - 1 \in Nat /\ x - 1 < x /\ (x - 1) + 1 = x
  BY <1>8
<1>10. ASSUME x - 1 \in T PROVE FALSE
  <2>1. 1..(x - 1) \in W
    BY <1>10 DEF W
  <2>2. <<1..(x - 1), 1..x>> \in R
    BY <1>5, <1>8, <1>9
  <2> QED
    BY <1>6, <1>7, <2>1, <2>2
<1>11. x - 1 \in S
  BY <1>9, <1>10
<1> QED
  BY <1>8, <1>9, <1>11

\* The same for an interval.
LEMMA IntervalInduction ==
    ASSUME NEW m \in Nat, NEW S, 0 \in S, \A n \in 0..m - 1 : n \in S => n + 1 \in S
    PROVE  0..m \subseteq S
<1> DEFINE T == S \cup {n \in Nat : n > m}
<1>1. 0 \in T
  OBVIOUS
<1>2. \A n \in Nat : n \in T => n + 1 \in T
  <2> SUFFICES ASSUME NEW n \in Nat, n \in T PROVE n + 1 \in T
    OBVIOUS
  <2>1. CASE n >= m
    BY <2>1
  <2>2. CASE n < m
    <3>1. n \in 0..m - 1 /\ n \in S
      BY <2>2
    <3> QED
      BY <3>1
  <2> QED
    BY <2>1, <2>2
<1> HIDE DEF T
<1>3. Nat \subseteq T
  BY <1>1, <1>2, SetInduction
<1> QED
  BY <1>3 DEF T

----------------------------------------------------------------------------
(* The elements of a list in the order of its pointers. *)

\* u are the elements of the list in memory l: each once, from the first to a null pointer.
Chain(l, u) ==
    /\ u \in Seq(Nodes)
    /\ \A i, j \in 1..Len(u) : u[i] = u[j] => i = j
    /\ l.first = IF Len(u) = 0 THEN 0 ELSE u[1]
    /\ \A i \in 1..Len(u) : l.next[u[i]] = IF i = Len(u) THEN 0 ELSE u[i + 1]

LEMMA NodesSize == Cardinality(Nodes) \in Nat
BY ListsAssumption, FS_CardinalityType

\* There are no more of them than addresses.
LEMMA ChainIsShort ==
    ASSUME NEW l, NEW u, Chain(l, u)
    PROVE  Len(u) \in Nat /\ Len(u) <= Cardinality(Nodes)
<1>1. u \in Seq(Nodes) /\ Len(u) \in Nat /\ \A i, j \in 1..Len(u) : u[i] = u[j] => i = j
  BY DEF Chain
<1>2. u \in [1..Len(u) -> Nodes]
  BY <1>1
<1>3. u \in Injection(1..Len(u), Nodes)
  BY <1>1, <1>2 DEF Injection, IsInjective
<1>4. IsFiniteSet(Nodes)
  BY ListsAssumption
<1>5. Cardinality(1..Len(u)) <= Cardinality(Nodes)
  BY <1>3, <1>4, FS_Injection
<1>6. Cardinality(1..Len(u)) = Len(u)
  <2>1. Cardinality(1..Len(u)) = IF 1 > Len(u) THEN 0 ELSE Len(u) - 1 + 1
    BY <1>1, FS_Interval
  <2> QED
    BY <1>1, <2>1
<1> QED
  BY <1>1, <1>5, <1>6

\* The recursion of Walk has one solution, the elements and then null pointers.
LEMMA WalkIs ==
    ASSUME NEW l, NEW u, Chain(l, u)
    PROVE  Walk(l) = u
<1> DEFINE N == Cardinality(Nodes) + 1
           D == 1..N
           body(g) == [i \in D |-> IF i = 1 THEN l.first
                                   ELSE IF g[i - 1] \in Nodes THEN l.next[g[i - 1]] ELSE 0]
           w == [i \in D |-> IF i <= Len(u) THEN u[i] ELSE 0]
           at == CHOOSE g : g = body(g)
<1>1. /\ N \in Nat /\ Len(u) \in Nat /\ Len(u) + 1 <= N
      /\ u \in Seq(Nodes) /\ \A i \in 1..Len(u) : u[i] \in Nodes /\ u[i] # 0
  <2>1. Len(u) \in Nat /\ Len(u) <= Cardinality(Nodes)
    BY ChainIsShort
  <2>2. u \in Seq(Nodes)
    BY DEF Chain
  <2>3. \A i \in 1..Len(u) : u[i] \in Nodes
    BY <2>2
  <2>4. 0 \notin Nodes
    BY ListsAssumption
  <2>5. N \in Nat /\ Len(u) + 1 <= N
    BY <2>1, NodesSize
  <2> QED
    BY <2>1, <2>2, <2>3, <2>4, <2>5
<1>2. Walk(l) = [i \in {j \in DOMAIN at : at[j] # 0} |-> at[i]]
  BY DEF Walk
<1>3. ASSUME NEW i \in D
      PROVE  w[i] = IF i = 1 THEN l.first ELSE IF w[i - 1] \in Nodes THEN l.next[w[i - 1]] ELSE 0
  <2>1. i \in Nat /\ i >= 1 /\ i <= N
    BY <1>1
  <2>2. w[i] = IF i <= Len(u) THEN u[i] ELSE 0
    OBVIOUS
  <2>3. i # 1 => i - 1 \in D /\ w[i - 1] = IF i - 1 <= Len(u) THEN u[i - 1] ELSE 0
    <3>1. i # 1 => i - 1 \in D
      BY <1>1, <2>1
    <3> QED
      BY <3>1
  <2> HIDE DEF w, D, N
  <2>4. CASE i = 1
    <3>1. l.first = IF Len(u) = 0 THEN 0 ELSE u[1]
      BY DEF Chain
    <3>2. 1 <= Len(u) <=> Len(u) # 0
      BY <1>1
    <3> QED
      BY <2>2, <2>4, <3>1, <3>2
  <2>5. CASE i # 1 /\ i - 1 <= Len(u)
    <3> DEFINE h == i - 1
    <3>1. h \in 1..Len(u) /\ i = h + 1
      BY <1>1, <2>1, <2>5
    <3>2. w[h] = u[h] /\ u[h] \in Nodes
      BY <1>1, <2>3, <2>5, <3>1
    <3>3. l.next[u[h]] = IF h = Len(u) THEN 0 ELSE u[h + 1]
      BY <3>1 DEF Chain
    <3>4. h = Len(u) <=> ~(i <= Len(u))
      BY <1>1, <2>1, <3>1
    <3> HIDE DEF h
    <3>5. h = i - 1
      BY DEF h
    <3> QED
      BY <2>2, <2>5, <3>1, <3>2, <3>3, <3>4, <3>5
  <2>6. CASE i # 1 /\ ~(i - 1 <= Len(u))
    <3>1. w[i - 1] = 0 /\ w[i] = 0
      BY <1>1, <2>1, <2>2, <2>3, <2>6
    <3>2. 0 \notin Nodes
      BY ListsAssumption
    <3> QED
      BY <2>6, <3>1, <3>2
  <2> QED
    BY <2>4, <2>5, <2>6
<1>4. w = body(w)
  <2>1. body(w) = [i \in D |-> IF i = 1 THEN l.first
                              ELSE IF w[i - 1] \in Nodes THEN l.next[w[i - 1]] ELSE 0]
    OBVIOUS
  <2>2. w = [i \in D |-> w[i]]
    OBVIOUS
  <2> HIDE DEF w, body
  <2> QED
    BY <1>3, <2>1, <2>2
<1>5. at = body(at)
  <2> HIDE DEF w, body
  <2> QED
    BY <1>4, Zenon
<1>6. at = w
  <2> DEFINE S == {0} \cup {i \in D : at[i] = w[i]}
  <2>1. \A n \in 0..N - 1 : n \in S => n + 1 \in S
    <3> SUFFICES ASSUME NEW n \in 0..N - 1, n \in S
                 PROVE  n + 1 \in S
      OBVIOUS
    <3> DEFINE i == n + 1
    <3>1. i \in D /\ i - 1 = n
      BY <1>1
    <3>2. at[i] = IF i = 1 THEN l.first ELSE IF at[i - 1] \in Nodes THEN l.next[at[i - 1]] ELSE 0
      <4>1. at[i] = body(at)[i]
        BY <1>5
      <4> HIDE DEF at, D, i
      <4>2. body(at)[i] = IF i = 1 THEN l.first ELSE IF at[i - 1] \in Nodes THEN l.next[at[i - 1]] ELSE 0
        BY <3>1
      <4> QED
        BY <4>1, <4>2
    <3>3. w[i] = IF i = 1 THEN l.first ELSE IF w[i - 1] \in Nodes THEN l.next[w[i - 1]] ELSE 0
      BY <1>3, <3>1
    <3>4. i # 1 => at[i - 1] = w[i - 1]
      <4>1. i # 1 => n # 0
        BY <3>1
      <4> HIDE DEF at, w, D, i
      <4> QED
        BY <3>1, <4>1
    <3> HIDE DEF at, w, D, i
    <3>5. at[i] = w[i]
      BY <3>2, <3>3, <3>4
    <3>6. n + 1 \in D /\ at[n + 1] = w[n + 1]
      BY <3>1, <3>5 DEF i
    <3> QED
      BY <3>6
  <2>2. 0 \in S
    OBVIOUS
  <2> HIDE DEF S
  <2>3. 0..N \subseteq S
    <3> HIDE DEF N
    <3> QED
      BY <1>1, <2>1, <2>2, IntervalInduction
  <2>4. \A i \in D : at[i] = w[i]
    <3>1. \A i \in D : i \in 0..N /\ i # 0
      BY <1>1
    <3> HIDE DEF D, at, w
    <3> QED
      BY <2>3, <3>1 DEF S
  <2>5. at = [i \in D |-> at[i]]
    <3>1. body(at) = [i \in D |-> body(at)[i]]
      OBVIOUS
    <3> HIDE DEF body, at, D
    <3> QED
      BY <1>5, <3>1
  <2>6. w = [i \in D |-> w[i]]
    OBVIOUS
  <2> HIDE DEF at, w, D
  <2> QED
    BY <2>4, <2>5, <2>6
<1>7. {j \in DOMAIN w : w[j] # 0} = 1..Len(u)
  <2>1. \A j \in D : w[j] # 0 <=> j <= Len(u)
    <3> SUFFICES ASSUME NEW j \in D PROVE w[j] # 0 <=> j <= Len(u)
      OBVIOUS
    <3>1. j \in Nat /\ j >= 1 /\ w[j] = IF j <= Len(u) THEN u[j] ELSE 0
      BY <1>1
    <3>2. j <= Len(u) => j \in 1..Len(u)
      BY <1>1, <3>1
    <3> HIDE DEF w, D
    <3> QED
      BY <1>1, <3>1, <3>2
  <2>2. DOMAIN w = D
    OBVIOUS
  <2>3. \A j : j \in D /\ j <= Len(u) <=> j \in 1..Len(u)
    BY <1>1
  <2> HIDE DEF w, D
  <2> QED
    BY <2>1, <2>2, <2>3
<1>8. \A i \in 1..Len(u) : w[i] = u[i]
  <2>1. \A i \in 1..Len(u) : i \in D /\ i <= Len(u)
    BY <1>1
  <2> HIDE DEF D
  <2> QED
    BY <2>1
<1>9. u = [i \in 1..Len(u) |-> u[i]]
  BY <1>1
<1> HIDE DEF at, w, D
<1> QED
  BY <1>2, <1>6, <1>7, <1>8, <1>9

\* The elements found by a key, and what is known of a list by its class: its end, the
\* pointers back behind the first element, and that of the first.
NoEnd       == {"Topics", "ForwarderList", "Forwarder"}
BackClasses == LinkedBack \cup {"List", "AggregateTopicElement"}

KeysOfNodes == UNION {[S -> Keys] : S \in SUBSET Nodes}

Memories ==
    [first : Int, last : Int, next : [Nodes -> Int], prev : [Nodes -> Int], cnt : Int,
     live : SUBSET Nodes, key : KeysOfNodes]

HasKeys(l, u, c) ==
    /\ \A i \in 1..Len(u) : u[i] \in l.live /\ u[i] \in DOMAIN l.key /\ l.key[u[i]] = c[i]
    /\ c \in Seq(Keys) /\ Len(c) = Len(u) /\ l.cnt = Len(u)

EndKnown(l, u)  == class \notin NoEnd /\ Len(u) # 0 => l.last = u[Len(u)]
BackKnown(l, u) == class \in BackClasses => \A i \in 2..Len(u) : l.prev[u[i]] = u[i - 1]
HeadKnown(l, u) == class \in LinkedBack /\ Len(u) # 0 => l.prev[u[1]] = 0

Agrees(l, u, c) ==
    /\ l \in Memories
    /\ Chain(l, u) /\ HasKeys(l, u, c) /\ EndKnown(l, u) /\ BackKnown(l, u) /\ HeadKnown(l, u)

LEMMA ChainElements ==
    ASSUME NEW l, NEW u, Chain(l, u)
    PROVE  /\ Len(u) \in Nat
           /\ \A i \in 1..Len(u) : u[i] \in Nodes /\ u[i] # 0
<1>1. u \in Seq(Nodes)
  BY DEF Chain
<1>2. 0 \notin Nodes
  BY ListsAssumption
<1> QED
  BY <1>1, <1>2

\* Nothing changes for the elements when pointers of others do.
LEMMA OthersAgree ==
    ASSUME NEW l, NEW u, NEW c, Agrees(l, u, c), NEW m \in Memories,
           m.first = l.first, m.last = l.last, m.cnt = l.cnt,
           \A i \in 1..Len(u) : /\ m.next[u[i]] = l.next[u[i]]
                                /\ class \in BackClasses => m.prev[u[i]] = l.prev[u[i]]
                                /\ u[i] \in m.live
                                /\ u[i] \in DOMAIN m.key /\ m.key[u[i]] = l.key[u[i]]
    PROVE  Agrees(m, u, c)
<1>1. Len(u) \in Nat
  BY ChainElements DEF Agrees
<1>2. Chain(m, u)
  BY DEF Agrees, Chain
<1>3. HasKeys(m, u, c)
  BY DEF Agrees, HasKeys
<1>4. EndKnown(m, u)
  BY DEF Agrees, EndKnown
<1>5. BackKnown(m, u)
  <2> SUFFICES ASSUME class \in BackClasses, NEW i \in 2..Len(u)
               PROVE  m.prev[u[i]] = u[i - 1]
    BY DEF BackKnown
  <2>1. i \in 1..Len(u)
    BY <1>1
  <2>2. l.prev[u[i]] = u[i - 1]
    BY DEF Agrees, BackKnown
  <2> QED
    BY <2>1, <2>2
<1>6. HeadKnown(m, u)
  <2> SUFFICES ASSUME class \in LinkedBack, Len(u) # 0
               PROVE  m.prev[u[1]] = 0
    BY DEF HeadKnown
  <2>1. 1 \in 1..Len(u)
    BY <1>1
  <2>2. l.prev[u[1]] = 0
    BY DEF Agrees, HeadKnown
  <2> QED
    BY <2>1, <2>2 DEF BackClasses
<1> QED
  BY <1>2, <1>3, <1>4, <1>5, <1>6 DEF Agrees

\* A new element, not in the list yet.
IsNew(l, u, n, k) ==
    /\ n \in l.live /\ n \in Nodes /\ \A i \in 1..Len(u) : u[i] # n
    /\ l.next[n] = 0 /\ l.prev[n] = 0
    /\ n \in DOMAIN l.key /\ l.key[n] = k

LEMMA AllocAgrees ==
    ASSUME NEW l, NEW u, NEW c, Agrees(l, u, c), NEW n \in Nodes, n \notin l.live, NEW k \in Keys
    PROVE  Agrees(Alloc(l, n, k), u, c) /\ IsNew(Alloc(l, n, k), u, n, k)
<1> DEFINE m == Alloc(l, n, k)
           K == DOMAIN l.key \cup {n}
           f == [j \in K |-> IF j = n THEN k ELSE l.key[j]]
<1>1. l \in Memories /\ Len(u) \in Nat /\ \A i \in 1..Len(u) : u[i] \in Nodes
  BY ChainElements DEF Agrees
<1>2. PICK S \in SUBSET Nodes : l.key \in [S -> Keys]
  BY <1>1 DEF Memories, KeysOfNodes
<1>3. K \in SUBSET Nodes /\ f \in [K -> Keys]
  BY <1>2
<1>4. f \in KeysOfNodes
  <2> HIDE DEF f, K
  <2> QED
    BY <1>3 DEF KeysOfNodes
<1> HIDE DEF f
<1> DEFINE x == [l.next EXCEPT ![n] = 0]
           y == [l.prev EXCEPT ![n] = 0]
<1>5. x \in [Nodes -> Int] /\ y \in [Nodes -> Int]
  BY <1>1 DEF Memories
<1>6. m = [l EXCEPT !.live = @ \cup {n}, !.next = x, !.prev = y, !.key = f]
  BY DEF Alloc, f
<1> HIDE DEF x, y, m
<1>7. m = [first |-> l.first, last |-> l.last, next |-> x, prev |-> y, cnt |-> l.cnt,
            live |-> l.live \cup {n}, key |-> f]
  BY <1>1, <1>6 DEF Memories
<1>8. /\ m.first = l.first /\ m.last = l.last /\ m.cnt = l.cnt /\ m.live = l.live \cup {n}
      /\ m.next = x /\ m.prev = y /\ m.key = f
  BY <1>7
<1>9. m \in Memories
  <2>1. l.live \cup {n} \in SUBSET Nodes
    BY <1>1 DEF Memories
  <2>2. l.first \in Int /\ l.last \in Int /\ l.cnt \in Int
    BY <1>1 DEF Memories
  <2> QED
    BY <1>4, <1>5, <1>7, <2>1, <2>2 DEF Memories
<1>10. \A i \in 1..Len(u) : u[i] # n /\ u[i] \in l.live /\ u[i] \in DOMAIN l.key
  BY DEF Agrees, HasKeys
<1>11. \A i \in 1..Len(u) : /\ m.next[u[i]] = l.next[u[i]] /\ m.prev[u[i]] = l.prev[u[i]]
                           /\ u[i] \in m.live /\ u[i] \in DOMAIN m.key
                           /\ m.key[u[i]] = l.key[u[i]]
  <2> SUFFICES ASSUME NEW i \in 1..Len(u)
               PROVE  /\ m.next[u[i]] = l.next[u[i]] /\ m.prev[u[i]] = l.prev[u[i]]
                      /\ u[i] \in m.live /\ u[i] \in DOMAIN m.key
                      /\ m.key[u[i]] = l.key[u[i]]
    OBVIOUS
  <2>1. u[i] \in K /\ u[i] # n
    BY <1>10
  <2>2. f[u[i]] = l.key[u[i]] /\ u[i] \in DOMAIN f
    BY <2>1 DEF f
  <2>3. m.next[u[i]] = l.next[u[i]] /\ m.prev[u[i]] = l.prev[u[i]]
    BY <1>1, <1>8, <2>1 DEF Memories, x, y
  <2> QED
    BY <1>8, <1>10, <2>2, <2>3
<1>12. Agrees(m, u, c)
  BY <1>8, <1>9, <1>11, OthersAgree
<1>13. IsNew(m, u, n, k)
  <2>1. m.next[n] = 0 /\ m.prev[n] = 0
    BY <1>1, <1>8 DEF Memories, x, y
  <2>2. n \in DOMAIN f /\ f[n] = k
    BY DEF f
  <2> QED
    BY <1>8, <1>10, <2>1, <2>2 DEF IsNew
<1> QED
  BY <1>12, <1>13 DEF m

\* A new element is put behind the last one: what the ways to do it have in common.
AppendsTo(l, m, u, n) ==
    /\ m \in Memories
    /\ m.first = IF Len(u) = 0 THEN n ELSE l.first
    /\ \A i \in 1..Len(u) : m.next[u[i]] = IF i = Len(u) THEN n ELSE l.next[u[i]]
    /\ m.next[n] = 0
    /\ m.cnt = l.cnt + 1 /\ m.live = l.live /\ m.key = l.key
    /\ class \notin NoEnd => m.last = n
    /\ class \in BackClasses =>
          /\ \A i \in 1..Len(u) : m.prev[u[i]] = l.prev[u[i]]
          /\ m.prev[n] = IF Len(u) = 0 THEN 0 ELSE u[Len(u)]

LEMMA AppendedAgrees ==
    ASSUME NEW l, NEW u, NEW c, Agrees(l, u, c), NEW n, NEW k \in Keys, IsNew(l, u, n, k),
           NEW m, AppendsTo(l, m, u, n)
    PROVE  Agrees(m, Append(u, n), Append(c, k))
<1> DEFINE v == Append(u, n)
           d == Append(c, k)
<1>1. /\ u \in Seq(Nodes) /\ Len(u) \in Nat /\ n \in Nodes
      /\ c \in Seq(Keys) /\ Len(c) = Len(u) /\ l.cnt = Len(u)
  BY DEF Agrees, Chain, HasKeys, IsNew
<1>2. /\ v \in Seq(Nodes) /\ Len(v) = Len(u) + 1 /\ v[Len(u) + 1] = n
      /\ \A i \in 1..Len(u) : v[i] = u[i]
  BY <1>1, AppendProperties
<1>3. /\ d \in Seq(Keys) /\ Len(d) = Len(u) + 1 /\ d[Len(u) + 1] = k
      /\ \A i \in 1..Len(u) : d[i] = c[i]
  BY <1>1, AppendProperties
<1> HIDE DEF v, d
<1>4. \A i \in 1..Len(v) : i \in 1..Len(u) \/ i = Len(u) + 1
  BY <1>1, <1>2
<1>5. Chain(m, v)
  <2>1. ASSUME NEW i \in 1..Len(v), NEW j \in 1..Len(v), v[i] = v[j]
        PROVE  i = j
    BY <1>2, <1>4, <2>1 DEF Agrees, Chain, IsNew
  <2>2. m.first = IF Len(v) = 0 THEN 0 ELSE v[1]
    <3>1. CASE Len(u) = 0
      BY <1>1, <1>2, <3>1 DEF AppendsTo
    <3>2. CASE Len(u) # 0
      <4>1. 1 \in 1..Len(u)
        BY <1>1, <3>2
      <4> QED
        BY <1>1, <1>2, <3>2, <4>1 DEF AppendsTo, Agrees, Chain
    <3> QED
      BY <3>1, <3>2
  <2>3. ASSUME NEW i \in 1..Len(v)
        PROVE  m.next[v[i]] = IF i = Len(v) THEN 0 ELSE v[i + 1]
    <3>1. CASE i \in 1..Len(u)
      <4>1. i # Len(v) /\ v[i] = u[i] /\ m.next[u[i]] = IF i = Len(u) THEN n ELSE l.next[u[i]]
        BY <1>1, <1>2, <3>1 DEF AppendsTo
      <4>2. i # Len(u) => i + 1 \in 1..Len(u) /\ l.next[u[i]] = u[i + 1]
        <5>1. i # Len(u) => i + 1 \in 1..Len(u)
          BY <1>1, <3>1
        <5> QED
          BY <3>1, <5>1 DEF Agrees, Chain
      <4> QED
        BY <1>2, <3>1, <4>1, <4>2
    <3>2. CASE i = Len(u) + 1
      BY <1>2, <3>2 DEF AppendsTo
    <3> QED
      BY <1>4, <3>1, <3>2
  <2> QED
    BY <1>2, <2>1, <2>2, <2>3 DEF Chain
<1>6. HasKeys(m, v, d)
  <2>1. m.cnt = Len(v)
    BY <1>1, <1>2 DEF AppendsTo
  <2>2. ASSUME NEW i \in 1..Len(v)
        PROVE  v[i] \in m.live /\ v[i] \in DOMAIN m.key /\ m.key[v[i]] = d[i]
    <3>1. CASE i \in 1..Len(u)
      <4>1. u[i] \in l.live /\ u[i] \in DOMAIN l.key /\ l.key[u[i]] = c[i]
        BY <3>1 DEF Agrees, HasKeys
      <4> QED
        BY <1>2, <1>3, <3>1, <4>1 DEF AppendsTo
    <3>2. CASE i = Len(u) + 1
      BY <1>2, <1>3, <3>2 DEF AppendsTo, IsNew
    <3> QED
      BY <1>4, <3>1, <3>2
  <2> QED
    BY <1>2, <1>3, <2>1, <2>2 DEF HasKeys
<1>7. EndKnown(m, v)
  BY <1>2 DEF EndKnown, AppendsTo
<1>8. BackKnown(m, v)
  <2> SUFFICES ASSUME class \in BackClasses, NEW i \in 2..Len(v)
               PROVE  m.prev[v[i]] = v[i - 1]
    BY DEF BackKnown
  <2>0. /\ \A j \in 1..Len(u) : m.prev[u[j]] = l.prev[u[j]]
        /\ m.prev[n] = IF Len(u) = 0 THEN 0 ELSE u[Len(u)]
    BY DEF AppendsTo
  <2>1. CASE i \in 2..Len(u)
    <3>1. l.prev[u[i]] = u[i - 1]
      BY <2>1 DEF Agrees, BackKnown
    <3>2. i \in 1..Len(u) /\ i - 1 \in 1..Len(u)
      BY <1>1, <2>1
    <3>3. v[i] = u[i] /\ v[i - 1] = u[i - 1]
      BY <1>2, <3>2
    <3> QED
      BY <2>0, <3>1, <3>2, <3>3
  <2>2. CASE i = Len(u) + 1
    <3>1. Len(u) # 0 /\ Len(u) \in 1..Len(u) /\ i - 1 = Len(u)
      BY <1>1, <2>2
    <3>2. v[i] = n /\ v[i - 1] = u[Len(u)]
      BY <1>2, <2>2, <3>1
    <3> QED
      BY <2>0, <3>1, <3>2
  <2>3. i \in 2..Len(u) \/ i = Len(u) + 1
    BY <1>1, <1>2
  <2> QED
    BY <2>1, <2>2, <2>3
<1>9. HeadKnown(m, v)
  <2> SUFFICES ASSUME class \in LinkedBack
               PROVE  m.prev[v[1]] = 0
    BY DEF HeadKnown
  <2>1. class \in BackClasses
    BY DEF BackClasses
  <2>2. CASE Len(u) = 0
    BY <1>1, <1>2, <2>1, <2>2 DEF AppendsTo
  <2>3. CASE Len(u) # 0
    <3>1. 1 \in 1..Len(u)
      BY <1>1, <2>3
    <3>2. l.prev[u[1]] = 0
      BY <2>3 DEF Agrees, HeadKnown
    <3> QED
      BY <1>2, <2>1, <3>1, <3>2 DEF AppendsTo
  <2> QED
    BY <2>2, <2>3
<1> QED
  BY <1>5, <1>6, <1>7, <1>8, <1>9 DEF Agrees, AppendsTo, v, d


\* The memory of a list by its fields.
Memory(a, b, x, y, z, L, k) ==
    [first |-> a, last |-> b, next |-> x, prev |-> y, cnt |-> z, live |-> L, key |-> k]

LEMMA MemoryFields ==
    ASSUME NEW l \in Memories
    PROVE  /\ l.first \in Int /\ l.last \in Int /\ l.cnt \in Int
           /\ l.next \in [Nodes -> Int] /\ l.prev \in [Nodes -> Int]
           /\ l.live \in SUBSET Nodes /\ l.key \in KeysOfNodes
BY DEF Memories

LEMMA NodesAreInts == Nodes \subseteq Int /\ 0 \notin Nodes
BY ListsAssumption

LEMMA LinkedAppends ==
    ASSUME NEW l, NEW u, NEW c, Agrees(l, u, c), NEW n, NEW k, IsNew(l, u, n, k), class \notin NoEnd
    PROVE  AppendsTo(l, Linked(l, n), u, n)
<1> DEFINE m == Linked(l, n)
<1>1. /\ l \in Memories /\ Len(u) \in Nat /\ n \in Int /\ n \in Nodes
      /\ \A i \in 1..Len(u) : u[i] \in Nodes /\ u[i] # 0 /\ u[i] # n
      /\ l.next[n] = 0 /\ l.prev[n] = 0
  BY ChainElements, NodesAreInts DEF Agrees, IsNew
<1>2. l.cnt + 1 \in Int
  BY <1>1, MemoryFields
<1>3. CASE Len(u) = 0
  <2>1. l.first = 0
    BY <1>3 DEF Agrees, Chain
  <2>2. m = [l EXCEPT !.first = n, !.last = n, !.cnt = @ + 1]
    BY <2>1 DEF Linked
  <2> HIDE DEF m
  <2>3. m = Memory(n, n, l.next, l.prev, l.cnt + 1, l.live, l.key)
    BY <1>1, <2>2 DEF Memories, Memory
  <2>4. /\ m \in Memories
        /\ m.first = n /\ m.last = n /\ m.next = l.next /\ m.prev = l.prev /\ m.cnt = l.cnt + 1
        /\ m.live = l.live /\ m.key = l.key
    <3>1. l.first \in Int /\ l.last \in Int /\ l.cnt \in Int /\ l.next \in [Nodes -> Int]
          /\ l.prev \in [Nodes -> Int] /\ l.live \in SUBSET Nodes /\ l.key \in KeysOfNodes
      BY <1>1, MemoryFields
    <3> QED
      BY <1>1, <1>2, <2>3, <3>1 DEF Memories, Memory
  <2>5. AppendsTo(l, m, u, n)
    BY <1>1, <1>3, <2>4 DEF AppendsTo
  <2> QED
    BY <2>5 DEF m
<1>4. CASE Len(u) # 0
  <2> DEFINE e == u[Len(u)]
             x == [l.next EXCEPT ![e] = n]
             y == [l.prev EXCEPT ![n] = e]
  <2>1. /\ Len(u) \in 1..Len(u) /\ 1 \in 1..Len(u) /\ e \in Nodes /\ e \in Int /\ e # n
        /\ l.first # 0 /\ l.first = u[1] /\ l.last = e
    <3>1. Len(u) \in 1..Len(u) /\ 1 \in 1..Len(u)
      BY <1>1, <1>4
    <3>2. e \in Nodes /\ e # n
      BY <1>1, <3>1
    <3>3. l.first = u[1] /\ u[1] # 0
      BY <1>1, <1>4, <3>1 DEF Agrees, Chain
    <3>4. l.last = e
      BY <1>4 DEF Agrees, EndKnown
    <3>5. e \in Int
      BY <3>2, NodesAreInts
    <3> QED
      BY <3>1, <3>2, <3>3, <3>4, <3>5
  <2>2. m = [l EXCEPT !.prev = y, !.next = x, !.last = n, !.cnt = l.cnt + 1]
    BY <1>1, <2>1 DEF Linked, Memories
  <2>3. x \in [Nodes -> Int] /\ y \in [Nodes -> Int]
    BY <1>1, <2>1, MemoryFields
  <2>4. \A i \in 1..Len(u) : /\ x[u[i]] = IF i = Len(u) THEN n ELSE l.next[u[i]]
                             /\ y[u[i]] = l.prev[u[i]]
    <3> SUFFICES ASSUME NEW i \in 1..Len(u)
                 PROVE  /\ x[u[i]] = IF i = Len(u) THEN n ELSE l.next[u[i]]
                        /\ y[u[i]] = l.prev[u[i]]
      OBVIOUS
    <3>1. u[i] = e <=> i = Len(u)
      BY <2>1 DEF Agrees, Chain
    <3>2. u[i] \in Nodes /\ u[i] # n
      BY <1>1
    <3>3. DOMAIN l.next = Nodes /\ DOMAIN l.prev = Nodes
      BY <1>1, MemoryFields
    <3> HIDE DEF e
    <3> QED
      BY <3>1, <3>2, <3>3
  <2>5. x[n] = 0 /\ y[n] = e
    <3>1. DOMAIN l.next = Nodes /\ DOMAIN l.prev = Nodes
      BY <1>1, MemoryFields
    <3> HIDE DEF e
    <3> QED
      BY <1>1, <2>1, <3>1
  <2> HIDE DEF m, x, y
  <2>6. m = Memory(l.first, n, x, y, l.cnt + 1, l.live, l.key)
    BY <1>1, <2>2 DEF Memories, Memory
  <2>7. /\ m \in Memories
        /\ m.first = l.first /\ m.last = n /\ m.next = x /\ m.prev = y /\ m.cnt = l.cnt + 1
        /\ m.live = l.live /\ m.key = l.key
    <3>1. l.first \in Int /\ l.last \in Int /\ l.cnt \in Int /\ l.next \in [Nodes -> Int]
          /\ l.prev \in [Nodes -> Int] /\ l.live \in SUBSET Nodes /\ l.key \in KeysOfNodes
      BY <1>1, MemoryFields
    <3> QED
      BY <1>1, <1>2, <2>3, <2>6, <3>1 DEF Memories, Memory
  <2>8. AppendsTo(l, m, u, n)
    BY <1>4, <2>4, <2>5, <2>7 DEF AppendsTo
  <2> QED
    BY <2>8 DEF m
<1> QED
  BY <1>3, <1>4

LEMMA LinkedAtEndAppends ==
    ASSUME NEW l, NEW u, NEW c, Agrees(l, u, c), NEW n, NEW k, IsNew(l, u, n, k), class \in NoEnd
    PROVE  AppendsTo(l, LinkedAtEnd(l, n), u, n)
<1> DEFINE m == LinkedAtEnd(l, n)
<1>1. /\ l \in Memories /\ Len(u) \in Nat /\ n \in Int /\ n \in Nodes
      /\ \A i \in 1..Len(u) : u[i] \in Nodes /\ u[i] # 0 /\ u[i] # n
      /\ l.next[n] = 0
  BY ChainElements, NodesAreInts DEF Agrees, IsNew
<1>2. l.cnt + 1 \in Int
  BY <1>1, MemoryFields
<1>3. class \notin BackClasses
  BY DEF NoEnd, BackClasses, LinkedBack
<1>4. CASE Len(u) = 0
  <2>1. l.first = 0
    BY <1>4 DEF Agrees, Chain
  <2>2. m = [l EXCEPT !.first = n, !.cnt = @ + 1]
    BY <2>1 DEF LinkedAtEnd
  <2> HIDE DEF m
  <2>3. m = Memory(n, l.last, l.next, l.prev, l.cnt + 1, l.live, l.key)
    BY <1>1, <2>2 DEF Memories, Memory
  <2>4. /\ m \in Memories
        /\ m.first = n /\ m.next = l.next /\ m.cnt = l.cnt + 1
        /\ m.live = l.live /\ m.key = l.key
    <3>1. l.first \in Int /\ l.last \in Int /\ l.cnt \in Int /\ l.next \in [Nodes -> Int]
          /\ l.prev \in [Nodes -> Int] /\ l.live \in SUBSET Nodes /\ l.key \in KeysOfNodes
      BY <1>1, MemoryFields
    <3> QED
      BY <1>1, <1>2, <2>3, <3>1 DEF Memories, Memory
  <2>5. AppendsTo(l, m, u, n)
    BY <1>1, <1>3, <1>4, <2>4 DEF AppendsTo
  <2> QED
    BY <2>5 DEF m
<1>5. CASE Len(u) # 0
  <2> DEFINE e == u[Len(u)]
             x == [l.next EXCEPT ![e] = n]
  <2>1. /\ Len(u) \in 1..Len(u) /\ e \in Nodes /\ e # n /\ l.first # 0 /\ l.first = u[1]
    <3>1. Len(u) \in 1..Len(u) /\ 1 \in 1..Len(u)
      BY <1>1, <1>5
    <3>2. e \in Nodes /\ e # n
      BY <1>1, <3>1
    <3>3. l.first = u[1] /\ u[1] # 0
      BY <1>1, <1>5, <3>1 DEF Agrees, Chain
    <3> QED
      BY <3>1, <3>2, <3>3
  <2>2. Last(Walk(l)) = e
    <3>1. Walk(l) = u
      BY WalkIs DEF Agrees
    <3> QED
      BY <3>1 DEF Last
  <2>3. m = [l EXCEPT !.next = x, !.cnt = l.cnt + 1]
    BY <1>1, <2>1, <2>2 DEF LinkedAtEnd, Memories
  <2>4. x \in [Nodes -> Int] /\ DOMAIN l.next = Nodes
    BY <1>1, <2>1, MemoryFields
  <2>5. \A i \in 1..Len(u) : x[u[i]] = IF i = Len(u) THEN n ELSE l.next[u[i]]
    <3> SUFFICES ASSUME NEW i \in 1..Len(u)
                 PROVE  x[u[i]] = IF i = Len(u) THEN n ELSE l.next[u[i]]
      OBVIOUS
    <3>1. u[i] = e <=> i = Len(u)
      BY <2>1 DEF Agrees, Chain
    <3>2. u[i] \in Nodes
      BY <1>1
    <3> HIDE DEF e
    <3> QED
      BY <2>4, <3>1, <3>2
  <2>6. x[n] = 0
    <3> HIDE DEF e
    <3> QED
      BY <1>1, <2>1, <2>4
  <2> HIDE DEF m, x
  <2>7. m = Memory(l.first, l.last, x, l.prev, l.cnt + 1, l.live, l.key)
    BY <1>1, <2>3 DEF Memories, Memory
  <2>8. /\ m \in Memories
        /\ m.first = l.first /\ m.next = x /\ m.cnt = l.cnt + 1
        /\ m.live = l.live /\ m.key = l.key
    <3>1. l.first \in Int /\ l.last \in Int /\ l.cnt \in Int /\ l.next \in [Nodes -> Int]
          /\ l.prev \in [Nodes -> Int] /\ l.live \in SUBSET Nodes /\ l.key \in KeysOfNodes
      BY <1>1, MemoryFields
    <3> QED
      BY <1>1, <1>2, <2>4, <2>7, <3>1 DEF Memories, Memory
  <2>9. AppendsTo(l, m, u, n)
    BY <1>3, <1>5, <2>5, <2>6, <2>8 DEF AppendsTo
  <2> QED
    BY <2>9 DEF m
<1> QED
  BY <1>4, <1>5

\* LTopicTable resets the pointer back, which it never follows.
LEMMA PointerBackReset ==
    ASSUME NEW l, NEW u, NEW c, Agrees(l, u, c), NEW n \in Nodes, class \notin BackClasses
    PROVE  Agrees([l EXCEPT !.prev[n] = 0], u, c)
<1> DEFINE y == [l.prev EXCEPT ![n] = 0]
           m == [l EXCEPT !.prev = y]
<1>1. l \in Memories
  BY DEF Agrees
<1>2. y \in [Nodes -> Int]
  BY <1>1, MemoryFields
<1>3. [l EXCEPT !.prev[n] = 0] = m
  BY <1>1 DEF Memories
<1>4. m = [l EXCEPT !.prev = y]
  OBVIOUS
<1> HIDE DEF m, y
<1>5. m = Memory(l.first, l.last, l.next, y, l.cnt, l.live, l.key)
  BY <1>1, <1>4 DEF Memories, Memory
<1>6. /\ m \in Memories /\ m.first = l.first /\ m.last = l.last /\ m.next = l.next
      /\ m.cnt = l.cnt /\ m.live = l.live /\ m.key = l.key
  <2>1. l.first \in Int /\ l.last \in Int /\ l.cnt \in Int /\ l.next \in [Nodes -> Int]
        /\ l.prev \in [Nodes -> Int] /\ l.live \in SUBSET Nodes /\ l.key \in KeysOfNodes
    BY <1>1, MemoryFields
  <2> QED
    BY <1>1, <1>2, <1>5, <2>1 DEF Memories, Memory
<1>7. \A i \in 1..Len(u) : u[i] \in l.live /\ u[i] \in DOMAIN l.key
  BY DEF Agrees, HasKeys
<1>8. Agrees(m, u, c)
  BY <1>6, <1>7, OthersAgree
<1> QED
  BY <1>3, <1>8

----------------------------------------------------------------------------
(* Taking an element out. *)

LEMMA WithoutElement ==
    ASSUME NEW S, NEW s \in Seq(S), NEW i \in 1..Len(s)
    PROVE  /\ RemoveAt(s, i) \in Seq(S) /\ Len(RemoveAt(s, i)) = Len(s) - 1
           /\ \A j \in 1..Len(s) - 1 : RemoveAt(s, i)[j] = IF j < i THEN s[j] ELSE s[j + 1]
<1> DEFINE before == SubSeq(s, 1, i - 1)
           after  == SubSeq(s, i + 1, Len(s))
<1>1. Len(s) \in Nat /\ i \in Nat /\ i >= 1 /\ i <= Len(s)
  OBVIOUS
<1>2. /\ before \in Seq(S) /\ Len(before) = i - 1
      /\ \A j \in 1..i - 1 : before[j] = s[j]
  BY <1>1, SubSeqProperties
<1>3. after \in Seq(S) /\ Len(after) = Len(s) - i
  BY <1>1, SubSeqProperties
<1>4. \A j \in 1..Len(s) - i : after[j] = s[j + i]
  BY <1>1, SubSeqProperties
<1>5. RemoveAt(s, i) = before \o after
  BY DEF RemoveAt
<1> HIDE DEF before, after
<1>6. /\ before \o after \in Seq(S) /\ Len(before \o after) = Len(s) - 1
  BY <1>1, <1>2, <1>3
<1>7. \A j \in 1..Len(s) - 1 : (before \o after)[j] = IF j < i THEN s[j] ELSE s[j + 1]
  <2> SUFFICES ASSUME NEW j \in 1..Len(s) - 1
               PROVE  (before \o after)[j] = IF j < i THEN s[j] ELSE s[j + 1]
    OBVIOUS
  <2>1. CASE j < i
    BY <1>1, <1>2, <1>3, <2>1
  <2>2. CASE j >= i
    <3>1. j - (i - 1) \in 1..Len(s) - i /\ (before \o after)[j] = after[j - (i - 1)]
      BY <1>1, <1>2, <1>3, <2>2
    <3>2. after[j - (i - 1)] = s[j - (i - 1) + i]
      BY <1>4, <3>1
    <3>3. j - (i - 1) + i = j + 1
      BY <1>1
    <3> QED
      BY <2>2, <3>1, <3>2, <3>3
  <2>3. j < i \/ j >= i
    BY <1>1
  <2> QED
    BY <2>1, <2>2, <2>3
<1> QED
  BY <1>5, <1>6, <1>7

\* The element at place i is unlinked: what the ways to do it have in common.
Unlinks(l, m, u, i) ==
    /\ m \in Memories
    /\ m.first = IF i = 1 THEN l.next[u[1]] ELSE l.first
    /\ \A j \in 1..Len(u) : j # i =>
          m.next[u[j]] = IF j = i - 1 THEN l.next[u[i]] ELSE l.next[u[j]]
    /\ m.cnt = l.cnt - 1 /\ m.live = l.live /\ m.key = l.key
    /\ class \notin NoEnd /\ Len(u) # 1 => m.last = IF i = Len(u) THEN u[i - 1] ELSE l.last
    /\ class \in BackClasses => \A j \in 1..Len(u) :
          /\ j # i /\ j # i + 1 => m.prev[u[j]] = l.prev[u[j]]
          /\ j = i + 1 /\ i # 1 => m.prev[u[j]] = u[i - 1]
          /\ j = i + 1 /\ i = 1 /\ class \in LinkedBack => m.prev[u[j]] = 0

LEMMA FreedFields ==
    ASSUME NEW m \in Memories, NEW n \in Nodes
    PROVE  LET f == Free(m, n)
           IN  /\ f \in Memories /\ f.first = m.first /\ f.last = m.last /\ f.cnt = m.cnt
               /\ f.key = m.key /\ f.live = m.live \ {n}
               /\ \A j \in Nodes : j # n => f.next[j] = m.next[j] /\ f.prev[j] = m.prev[j]
<1> DEFINE f == Free(m, n)
           x == [m.next EXCEPT ![n] = Freed]
           y == [m.prev EXCEPT ![n] = Freed]
           L == m.live \ {n}
<1>1. /\ m.first \in Int /\ m.last \in Int /\ m.cnt \in Int /\ m.next \in [Nodes -> Int]
      /\ m.prev \in [Nodes -> Int] /\ m.live \in SUBSET Nodes /\ m.key \in KeysOfNodes
  BY MemoryFields
<1>2. x \in [Nodes -> Int] /\ y \in [Nodes -> Int] /\ L \in SUBSET Nodes
  BY <1>1 DEF Freed
<1>3. f = [m EXCEPT !.live = L, !.next = x, !.prev = y]
  BY DEF Free, Memories
<1>4. \A j \in Nodes : j # n => x[j] = m.next[j] /\ y[j] = m.prev[j]
  BY <1>1
<1> HIDE DEF f, x, y, L
<1>5. f = Memory(m.first, m.last, x, y, m.cnt, L, m.key)
  BY <1>3 DEF Memories, Memory
<1>6. /\ f.first = m.first /\ f.last = m.last /\ f.cnt = m.cnt
      /\ f.key = m.key /\ f.live = L /\ f.next = x /\ f.prev = y
  BY <1>5 DEF Memory
<1>7. f \in Memories
  BY <1>1, <1>2, <1>5 DEF Memory, Memories
<1> QED
  BY <1>4, <1>6, <1>7 DEF f, L

LEMMA UnlinkedAgrees ==
    ASSUME NEW l, NEW u, NEW c, Agrees(l, u, c), NEW i \in 1..Len(u), NEW m, Unlinks(l, m, u, i)
    PROVE  Agrees(Free(m, u[i]), RemoveAt(u, i), RemoveAt(c, i))
<1> DEFINE v == RemoveAt(u, i)
           d == RemoveAt(c, i)
           f == Free(m, u[i])
           At(j) == IF j < i THEN j ELSE j + 1
<1>1. /\ u \in Seq(Nodes) /\ Len(u) \in Nat
      /\ \A j, k \in 1..Len(u) : u[j] = u[k] => j = k
      /\ l.first = IF Len(u) = 0 THEN 0 ELSE u[1]
      /\ \A j \in 1..Len(u) : l.next[u[j]] = IF j = Len(u) THEN 0 ELSE u[j + 1]
  BY DEF Agrees, Chain
<1>2. c \in Seq(Keys) /\ Len(c) = Len(u) /\ l.cnt = Len(u)
  BY DEF Agrees, HasKeys
<1>3. i \in Nat /\ i >= 1 /\ i <= Len(u)
  BY <1>1
<1>4. /\ v \in Seq(Nodes) /\ Len(v) = Len(u) - 1
      /\ \A j \in 1..Len(u) - 1 : v[j] = IF j < i THEN u[j] ELSE u[j + 1]
  BY <1>1, WithoutElement
<1>5. /\ d \in Seq(Keys) /\ Len(d) = Len(u) - 1
      /\ \A j \in 1..Len(u) - 1 : d[j] = IF j < i THEN c[j] ELSE c[j + 1]
  <2>1. i \in 1..Len(c)
    BY <1>2
  <2> QED
    BY <1>2, <2>1, WithoutElement
<1>6. /\ m \in Memories /\ u[i] \in Nodes
      /\ f \in Memories /\ f.first = m.first /\ f.last = m.last /\ f.cnt = m.cnt
      /\ f.key = m.key /\ f.live = m.live \ {u[i]}
      /\ \A j \in Nodes : j # u[i] => f.next[j] = m.next[j] /\ f.prev[j] = m.prev[j]
  <2>1. m \in Memories /\ u[i] \in Nodes
    BY <1>1 DEF Unlinks
  <2> QED
    BY <2>1, FreedFields
<1> HIDE DEF v, d, f
<1>7. \A j \in 1..Len(v) : /\ At(j) \in 1..Len(u) /\ At(j) # i /\ v[j] = u[At(j)] /\ d[j] = c[At(j)]
                           /\ u[At(j)] \in Nodes /\ u[At(j)] # u[i]
  <2> SUFFICES ASSUME NEW j \in 1..Len(v)
               PROVE  /\ At(j) \in 1..Len(u) /\ At(j) # i /\ v[j] = u[At(j)] /\ d[j] = c[At(j)]
                      /\ u[At(j)] \in Nodes /\ u[At(j)] # u[i]
    OBVIOUS
  <2>1. At(j) \in 1..Len(u) /\ At(j) # i
    BY <1>1, <1>3, <1>4
  <2>2. v[j] = u[At(j)] /\ d[j] = c[At(j)]
    BY <1>4, <1>5
  <2> HIDE DEF At
  <2> QED
    BY <1>1, <2>1, <2>2
<1>8. Chain(f, v)
  <2>1. ASSUME NEW j \in 1..Len(v), NEW k \in 1..Len(v), v[j] = v[k]
        PROVE  j = k
    <3>1. At(j) = At(k)
      <4> HIDE DEF At
      <4> QED
        BY <1>1, <1>7, <2>1
    <3>2. j \in Int /\ k \in Int
      OBVIOUS
    <3> QED
      BY <1>3, <3>1, <3>2
  <2>2. f.first = IF Len(v) = 0 THEN 0 ELSE v[1]
    <3>1. CASE i = 1
      <4>1. f.first = IF Len(u) = 1 THEN 0 ELSE u[2]
        <5>1. f.first = l.next[u[1]] /\ 1 \in 1..Len(u)
          BY <1>6, <3>1 DEF Unlinks
        <5>2. l.next[u[1]] = IF 1 = Len(u) THEN 0 ELSE u[1 + 1]
          BY <1>1, <5>1
        <5> QED
          BY <5>1, <5>2
      <4>2. Len(u) # 1 => v[1] = u[2]
        BY <1>1, <1>3, <1>4, <3>1
      <4>3. Len(v) = 0 <=> Len(u) = 1
        BY <1>1, <1>4
      <4> QED
        BY <4>1, <4>2, <4>3
    <3>2. CASE i # 1
      <4>1. f.first = u[1]
        BY <1>1, <1>3, <1>6, <3>2 DEF Unlinks
      <4>2. v[1] = u[1] /\ Len(v) # 0
        BY <1>1, <1>3, <1>4, <3>2
      <4> QED
        BY <4>1, <4>2
    <3> QED
      BY <3>1, <3>2
  <2>3. ASSUME NEW j \in 1..Len(v)
        PROVE  f.next[v[j]] = IF j = Len(v) THEN 0 ELSE v[j + 1]
    <3>1. f.next[v[j]] = IF At(j) = i - 1 THEN l.next[u[i]] ELSE l.next[u[At(j)]]
      <4>1. f.next[v[j]] = m.next[u[At(j)]]
        <5> HIDE DEF At
        <5> QED
          BY <1>6, <1>7
      <4>2. m.next[u[At(j)]] = IF At(j) = i - 1 THEN l.next[u[i]] ELSE l.next[u[At(j)]]
        <5> HIDE DEF At
        <5> QED
          BY <1>7 DEF Unlinks
      <4> QED
        BY <4>1, <4>2
    <3>2. j \in Nat /\ j >= 1 /\ j <= Len(u) - 1
      BY <1>1, <1>4
    <3>3. j + 1 <= Len(u) - 1 => v[j + 1] = IF j + 1 < i THEN u[j + 1] ELSE u[j + 2]
      <4> DEFINE k == j + 1
      <4>1. k <= Len(u) - 1 => k \in 1..Len(u) - 1 /\ k + 1 = j + 2
        BY <1>1, <3>2
      <4> HIDE DEF k
      <4>2. k <= Len(u) - 1 => v[k] = IF k < i THEN u[k] ELSE u[k + 1]
        BY <1>4, <4>1
      <4> QED
        BY <4>1, <4>2 DEF k
    <3>4. j = Len(v) <=> ~(j + 1 <= Len(u) - 1)
      BY <1>1, <1>4, <3>2
    <3>5. CASE j = i - 1
      <4>1. At(j) = i - 1 /\ j + 1 = i /\ j + 2 = i + 1 /\ ~(j + 1 < i)
        BY <1>3, <3>2, <3>5
      <4>2. l.next[u[i]] = IF i = Len(u) THEN 0 ELSE u[i + 1]
        BY <1>1
      <4>3. i = Len(u) <=> j = Len(v)
        BY <1>1, <1>3, <1>4, <3>2, <3>5
      <4> HIDE DEF At
      <4> QED
        BY <3>1, <3>3, <3>4, <4>1, <4>2, <4>3
    <3>6. CASE j < i - 1
      <4>1. At(j) = j /\ j # i - 1 /\ j + 1 < i /\ j # Len(u) /\ j \in 1..Len(u) /\ j # Len(v)
        BY <1>1, <1>3, <1>4, <3>2, <3>6
      <4>2. l.next[u[j]] = u[j + 1]
        BY <1>1, <4>1
      <4> HIDE DEF At
      <4> QED
        BY <3>1, <3>3, <3>4, <4>1, <4>2
    <3>7. CASE j > i - 1
      <4> DEFINE k == j + 1
      <4>1. /\ At(j) = k /\ k # i - 1 /\ ~(j + 1 < i) /\ k \in 1..Len(u) /\ k + 1 = j + 2
            /\ k = Len(u) <=> j = Len(v)
        BY <1>1, <1>3, <1>4, <3>2, <3>7
      <4> HIDE DEF At, k
      <4>2. l.next[u[k]] = IF k = Len(u) THEN 0 ELSE u[k + 1]
        BY <1>1, <4>1
      <4> QED
        BY <3>1, <3>3, <3>4, <4>1, <4>2
    <3>8. j = i - 1 \/ j < i - 1 \/ j > i - 1
      BY <1>3, <3>2
    <3> QED
      BY <3>5, <3>6, <3>7, <3>8
  <2> QED
    BY <1>4, <2>1, <2>2, <2>3 DEF Chain
<1>9. HasKeys(f, v, d)
  <2>1. ASSUME NEW j \in 1..Len(v)
        PROVE  v[j] \in f.live /\ v[j] \in DOMAIN f.key /\ f.key[v[j]] = d[j]
    <3> HIDE DEF At
    <3>1. u[At(j)] \in l.live /\ u[At(j)] \in DOMAIN l.key /\ l.key[u[At(j)]] = c[At(j)]
      BY <1>7 DEF Agrees, HasKeys
    <3>2. f.live = l.live \ {u[i]} /\ f.key = l.key
      BY <1>6 DEF Unlinks
    <3>3. v[j] = u[At(j)] /\ d[j] = c[At(j)] /\ u[At(j)] # u[i]
      BY <1>7
    <3> QED
      BY <3>1, <3>2, <3>3
  <2>2. f.cnt = Len(v)
    BY <1>1, <1>2, <1>4, <1>6 DEF Unlinks
  <2> QED
    BY <1>4, <1>5, <2>1, <2>2 DEF HasKeys
<1>10. EndKnown(f, v)
  <2> SUFFICES ASSUME class \notin NoEnd, Len(v) # 0
               PROVE  f.last = v[Len(v)]
    BY DEF EndKnown
  <2>1. Len(u) # 1 /\ Len(u) # 0
    BY <1>1, <1>3, <1>4
  <2>2. f.last = IF i = Len(u) THEN u[i - 1] ELSE l.last
    BY <1>6, <2>1 DEF Unlinks
  <2>3. l.last = u[Len(u)]
    BY <2>1 DEF Agrees, EndKnown
  <2>4. v[Len(v)] = IF Len(v) < i THEN u[Len(v)] ELSE u[Len(v) + 1]
    <3>1. Len(v) \in 1..Len(u) - 1
      BY <1>1, <1>3, <1>4, <2>1
    <3> QED
      BY <1>4, <3>1
  <2>5. CASE i = Len(u)
    <3>1. Len(v) = i - 1 /\ Len(v) < i
      BY <1>3, <1>4, <2>5
    <3> QED
      BY <2>2, <2>4, <2>5, <3>1
  <2>6. CASE i # Len(u)
    <3>1. Len(v) + 1 = Len(u) /\ ~(Len(v) < i)
      BY <1>1, <1>3, <1>4, <2>6
    <3> QED
      BY <2>2, <2>3, <2>4, <2>6, <3>1
  <2> QED
    BY <2>5, <2>6
<1>11. BackKnown(f, v)
  <2> SUFFICES ASSUME class \in BackClasses, NEW j \in 2..Len(v)
               PROVE  f.prev[v[j]] = v[j - 1]
    BY DEF BackKnown
  <2>1. j \in 1..Len(v) /\ j - 1 \in 1..Len(v) /\ j \in Nat /\ j >= 2 /\ j <= Len(u) - 1
    BY <1>1, <1>4
  <2>2. f.prev[v[j]] = m.prev[u[At(j)]] /\ v[j - 1] = u[At(j - 1)]
    <3> HIDE DEF At
    <3> QED
      BY <1>6, <1>7, <2>1
  <2>3. \A k \in 2..Len(u) : l.prev[u[k]] = u[k - 1]
    BY DEF Agrees, BackKnown
  <2>4. CASE j < i
    <3>1. At(j) = j /\ At(j - 1) = j - 1 /\ j \in 1..Len(u) /\ j \in 2..Len(u) /\ j # i /\ j # i + 1
      BY <1>1, <1>3, <2>1, <2>4
    <3>2. m.prev[u[j]] = l.prev[u[j]]
      BY <3>1 DEF Unlinks
    <3> HIDE DEF At
    <3> QED
      BY <2>2, <2>3, <3>1, <3>2
  <2>5. CASE j = i
    <3>1. At(j) = i + 1 /\ At(j - 1) = i - 1 /\ i + 1 \in 1..Len(u) /\ i # 1
      BY <1>1, <1>3, <2>1, <2>5
    <3>2. m.prev[u[i + 1]] = u[i - 1]
      BY <3>1 DEF Unlinks
    <3> HIDE DEF At
    <3> QED
      BY <2>2, <3>1, <3>2
  <2>6. CASE j > i
    <3> DEFINE k == j + 1
    <3>1. At(j) = k /\ At(j - 1) = k - 1 /\ k \in 1..Len(u) /\ k \in 2..Len(u) /\ k # i /\ k # i + 1
      BY <1>1, <1>3, <2>1, <2>6
    <3> HIDE DEF At, k
    <3>2. m.prev[u[k]] = l.prev[u[k]]
      BY <3>1 DEF Unlinks
    <3> QED
      BY <2>2, <2>3, <3>1, <3>2
  <2> QED
    BY <1>3, <2>1, <2>4, <2>5, <2>6
<1>12. HeadKnown(f, v)
  <2> SUFFICES ASSUME class \in LinkedBack, Len(v) # 0
               PROVE  f.prev[v[1]] = 0
    BY DEF HeadKnown
  <2>1. class \in BackClasses /\ 1 \in 1..Len(v) /\ Len(u) # 0
    BY <1>1, <1>4 DEF BackClasses
  <2>2. f.prev[v[1]] = m.prev[u[At(1)]] /\ At(1) \in 1..Len(u)
    <3> HIDE DEF At
    <3> QED
      BY <1>6, <1>7, <2>1
  <2>3. CASE i = 1
    <3>1. At(1) = i + 1
      BY <2>3
    <3> HIDE DEF At
    <3>2. m.prev[u[i + 1]] = 0
      BY <2>1, <2>2, <2>3, <3>1 DEF Unlinks
    <3> QED
      BY <2>2, <3>1, <3>2
  <2>4. CASE i # 1
    <3>1. At(1) = 1 /\ 1 # i /\ 1 # i + 1
      BY <1>3, <2>4
    <3> HIDE DEF At
    <3>2. m.prev[u[1]] = l.prev[u[1]]
      BY <2>1, <2>2, <3>1 DEF Unlinks
    <3>3. l.prev[u[1]] = 0
      BY <2>1 DEF Agrees, HeadKnown
    <3> QED
      BY <2>2, <3>1, <3>2, <3>3
  <2> QED
    BY <2>3, <2>4
<1> QED
  BY <1>6, <1>8, <1>9, <1>10, <1>11, <1>12 DEF Agrees, v, d, f

\* The elements before and behind the one at place i, as its pointers have them.
LEMMA Neighbours ==
    ASSUME NEW l, NEW u, NEW c, Agrees(l, u, c), NEW i \in 1..Len(u)
    PROVE  /\ l \in Memories /\ Len(u) \in Nat /\ i \in Nat /\ i >= 1 /\ i <= Len(u)
           /\ u[i] \in Nodes
           /\ l.next[u[i]] = IF i = Len(u) THEN 0 ELSE u[i + 1]
           /\ i # Len(u) => i + 1 \in 1..Len(u) /\ u[i + 1] \in Nodes /\ u[i + 1] # 0
           /\ i # 1 => i - 1 \in 1..Len(u) /\ u[i - 1] \in Nodes /\ u[i - 1] # 0
           /\ \A j \in 1..Len(u) : u[j] \in Nodes
           /\ \A j, k \in 1..Len(u) : u[j] = u[k] => j = k
           /\ class \in BackClasses /\ i # 1 => l.prev[u[i]] = u[i - 1]
           /\ class \in LinkedBack /\ i = 1 => l.prev[u[i]] = 0
           /\ class \notin NoEnd => l.last = u[Len(u)]
           /\ l.first = u[1]
<1>1. /\ l \in Memories /\ Len(u) \in Nat /\ \A j \in 1..Len(u) : u[j] \in Nodes /\ u[j] # 0
  BY ChainElements DEF Agrees
<1>2. i \in Nat /\ i >= 1 /\ i <= Len(u) /\ Len(u) # 0
  BY <1>1
<1>3. i # Len(u) => i + 1 \in 1..Len(u)
  BY <1>1, <1>2
<1>4. i # 1 => i - 1 \in 1..Len(u) /\ i \in 2..Len(u)
  BY <1>1, <1>2
<1>5. class \in BackClasses /\ i # 1 => l.prev[u[i]] = u[i - 1]
  BY <1>4 DEF Agrees, BackKnown
<1>6. class \in LinkedBack /\ i = 1 => l.prev[u[i]] = 0
  BY <1>2 DEF Agrees, HeadKnown
<1>7. class \notin NoEnd => l.last = u[Len(u)]
  BY <1>2 DEF Agrees, EndKnown
<1>8. /\ \A j, k \in 1..Len(u) : u[j] = u[k] => j = k
      /\ l.first = u[1] /\ l.next[u[i]] = IF i = Len(u) THEN 0 ELSE u[i + 1]
  BY <1>2 DEF Agrees, Chain
<1> QED
  BY <1>1, <1>2, <1>3, <1>4, <1>5, <1>6, <1>7, <1>8

\* A pointer of the elements, one of which is changed.
LEMMA PointerChanged ==
    ASSUME NEW l, NEW u, NEW c, Agrees(l, u, c), NEW h \in 1..Len(u), NEW q \in Int
    PROVE  /\ [l.next EXCEPT ![u[h]] = q] \in [Nodes -> Int]
           /\ [l.prev EXCEPT ![u[h]] = q] \in [Nodes -> Int]
           /\ \A j \in 1..Len(u) :
                 /\ [l.next EXCEPT ![u[h]] = q][u[j]] = IF j = h THEN q ELSE l.next[u[j]]
                 /\ [l.prev EXCEPT ![u[h]] = q][u[j]] = IF j = h THEN q ELSE l.prev[u[j]]
<1>1. /\ l \in Memories /\ \A j \in 1..Len(u) : u[j] \in Nodes
      /\ \A j, k \in 1..Len(u) : u[j] = u[k] => j = k
  BY Neighbours
<1>2. l.next \in [Nodes -> Int] /\ l.prev \in [Nodes -> Int]
  BY <1>1, MemoryFields
<1> QED
  BY <1>1, <1>2

\* The links of the elements when the one at place i is passed over, forwards and backwards.
LEMMA Bridged ==
    ASSUME NEW l, NEW u, NEW c, Agrees(l, u, c), NEW i \in 1..Len(u)
    PROVE  LET p == u[i - 1]
               q == l.next[u[i]]
               x == IF i = 1 THEN l.next ELSE [l.next EXCEPT ![p] = q]
               y == IF i = Len(u) THEN l.prev
                    ELSE [l.prev EXCEPT ![q] = IF i = 1 THEN 0 ELSE p]
           IN  /\ x \in [Nodes -> Int] /\ y \in [Nodes -> Int]
               /\ \A j \in 1..Len(u) :
                     x[u[j]] = IF j = i - 1 THEN q ELSE l.next[u[j]]
               /\ \A j \in 1..Len(u) :
                     y[u[j]] = IF j = i + 1 THEN IF i = 1 THEN 0 ELSE p ELSE l.prev[u[j]]
<1> DEFINE p == u[i - 1]
           q == l.next[u[i]]
           x == IF i = 1 THEN l.next ELSE [l.next EXCEPT ![p] = q]
           y == IF i = Len(u) THEN l.prev ELSE [l.prev EXCEPT ![q] = IF i = 1 THEN 0 ELSE p]
<1>1. /\ l \in Memories /\ Len(u) \in Nat /\ i \in Nat /\ i >= 1 /\ i <= Len(u)
      /\ q = IF i = Len(u) THEN 0 ELSE u[i + 1]
      /\ i # Len(u) => i + 1 \in 1..Len(u) /\ u[i + 1] \in Nodes
      /\ i # 1 => i - 1 \in 1..Len(u) /\ p \in Nodes
  BY Neighbours
<1>2. l.next \in [Nodes -> Int] /\ l.prev \in [Nodes -> Int]
  BY <1>1, MemoryFields
<1>3. q \in Int /\ (i # 1 => p \in Int)
  <2> HIDE DEF q, p
  <2>1. i # Len(u) => u[i + 1] \in Int
    BY <1>1, NodesAreInts
  <2>2. i # 1 => p \in Int
    BY <1>1, NodesAreInts
  <2> QED
    BY <1>1, <2>1, <2>2
<1>4. /\ x \in [Nodes -> Int]
      /\ \A j \in 1..Len(u) : x[u[j]] = IF j = i - 1 THEN q ELSE l.next[u[j]]
  <2>1. CASE i = 1
    <3>1. \A j \in 1..Len(u) : j # i - 1
      BY <2>1
    <3>2. x = l.next
      BY <2>1
    <3> HIDE DEF x
    <3> QED
      BY <1>2, <3>1, <3>2
  <2>2. CASE i # 1
    <3> DEFINE h == i - 1
    <3>1. h \in 1..Len(u)
      BY <1>1, <2>2
    <3>2. x = [l.next EXCEPT ![u[h]] = q]
      BY <2>2
    <3> HIDE DEF x, q, h
    <3>3. /\ [l.next EXCEPT ![u[h]] = q] \in [Nodes -> Int]
          /\ \A j \in 1..Len(u) :
                [l.next EXCEPT ![u[h]] = q][u[j]] = IF j = h THEN q ELSE l.next[u[j]]
      BY <1>3, <3>1, PointerChanged
    <3>4. h = i - 1
      BY DEF h
    <3> QED
      BY <3>2, <3>3, <3>4
  <2> QED
    BY <2>1, <2>2
<1>5. /\ y \in [Nodes -> Int]
      /\ \A j \in 1..Len(u) : y[u[j]] = IF j = i + 1 THEN IF i = 1 THEN 0 ELSE p ELSE l.prev[u[j]]
  <2>1. CASE i = Len(u)
    <3>1. \A j \in 1..Len(u) : j # i + 1
      BY <1>1, <2>1
    <3>2. y = l.prev
      BY <2>1
    <3> HIDE DEF y
    <3> QED
      BY <1>2, <3>1, <3>2
  <2>2. CASE i # Len(u)
    <3> DEFINE h == i + 1
               r == IF i = 1 THEN 0 ELSE p
    <3>1. h \in 1..Len(u) /\ r \in Int /\ q = u[h]
      BY <1>1, <1>3, <2>2
    <3>2. y = [l.prev EXCEPT ![u[h]] = r]
      BY <2>2, <3>1
    <3>3. h = i + 1 /\ r = IF i = 1 THEN 0 ELSE p
      OBVIOUS
    <3> HIDE DEF y, q, h, r, p
    <3>4. /\ [l.prev EXCEPT ![u[h]] = r] \in [Nodes -> Int]
          /\ \A j \in 1..Len(u) :
                [l.prev EXCEPT ![u[h]] = r][u[j]] = IF j = h THEN r ELSE l.prev[u[j]]
      BY <3>1, PointerChanged
    <3> QED
      BY <3>2, <3>3, <3>4
  <2> QED
    BY <2>1, <2>2
<1> QED
  BY <1>4, <1>5

\* A memory in which the element at place i is passed over.
LEMMA MemoryUnlinks ==
    ASSUME NEW l, NEW u, NEW c, Agrees(l, u, c), NEW i \in 1..Len(u),
           NEW a \in Int, NEW b \in Int, NEW x \in [Nodes -> Int], NEW y \in [Nodes -> Int],
           a = IF i = 1 THEN l.next[u[1]] ELSE l.first,
           class \notin NoEnd /\ Len(u) # 1 => b = IF i = Len(u) THEN u[i - 1] ELSE l.last,
           \A j \in 1..Len(u) : j # i =>
              x[u[j]] = IF j = i - 1 THEN l.next[u[i]] ELSE l.next[u[j]],
           class \in BackClasses => \A j \in 1..Len(u) :
              /\ j # i /\ j # i + 1 => y[u[j]] = l.prev[u[j]]
              /\ j = i + 1 /\ i # 1 => y[u[j]] = u[i - 1]
              /\ j = i + 1 /\ i = 1 /\ class \in LinkedBack => y[u[j]] = 0
    PROVE  Unlinks(l, Memory(a, b, x, y, l.cnt - 1, l.live, l.key), u, i)
<1> DEFINE m == Memory(a, b, x, y, l.cnt - 1, l.live, l.key)
<1>1. l.cnt \in Int /\ l.live \in SUBSET Nodes /\ l.key \in KeysOfNodes
  BY MemoryFields DEF Agrees
<1>2. /\ m.first = a /\ m.last = b /\ m.next = x /\ m.prev = y /\ m.cnt = l.cnt - 1
      /\ m.live = l.live /\ m.key = l.key
  BY DEF Memory
<1>3. l.cnt - 1 \in Int
  BY <1>1
<1>4. m \in Memories
  BY <1>1, <1>3 DEF Memory, Memories
<1> HIDE DEF m
<1>5. Unlinks(l, m, u, i)
  BY <1>2, <1>4 DEF Unlinks
<1> QED
  BY <1>5 DEF m

\* With pointers back that are right, of the first element too.
LEMMA UnlinkedUnlinks ==
    ASSUME NEW l, NEW u, NEW c, Agrees(l, u, c), NEW i \in 1..Len(u), class \in LinkedBack
    PROVE  Unlinks(l, Unlinked(l, u[i]), u, i)
<1> DEFINE e == u[i - 1]
           p == l.prev[u[i]]
           q == l.next[u[i]]
           x == IF i = 1 THEN l.next ELSE [l.next EXCEPT ![e] = q]
           y == IF i = Len(u) THEN l.prev ELSE [l.prev EXCEPT ![q] = IF i = 1 THEN 0 ELSE e]
           a == IF p = 0 THEN q ELSE l.first
           b == IF q = 0 THEN p ELSE l.last
           m == Unlinked(l, u[i])
<1>1. class \in BackClasses /\ class \notin NoEnd
  BY DEF BackClasses, NoEnd, LinkedBack
<1>2. /\ l \in Memories /\ Len(u) \in Nat /\ i \in Nat /\ i >= 1 /\ i <= Len(u)
      /\ q = IF i = Len(u) THEN 0 ELSE u[i + 1]
      /\ i # Len(u) => u[i + 1] \in Nodes /\ u[i + 1] # 0
      /\ i # 1 => e \in Nodes /\ e # 0
      /\ p = IF i = 1 THEN 0 ELSE e
      /\ l.first = u[1]
  <2>1. /\ l \in Memories /\ Len(u) \in Nat /\ i \in Nat /\ i >= 1 /\ i <= Len(u)
        /\ q = IF i = Len(u) THEN 0 ELSE u[i + 1]
        /\ l.first = u[1]
    BY Neighbours
  <2>2. /\ i # Len(u) => u[i + 1] \in Nodes /\ u[i + 1] # 0
        /\ i # 1 => e \in Nodes /\ e # 0
    BY Neighbours
  <2>3. p = IF i = 1 THEN 0 ELSE e
    <3>1. (i # 1 => p = e) /\ (i = 1 => p = 0)
      BY <1>1, Neighbours
    <3> QED
      BY <3>1
  <2> QED
    BY <2>1, <2>2, <2>3
<1>3. /\ x \in [Nodes -> Int] /\ y \in [Nodes -> Int]
      /\ \A j \in 1..Len(u) : x[u[j]] = IF j = i - 1 THEN q ELSE l.next[u[j]]
      /\ \A j \in 1..Len(u) : y[u[j]] = IF j = i + 1 THEN IF i = 1 THEN 0 ELSE e ELSE l.prev[u[j]]
  BY Bridged
<1>4. p = 0 <=> i = 1
  <2> HIDE DEF p, e
  <2> QED
    BY <1>2
<1>5. q = 0 <=> i = Len(u)
  <2> HIDE DEF q
  <2> QED
    BY <1>2
<1>6. m = [l EXCEPT !.first = a, !.next = x, !.last = b, !.prev = y, !.cnt = l.cnt - 1]
  <2>1. x = IF p = 0 THEN l.next ELSE [l.next EXCEPT ![p] = q]
    <3> HIDE DEF p, q, e
    <3> QED
      BY <1>2, <1>4
  <2>2. y = IF q = 0 THEN l.prev ELSE [l.prev EXCEPT ![q] = p]
    <3> HIDE DEF p, q, e
    <3> QED
      BY <1>2, <1>5
  <2>3. m = [l EXCEPT !.first = IF p = 0 THEN q ELSE l.first,
                      !.next  = IF p = 0 THEN l.next ELSE [l.next EXCEPT ![p] = q],
                      !.last  = IF q = 0 THEN p ELSE l.last,
                      !.prev  = IF q = 0 THEN l.prev ELSE [l.prev EXCEPT ![q] = p],
                      !.cnt   = l.cnt - 1]
    BY <1>2 DEF Unlinked, Memories
  <2> HIDE DEF m, x, y
  <2> QED
    BY <2>1, <2>2, <2>3
<1> HIDE DEF m, x, y, a, b
<1>7. m = Memory(a, b, x, y, l.cnt - 1, l.live, l.key)
  BY <1>2, <1>6 DEF Memories, Memory
<1>8. a \in Int /\ b \in Int
  <2>1. l.first \in Int /\ l.last \in Int /\ p \in Int /\ q \in Int
    <3>1. l.first \in Int /\ l.last \in Int /\ l.next \in [Nodes -> Int] /\ l.prev \in [Nodes -> Int]
      BY <1>2, MemoryFields
    <3>2. u[i] \in Nodes
      BY Neighbours
    <3> QED
      BY <3>1, <3>2
  <2> HIDE DEF p, q
  <2> QED
    BY <2>1 DEF a, b
<1>9. a = IF i = 1 THEN l.next[u[1]] ELSE l.first
  <2> HIDE DEF p
  <2> QED
    BY <1>4 DEF a
<1>10. Len(u) # 1 => b = IF i = Len(u) THEN e ELSE l.last
  <2> HIDE DEF p, q, e
  <2> QED
    BY <1>2, <1>5 DEF b
<1>11. \A j \in 1..Len(u) :
          /\ j # i /\ j # i + 1 => y[u[j]] = l.prev[u[j]]
          /\ j = i + 1 /\ i # 1 => y[u[j]] = e
          /\ j = i + 1 /\ i = 1 => y[u[j]] = 0
  BY <1>3
<1>12. Unlinks(l, Memory(a, b, x, y, l.cnt - 1, l.live, l.key), u, i)
  BY <1>3, <1>8, <1>9, <1>10, <1>11, MemoryUnlinks
<1> QED
  BY <1>7, <1>12 DEF m

\* The four cases of MessageIdTable::clear come to the same.
LEMMA ClearedIsUnlinked ==
    ASSUME NEW l \in Memories, NEW n \in Nodes
    PROVE  ClearedMessageId(l, n) = Unlinked(l, n)
<1> DEFINE p == l.prev[n]
           q == l.next[n]
<1>1. Unlinked(l, n) =
        Memory(IF p = 0 THEN q ELSE l.first, IF q = 0 THEN p ELSE l.last,
               IF p = 0 THEN l.next ELSE [l.next EXCEPT ![p] = q],
               IF q = 0 THEN l.prev ELSE [l.prev EXCEPT ![q] = p], l.cnt - 1, l.live, l.key)
  <2> DEFINE a == IF p = 0 THEN q ELSE l.first
             b == IF q = 0 THEN p ELSE l.last
             x == IF p = 0 THEN l.next ELSE [l.next EXCEPT ![p] = q]
             y == IF q = 0 THEN l.prev ELSE [l.prev EXCEPT ![q] = p]
  <2>1. Unlinked(l, n) =
          [l EXCEPT !.first = a, !.next = x, !.last = b, !.prev = y, !.cnt = l.cnt - 1]
    BY DEF Unlinked, Memories
  <2> HIDE DEF a, b, x, y
  <2>2. Unlinked(l, n) = Memory(a, b, x, y, l.cnt - 1, l.live, l.key)
    BY <2>1 DEF Memories, Memory
  <2> QED
    BY <2>2 DEF a, b, x, y
<1>2. CASE p = 0 /\ q = 0
  <2>1. ClearedMessageId(l, n) = [l EXCEPT !.first = 0, !.last = 0, !.cnt = l.cnt - 1]
    BY <1>2 DEF ClearedMessageId, Memories
  <2> HIDE DEF p, q
  <2>2. ClearedMessageId(l, n) = Memory(0, 0, l.next, l.prev, l.cnt - 1, l.live, l.key)
    BY <2>1 DEF Memories, Memory
  <2> QED
    BY <1>1, <1>2, <2>2
<1>3. CASE p = 0 /\ q # 0
  <2>1. ClearedMessageId(l, n) =
          [l EXCEPT !.first = q, !.prev = [l.prev EXCEPT ![q] = 0], !.cnt = l.cnt - 1]
    BY <1>3 DEF ClearedMessageId, Memories
  <2> HIDE DEF p, q
  <2>2. ClearedMessageId(l, n) =
          Memory(q, l.last, l.next, [l.prev EXCEPT ![q] = 0], l.cnt - 1, l.live, l.key)
    BY <2>1 DEF Memories, Memory
  <2> QED
    BY <1>1, <1>3, <2>2
<1>4. CASE p # 0 /\ q = 0
  <2>1. ClearedMessageId(l, n) =
          [l EXCEPT !.next = [l.next EXCEPT ![p] = 0], !.last = p, !.cnt = l.cnt - 1]
    BY <1>4 DEF ClearedMessageId, Memories
  <2> HIDE DEF p, q
  <2>2. ClearedMessageId(l, n) =
          Memory(l.first, p, [l.next EXCEPT ![p] = 0], l.prev, l.cnt - 1, l.live, l.key)
    BY <2>1 DEF Memories, Memory
  <2> QED
    BY <1>1, <1>4, <2>2
<1>5. CASE p # 0 /\ q # 0
  <2>1. ClearedMessageId(l, n) =
          [l EXCEPT !.next = [l.next EXCEPT ![p] = q], !.prev = [l.prev EXCEPT ![q] = p],
                    !.cnt = l.cnt - 1]
    BY <1>5 DEF ClearedMessageId, Memories
  <2> HIDE DEF p, q
  <2>2. ClearedMessageId(l, n) =
          Memory(l.first, l.last, [l.next EXCEPT ![p] = q], [l.prev EXCEPT ![q] = p],
                 l.cnt - 1, l.live, l.key)
    BY <2>1 DEF Memories, Memory
  <2> QED
    BY <1>1, <1>5, <2>2
<1> HIDE DEF p, q
<1> QED
  BY <1>2, <1>3, <1>4, <1>5, Zenon

\* List::erase: the new head's pointer back stays, which nothing follows.
LEMMA ErasedElmUnlinks ==
    ASSUME NEW l, NEW u, NEW c, Agrees(l, u, c), NEW i \in 1..Len(u), class = "List"
    PROVE  Unlinks(l, ErasedElm(l, u[i]), u, i)
<1> DEFINE n == u[i]
           e == u[i - 1]
           p == l.prev[n]
           q == l.next[n]
           x == IF i = 1 THEN l.next ELSE [l.next EXCEPT ![e] = q]
           y == IF i = Len(u) THEN l.prev ELSE [l.prev EXCEPT ![q] = IF i = 1 THEN 0 ELSE e]
           m == ErasedElm(l, n)
<1>1. class \in BackClasses /\ class \notin NoEnd /\ class \notin LinkedBack
  BY DEF BackClasses, NoEnd, LinkedBack
<1>2. /\ l \in Memories /\ Len(u) \in Nat /\ i \in Nat /\ i >= 1 /\ i <= Len(u)
      /\ n \in Nodes /\ l.first = u[1] /\ l.last = u[Len(u)]
      /\ q = IF i = Len(u) THEN 0 ELSE u[i + 1]
      /\ i # 1 => p = e /\ e \in Nodes
      /\ \A j, k \in 1..Len(u) : u[j] = u[k] => j = k
  BY <1>1, Neighbours
<1>3. /\ x \in [Nodes -> Int] /\ y \in [Nodes -> Int]
      /\ \A j \in 1..Len(u) : x[u[j]] = IF j = i - 1 THEN q ELSE l.next[u[j]]
      /\ \A j \in 1..Len(u) : y[u[j]] = IF j = i + 1 THEN IF i = 1 THEN 0 ELSE e ELSE l.prev[u[j]]
  BY Bridged
<1>4. /\ l.first \in Int /\ l.last \in Int /\ l.cnt \in Int
      /\ l.next \in [Nodes -> Int] /\ l.prev \in [Nodes -> Int]
  BY <1>2, MemoryFields
<1>5. q \in Int /\ p \in Int
  BY <1>2, <1>4
<1>6. /\ l.first = n <=> i = 1
      /\ l.last = n <=> i = Len(u)
  BY <1>2
<1>7. CASE i = 1
  <2>1. m = [l EXCEPT !.first = q, !.cnt = l.cnt - 1]
    BY <1>2, <1>6, <1>7 DEF ErasedElm, Memories
  <2> HIDE DEF m, q
  <2>2. m = Memory(q, l.last, l.next, l.prev, l.cnt - 1, l.live, l.key)
    BY <1>2, <2>1 DEF Memories, Memory
  <2>3. q = IF i = 1 THEN l.next[u[1]] ELSE l.first
    BY <1>7 DEF q
  <2>4. Len(u) # 1 => l.last = IF i = Len(u) THEN e ELSE l.last
    BY <1>7
  <2>5. \A j \in 1..Len(u) : j # i =>
           l.next[u[j]] = IF j = i - 1 THEN l.next[u[i]] ELSE l.next[u[j]]
    BY <1>7
  <2>6. \A j \in 1..Len(u) :
          /\ j # i /\ j # i + 1 => l.prev[u[j]] = l.prev[u[j]]
          /\ j = i + 1 /\ i # 1 => l.prev[u[j]] = e
          /\ j = i + 1 /\ i = 1 /\ class \in LinkedBack => l.prev[u[j]] = 0
    BY <1>1, <1>7
  <2>7. Unlinks(l, Memory(q, l.last, l.next, l.prev, l.cnt - 1, l.live, l.key), u, i)
    BY <1>4, <1>5, <2>3, <2>4, <2>5, <2>6, MemoryUnlinks
  <2> QED
    BY <2>2, <2>7 DEF m
<1>8. ASSUME i # 1, NEW b \in Int, b = IF i = Len(u) THEN e ELSE l.last,
             m = Memory(l.first, b, x, y, l.cnt - 1, l.live, l.key)
      PROVE  Unlinks(l, m, u, i)
  <2>1. l.first = IF i = 1 THEN l.next[u[1]] ELSE l.first
    BY <1>8
  <2>2. \A j \in 1..Len(u) :
          /\ j # i /\ j # i + 1 => y[u[j]] = l.prev[u[j]]
          /\ j = i + 1 /\ i # 1 => y[u[j]] = e
          /\ j = i + 1 /\ i = 1 => y[u[j]] = 0
    BY <1>3
  <2> HIDE DEF m, x, y
  <2>3. Unlinks(l, Memory(l.first, b, x, y, l.cnt - 1, l.live, l.key), u, i)
    BY <1>3, <1>4, <1>8, <2>1, <2>2, MemoryUnlinks
  <2> QED
    BY <1>8, <2>3
<1>9. CASE i # 1 /\ i = Len(u)
  <2>1. m = [l EXCEPT !.last = p, !.next = [l.next EXCEPT ![p] = 0], !.cnt = l.cnt - 1]
    BY <1>2, <1>6, <1>9 DEF ErasedElm, Memories
  <2>2. [l.next EXCEPT ![p] = 0] = x /\ l.prev = y /\ p = e
    <3> HIDE DEF p, q, e
    <3> QED
      BY <1>2, <1>9
  <2> HIDE DEF m, p, x, y
  <2>3. m = Memory(l.first, p, x, y, l.cnt - 1, l.live, l.key)
    BY <1>2, <2>1, <2>2 DEF Memories, Memory
  <2>4. p = IF i = Len(u) THEN e ELSE l.last
    BY <1>9, <2>2
  <2>5. Unlinks(l, m, u, i)
    BY <1>5, <1>8, <1>9, <2>3, <2>4
  <2> QED
    BY <2>5 DEF m
<1>10. CASE i # 1 /\ i # Len(u)
  <2>1. m = [l EXCEPT !.next = [l.next EXCEPT ![p] = q], !.prev = [l.prev EXCEPT ![q] = p],
                      !.cnt = l.cnt - 1]
    BY <1>2, <1>6, <1>10 DEF ErasedElm, Memories
  <2>2. [l.next EXCEPT ![p] = q] = x /\ [l.prev EXCEPT ![q] = p] = y
    <3> HIDE DEF p, q, e
    <3> QED
      BY <1>2, <1>10
  <2> HIDE DEF m, p, q, x, y
  <2>3. m = Memory(l.first, l.last, x, y, l.cnt - 1, l.live, l.key)
    BY <1>2, <2>1, <2>2 DEF Memories, Memory
  <2>4. l.last = IF i = Len(u) THEN e ELSE l.last
    BY <1>10
  <2>5. Unlinks(l, m, u, i)
    BY <1>4, <1>8, <1>10, <2>3, <2>4
  <2> QED
    BY <2>5 DEF m
<1> QED
  BY <1>7, <1>9, <1>10

\* Que::pop.
LEMMA PoppedUnlinks ==
    ASSUME NEW l, NEW u, NEW c, Agrees(l, u, c), Len(u) # 0, class = "Que"
    PROVE  Unlinks(l, Popped(l, u[1]), u, 1)
<1> DEFINE n == u[1]
           q == l.next[n]
           y == [l.prev EXCEPT ![n] = 0]
           m == Popped(l, n)
<1>1. class \notin BackClasses /\ class \notin NoEnd
  BY DEF BackClasses, NoEnd, LinkedBack
<1>2. 1 \in 1..Len(u)
  <2>1. Len(u) \in Nat
    BY ChainElements DEF Agrees
  <2> QED
    BY <2>1
<1>3. /\ l \in Memories /\ Len(u) \in Nat
      /\ n \in Nodes /\ l.first = u[1] /\ l.last = u[Len(u)]
      /\ q = IF 1 = Len(u) THEN 0 ELSE u[2]
      /\ \A j, k \in 1..Len(u) : u[j] = u[k] => j = k
  <2>1. q = IF 1 = Len(u) THEN 0 ELSE u[2]
    <3>1. \A j \in 1..Len(u) : l.next[u[j]] = IF j = Len(u) THEN 0 ELSE u[j + 1]
      BY DEF Agrees, Chain
    <3>2. l.next[u[1]] = IF 1 = Len(u) THEN 0 ELSE u[1 + 1]
      BY <1>2, <3>1, Zenon
    <3>3. 1 + 1 = 2
      OBVIOUS
    <3> QED
      BY <3>2, <3>3
  <2>2. l \in Memories /\ Len(u) \in Nat /\ n \in Nodes /\ l.first = u[1] /\ l.last = u[Len(u)]
    BY <1>1, <1>2, Neighbours
  <2>3. \A j, k \in 1..Len(u) : u[j] = u[k] => j = k
    BY <1>1, <1>2, Neighbours
  <2> HIDE DEF q
  <2> QED
    BY <2>1, <2>2, <2>3
<1>4. /\ l.first \in Int /\ l.last \in Int /\ l.cnt \in Int
      /\ l.next \in [Nodes -> Int] /\ l.prev \in [Nodes -> Int]
  BY <1>3, MemoryFields
<1>5. q \in Int /\ y \in [Nodes -> Int]
  BY <1>3, <1>4
<1>6. l.first = l.last <=> Len(u) = 1
  <2>1. Len(u) \in 1..Len(u)
    BY <1>3
  <2> QED
    BY <1>2, <1>3, <2>1
<1>7. \A j \in 1..Len(u) : j # 1 =>
         l.next[u[j]] = IF j = 1 - 1 THEN l.next[u[1]] ELSE l.next[u[j]]
  OBVIOUS
<1>8. CASE Len(u) = 1
  <2>1. m = [l EXCEPT !.first = 0, !.last = 0, !.cnt = l.cnt - 1]
    BY <1>3, <1>6, <1>8 DEF Popped, Memories
  <2> HIDE DEF m
  <2>2. m = Memory(0, 0, l.next, l.prev, l.cnt - 1, l.live, l.key)
    BY <1>3, <2>1 DEF Memories, Memory
  <2>3. 0 = IF 1 = 1 THEN l.next[u[1]] ELSE l.first
    BY <1>3, <1>8
  <2>4. Len(u) # 1 => 0 = IF 1 = Len(u) THEN u[1 - 1] ELSE l.last
    BY <1>8
  <2>5. 0 \in Int
    OBVIOUS
  <2>6. Unlinks(l, Memory(0, 0, l.next, l.prev, l.cnt - 1, l.live, l.key), u, 1)
    BY <1>1, <1>2, <1>4, <1>7, <2>3, <2>4, <2>5, MemoryUnlinks
  <2> QED
    BY <2>2, <2>6 DEF m
<1>9. CASE Len(u) # 1
  <2>1. m = [l EXCEPT !.first = q, !.prev = y, !.cnt = l.cnt - 1]
    BY <1>3, <1>6, <1>9 DEF Popped, Memories
  <2> HIDE DEF m, q, y
  <2>2. m = Memory(q, l.last, l.next, y, l.cnt - 1, l.live, l.key)
    BY <1>3, <2>1 DEF Memories, Memory
  <2>3. q = IF 1 = 1 THEN l.next[u[1]] ELSE l.first
    BY DEF q
  <2>4. Len(u) # 1 => l.last = IF 1 = Len(u) THEN u[1 - 1] ELSE l.last
    BY <1>9
  <2>5. Unlinks(l, Memory(q, l.last, l.next, y, l.cnt - 1, l.live, l.key), u, 1)
    BY <1>1, <1>2, <1>4, <1>5, <1>7, <2>3, <2>4, MemoryUnlinks
  <2> QED
    BY <2>2, <2>5 DEF m
<1> QED
  BY <1>8, <1>9

\* Topics::eraseNormal keeps the element before in a variable.
LEMMA PassedOverUnlinks ==
    ASSUME NEW l, NEW u, NEW c, Agrees(l, u, c), NEW i \in 1..Len(u), class \in NoEnd,
           NEW p, p = IF i = 1 THEN 0 ELSE u[i - 1]
    PROVE  Unlinks(l, [l EXCEPT !.first = IF @ = u[i] THEN l.next[u[i]] ELSE @,
                                !.next  = IF p = 0 THEN @ ELSE [@ EXCEPT ![p] = l.next[u[i]]],
                                !.cnt   = @ - 1], u, i)
<1> DEFINE n == u[i]
           e == u[i - 1]
           q == l.next[n]
           x == IF i = 1 THEN l.next ELSE [l.next EXCEPT ![e] = q]
           a == IF l.first = n THEN q ELSE l.first
           m == [l EXCEPT !.first = IF @ = n THEN q ELSE @,
                          !.next  = IF p = 0 THEN @ ELSE [@ EXCEPT ![p] = q],
                          !.cnt   = @ - 1]
<1>1. class \notin BackClasses
  BY DEF BackClasses, NoEnd, LinkedBack
<1>2. /\ l \in Memories /\ Len(u) \in Nat /\ i \in Nat /\ i >= 1 /\ i <= Len(u)
      /\ n \in Nodes /\ l.first = u[1]
      /\ i # 1 => e \in Nodes /\ e # 0
      /\ \A j, k \in 1..Len(u) : u[j] = u[k] => j = k
  BY Neighbours
<1>3. /\ x \in [Nodes -> Int]
      /\ \A j \in 1..Len(u) : x[u[j]] = IF j = i - 1 THEN q ELSE l.next[u[j]]
  BY Bridged
<1>4. /\ l.first \in Int /\ l.last \in Int /\ l.cnt \in Int
      /\ l.next \in [Nodes -> Int] /\ l.prev \in [Nodes -> Int]
  BY <1>2, MemoryFields
<1>5. q \in Int
  BY <1>2, <1>4
<1>6. l.first = n <=> i = 1
  BY <1>2
<1>7. p = 0 <=> i = 1
  BY <1>2
<1>8. x = IF p = 0 THEN l.next ELSE [l.next EXCEPT ![p] = q]
  <2> HIDE DEF q, e
  <2>1. i # 1 => p = e
    BY DEF e
  <2> QED
    BY <1>7, <2>1
<1>9. m = [l EXCEPT !.first = a, !.next = x, !.cnt = l.cnt - 1]
  <2>1. m = [l EXCEPT !.first = IF l.first = n THEN q ELSE l.first,
                      !.next  = IF p = 0 THEN l.next ELSE [l.next EXCEPT ![p] = q],
                      !.cnt   = l.cnt - 1]
    BY <1>2 DEF Memories
  <2> HIDE DEF m, x
  <2> QED
    BY <1>8, <2>1
<1>10. a \in Int
  <2> HIDE DEF q
  <2> QED
    BY <1>4, <1>5
<1>11. a = IF i = 1 THEN l.next[u[1]] ELSE l.first
  BY <1>6
<1> HIDE DEF m, x, a
<1>12. m = Memory(a, l.last, x, l.prev, l.cnt - 1, l.live, l.key)
  BY <1>2, <1>9 DEF Memories, Memory
<1>13. Unlinks(l, Memory(a, l.last, x, l.prev, l.cnt - 1, l.live, l.key), u, i)
  BY <1>1, <1>3, <1>4, <1>10, <1>11, MemoryUnlinks
<1> QED
  BY <1>12, <1>13 DEF m

----------------------------------------------------------------------------
(* Searching. *)

LEMMA LeastIs ==
    ASSUME NEW I, I \subseteq Nat, NEW x \in I, \A y \in I : x <= y
    PROVE  Min(I) = x
<1>1. Min(I) \in I /\ \A y \in I : Min(I) =< y
  BY DEF Min
<1>2. Min(I) \in Nat /\ x \in Nat /\ Min(I) <= x /\ x <= Min(I)
  <2> HIDE DEF Min
  <2> QED
    BY <1>1
<1> HIDE DEF Min
<1> QED
  BY <1>2

LEMMA HasLeast ==
    ASSUME NEW n \in Nat, NEW I, I \subseteq 1..n, I # {}
    PROVE  \E x \in I : \A y \in I : x <= y
<1>1. IsWellFoundedOn(OpToRel(<, Nat), Nat)
  BY NatLessThanWellFounded
<1>2. PICK x \in I : \A y \in I : <<y, x>> \notin OpToRel(<, Nat)
  <2>1. I \subseteq Nat
    OBVIOUS
  <2> QED
    BY <1>1, <2>1, WFMin
<1>3. ASSUME NEW y \in I PROVE x <= y
  <2>1. y \in Nat /\ x \in Nat
    OBVIOUS
  <2>2. ~(y < x)
    BY <1>2, <2>1 DEF OpToRel
  <2> QED
    BY <2>1, <2>2
<1> QED
  BY <1>3

\* An element is met at its place.
PlaceOf(l, n) == SelectInSeq(Walk(l), LAMBDA x : x = n)

LEMMA PlaceOfElement ==
    ASSUME NEW l, NEW u, NEW c, Agrees(l, u, c), NEW i \in 1..Len(u), NEW n, n = u[i]
    PROVE  PlaceOf(l, n) = i
<1> DEFINE I == {j \in 1..Len(u) : u[j] = n}
<1>1. Walk(l) = u /\ Len(u) \in Nat
  BY WalkIs, ChainElements DEF Agrees
<1>2. SelectInSeq(u, LAMBDA x : x = n) = IF I # {} THEN Min(I) ELSE 0
  BY DEF SelectInSeq
<1>3. i \in I /\ I \subseteq Nat
  BY <1>1
<1>4. \A y \in I : i <= y
  BY <1>1, Neighbours
<1> HIDE DEF I
<1>5. Min(I) = i
  BY <1>3, <1>4, LeastIs
<1>6. PlaceOf(l, n) = SelectInSeq(u, LAMBDA x : x = n)
  BY <1>1 DEF PlaceOf
<1> QED
  BY <1>2, <1>3, <1>5, <1>6

\* A search by a key meets the oldest element that has it.
Oldest(c, k, i) == i \in 1..Len(c) /\ c[i] = k /\ \A j \in 1..Len(c) : c[j] = k => i <= j

LEMMA Found ==
    ASSUME NEW l, NEW u, NEW c, Agrees(l, u, c), NEW k
    PROVE  \/ Find(l, k) = {} /\ \A i \in 1..Len(c) : c[i] # k
           \/ \E i \in 1..Len(u) : Find(l, k) = {u[i]} /\ Oldest(c, k, i)
<1> DEFINE I == {j \in 1..Len(u) : u[j] \in l.live /\ l.key[u[j]] = k}
           s == SelectInSeq(Walk(l), LAMBDA n : n \in l.live /\ l.key[n] = k)
<1>1. /\ Walk(l) = u /\ Len(u) \in Nat /\ Len(c) = Len(u)
      /\ \A j \in 1..Len(u) : u[j] \in l.live /\ l.key[u[j]] = c[j]
  BY WalkIs, ChainElements DEF Agrees, HasKeys
<1>2. SelectInSeq(u, LAMBDA n : n \in l.live /\ l.key[n] = k) = IF I # {} THEN Min(I) ELSE 0
  BY DEF SelectInSeq
<1>3. s = IF I # {} THEN Min(I) ELSE 0
  <2> HIDE DEF I
  <2> QED
    BY <1>1, <1>2
<1>4. Find(l, k) = IF s = 0 THEN {} ELSE {u[s]}
  BY <1>1 DEF Find
<1>5. \A j \in 1..Len(u) : j \in I <=> c[j] = k
  BY <1>1
<1>6. I \subseteq 1..Len(u) /\ I \subseteq Nat
  BY <1>1
<1> HIDE DEF I, s
<1>7. CASE I = {}
  BY <1>1, <1>3, <1>4, <1>5, <1>7
<1>8. CASE I # {}
  <2>1. PICK x \in I : \A y \in I : x <= y
    BY <1>1, <1>6, <1>8, HasLeast
  <2>2. Min(I) = x
    BY <1>6, <2>1, LeastIs
  <2>3. x \in 1..Len(u) /\ x # 0 /\ s = x
    BY <1>1, <1>3, <1>6, <1>8, <2>1, <2>2
  <2>4. Find(l, k) = {u[x]}
    BY <1>4, <2>3
  <2>5. Oldest(c, k, x)
    BY <1>1, <1>5, <2>1, <2>3 DEF Oldest
  <2> QED
    BY <2>3, <2>4, <2>5
<1> QED
  BY <1>7, <1>8

LEMMA FirstRemoved ==
    ASSUME NEW c \in Seq(Keys), NEW k
    PROVE  /\ (\A i \in 1..Len(c) : c[i] # k) => RemoveFirst(c, k) = c
           /\ \A i : Oldest(c, k, i) => RemoveFirst(c, k) = RemoveAt(c, i)
<1>1. (\A i \in 1..Len(c) : c[i] # k) => RemoveFirst(c, k) = c
  BY DEF RemoveFirst
<1>2. ASSUME NEW i, Oldest(c, k, i) PROVE RemoveFirst(c, k) = RemoveAt(c, i)
  <2> DEFINE I == {j \in 1..Len(c) : c[j] = k}
  <2>1. SelectInSeq(c, LAMBDA v : v = k) = IF I # {} THEN Min(I) ELSE 0
    BY DEF SelectInSeq
  <2>2. i \in I /\ I \subseteq Nat /\ \A j \in I : i <= j
    BY <1>2 DEF Oldest
  <2> HIDE DEF I
  <2>3. Min(I) = i
    BY <2>2, LeastIs
  <2>4. RemoveFirst(c, k) = RemoveAt(c, SelectInSeq(c, LAMBDA v : v = k))
    BY <1>2 DEF RemoveFirst, Oldest
  <2> QED
    BY <2>1, <2>2, <2>3, <2>4
<1> QED
  BY <1>1, <1>2

----------------------------------------------------------------------------
(* Topics::eraseNormal. *)

\* The recursions of eraseNormal and of OfPredefined, which have a solution: one for the first
\* m elements gives one for m + 1.
WalkErasing(l, u) ==
    LET at[i \in 0..Len(u)] == IF i = 0 THEN [list |-> l, prev |-> 0]
                               ELSE ErasedNormal(at[i - 1], u[i])
    IN  at

WalkKeeping(keys) ==
    LET kept[i \in 0..Len(keys)] ==
            IF i = 0 THEN <<>>
            ELSE IF keys[i] \in PredefinedKeys THEN Append(kept[i - 1], keys[i]) ELSE kept[i - 1]
    IN  kept

LEMMA WalkErasingIs ==
    ASSUME NEW l, NEW u, Len(u) \in Nat
    PROVE  /\ WalkErasing(l, u)[0] = [list |-> l, prev |-> 0]
           /\ \A i \in 1..Len(u) :
                 WalkErasing(l, u)[i] = ErasedNormal(WalkErasing(l, u)[i - 1], u[i])
<1> DEFINE start == [list |-> l, prev |-> 0]
           step(a, i) == ErasedNormal(a, u[i])
           body(g, m) == [i \in 0..m |-> IF i = 0 THEN start ELSE step(g[i - 1], i)]
           S == {m \in Nat : \E g : g = body(g, m)}
           at == WalkErasing(l, u)
<1>1. at = CHOOSE g : g = body(g, Len(u))
  BY DEF WalkErasing
<1> HIDE DEF step, start, at
<1>2. 0 \in S
  <2> DEFINE z == [i \in 0..0 |-> start]
  <2>1. z = body(z, 0)
    BY SMT
  <2> HIDE DEF z, body
  <2> QED
    BY <2>1
<1>3. ASSUME NEW m \in Nat, m \in S PROVE m + 1 \in S
  <2>1. PICK g : g = body(g, m)
    BY <1>3
  <2> DEFINE h == [i \in 0..m + 1 |-> IF i = m + 1 THEN step(g[m], m + 1) ELSE g[i]]
  <2>2. ASSUME NEW i \in 0..m + 1
        PROVE  h[i] = IF i = 0 THEN start ELSE step(h[i - 1], i)
    <3>1. CASE i = m + 1
      <4>1. i # 0 /\ i - 1 = m /\ m \in 0..m + 1 /\ m # m + 1
        BY <3>1
      <4>2. h[m] = g[m] /\ h[i] = step(g[m], m + 1)
        BY <3>1, <4>1
      <4> HIDE DEF h
      <4> QED
        BY <3>1, <4>1, <4>2
    <3>2. CASE i # m + 1
      <4>1. i \in 0..m /\ (i # 0 => i - 1 \in 0..m + 1 /\ i - 1 # m + 1)
        BY <3>2
      <4>2. g[i] = IF i = 0 THEN start ELSE step(g[i - 1], i)
        <5>1. body(g, m)[i] = IF i = 0 THEN start ELSE step(g[i - 1], i)
          BY <4>1
        <5> HIDE DEF body
        <5> QED
          BY <2>1, <5>1
      <4>3. h[i] = g[i] /\ (i # 0 => h[i - 1] = g[i - 1])
        BY <3>2, <4>1
      <4> HIDE DEF h
      <4> QED
        BY <4>2, <4>3
    <3> QED
      BY <3>1, <3>2
  <2>3. h = body(h, m + 1)
    <3>1. h = [i \in 0..m + 1 |-> h[i]]
      OBVIOUS
    <3>2. body(h, m + 1) = [i \in 0..m + 1 |-> IF i = 0 THEN start ELSE step(h[i - 1], i)]
      OBVIOUS
    <3> HIDE DEF h, body
    <3> QED
      BY <2>2, <3>1, <3>2
  <2>4. m + 1 \in Nat
    OBVIOUS
  <2> HIDE DEF h, body
  <2> QED
    BY <2>3, <2>4
<1>4. Nat \subseteq S
  <2> HIDE DEF S
  <2> QED
    BY <1>2, <1>3, SetInduction
<1>5. \E g : g = body(g, Len(u))
  <2> HIDE DEF body
  <2> QED
    BY <1>4
<1>6. at = body(at, Len(u))
  <2> HIDE DEF body
  <2> QED
    BY <1>1, <1>5, Zenon
<1>7. ASSUME NEW i \in 0..Len(u)
      PROVE  at[i] = IF i = 0 THEN start ELSE step(at[i - 1], i)
  <2>1. body(at, Len(u))[i] = IF i = 0 THEN start ELSE step(at[i - 1], i)
    OBVIOUS
  <2> HIDE DEF body
  <2> QED
    BY <1>6, <2>1
<1>8. at[0] = start /\ \A i \in 1..Len(u) : at[i] = step(at[i - 1], i)
  <2>1. 0 \in 0..Len(u) /\ \A i \in 1..Len(u) : i \in 0..Len(u) /\ i # 0
    OBVIOUS
  <2> QED
    BY <1>7, <2>1
<1> QED
  BY <1>8 DEF at, start, step

LEMMA WalkKeepingIs ==
    ASSUME NEW u, Len(u) \in Nat
    PROVE  /\ WalkKeeping(u)[0] = <<>>
           /\ \A i \in 1..Len(u) : WalkKeeping(u)[i] =
                 IF u[i] \in PredefinedKeys THEN Append(WalkKeeping(u)[i - 1], u[i])
                 ELSE WalkKeeping(u)[i - 1]
<1> DEFINE start == <<>>
           step(a, i) == IF u[i] \in PredefinedKeys THEN Append(a, u[i]) ELSE a
           body(g, m) == [i \in 0..m |-> IF i = 0 THEN start ELSE step(g[i - 1], i)]
           S == {m \in Nat : \E g : g = body(g, m)}
           at == WalkKeeping(u)
<1>1. at = CHOOSE g : g = body(g, Len(u))
  BY DEF WalkKeeping
<1> HIDE DEF step, start, at
<1>2. 0 \in S
  <2> DEFINE z == [i \in 0..0 |-> start]
  <2>1. z = body(z, 0)
    BY SMT
  <2> HIDE DEF z, body
  <2> QED
    BY <2>1
<1>3. ASSUME NEW m \in Nat, m \in S PROVE m + 1 \in S
  <2>1. PICK g : g = body(g, m)
    BY <1>3
  <2> DEFINE h == [i \in 0..m + 1 |-> IF i = m + 1 THEN step(g[m], m + 1) ELSE g[i]]
  <2>2. ASSUME NEW i \in 0..m + 1
        PROVE  h[i] = IF i = 0 THEN start ELSE step(h[i - 1], i)
    <3>1. CASE i = m + 1
      <4>1. i # 0 /\ i - 1 = m /\ m \in 0..m + 1 /\ m # m + 1
        BY <3>1
      <4>2. h[m] = g[m] /\ h[i] = step(g[m], m + 1)
        BY <3>1, <4>1
      <4> HIDE DEF h
      <4> QED
        BY <3>1, <4>1, <4>2
    <3>2. CASE i # m + 1
      <4>1. i \in 0..m /\ (i # 0 => i - 1 \in 0..m + 1 /\ i - 1 # m + 1)
        BY <3>2
      <4>2. g[i] = IF i = 0 THEN start ELSE step(g[i - 1], i)
        <5>1. body(g, m)[i] = IF i = 0 THEN start ELSE step(g[i - 1], i)
          BY <4>1
        <5> HIDE DEF body
        <5> QED
          BY <2>1, <5>1
      <4>3. h[i] = g[i] /\ (i # 0 => h[i - 1] = g[i - 1])
        BY <3>2, <4>1
      <4> HIDE DEF h
      <4> QED
        BY <4>2, <4>3
    <3> QED
      BY <3>1, <3>2
  <2>3. h = body(h, m + 1)
    <3>1. h = [i \in 0..m + 1 |-> h[i]]
      OBVIOUS
    <3>2. body(h, m + 1) = [i \in 0..m + 1 |-> IF i = 0 THEN start ELSE step(h[i - 1], i)]
      OBVIOUS
    <3> HIDE DEF h, body
    <3> QED
      BY <2>2, <3>1, <3>2
  <2>4. m + 1 \in Nat
    OBVIOUS
  <2> HIDE DEF h, body
  <2> QED
    BY <2>3, <2>4
<1>4. Nat \subseteq S
  <2> HIDE DEF S
  <2> QED
    BY <1>2, <1>3, SetInduction
<1>5. \E g : g = body(g, Len(u))
  <2> HIDE DEF body
  <2> QED
    BY <1>4
<1>6. at = body(at, Len(u))
  <2> HIDE DEF body
  <2> QED
    BY <1>1, <1>5, Zenon
<1>7. ASSUME NEW i \in 0..Len(u)
      PROVE  at[i] = IF i = 0 THEN start ELSE step(at[i - 1], i)
  <2>1. body(at, Len(u))[i] = IF i = 0 THEN start ELSE step(at[i - 1], i)
    OBVIOUS
  <2> HIDE DEF body
  <2> QED
    BY <1>6, <2>1
<1>8. at[0] = start /\ \A i \in 1..Len(u) : at[i] = step(at[i - 1], i)
  <2>1. 0 \in 0..Len(u) /\ \A i \in 1..Len(u) : i \in 0..Len(u) /\ i # 0
    OBVIOUS
  <2> QED
    BY <1>7, <2>1
<1> QED
  BY <1>8 DEF at, start, step

\* The walk of eraseNormal after i elements of u, a and kept being what it has then: the list
\* v has h elements that were kept and those that were not met yet.
WalkedTo(a, kept, u, c, i, v, d, h) ==
    /\ Agrees(a.list, v, d)
    /\ h \in Nat /\ Len(v) = h + Len(u) - i
    /\ \A j \in 1..Len(u) - i : v[h + j] = u[i + j] /\ d[h + j] = c[i + j]
    /\ a = [list |-> a.list, prev |-> IF h = 0 THEN 0 ELSE v[h]]
    /\ kept \in Seq(Keys) /\ Len(kept) = h /\ \A j \in 1..h : kept[j] = d[j]

LEMMA OneWalked ==
    ASSUME NEW u, NEW c, Len(u) \in Nat, NEW i \in Nat, i < Len(u), class \in NoEnd,
           NEW a, NEW kept, NEW v, NEW d, NEW h, WalkedTo(a, kept, u, c, i, v, d, h)
    PROVE  \E w, e, g : WalkedTo(ErasedNormal(a, u[i + 1]),
                                 IF c[i + 1] \in PredefinedKeys THEN Append(kept, c[i + 1]) ELSE kept,
                                 u, c, i + 1, w, e, g)
<1> DEFINE n == u[i + 1]
           k == c[i + 1]
           l == a.list
           p == IF h = 0 THEN 0 ELSE v[h]
           r == h + 1
           f == Len(u) - i
<1>1. /\ Agrees(l, v, d) /\ h \in Nat /\ Len(v) = h + f
      /\ \A j \in 1..f : v[h + j] = u[i + j] /\ d[h + j] = c[i + j]
      /\ a = [list |-> l, prev |-> p]
      /\ kept \in Seq(Keys) /\ Len(kept) = h /\ \A j \in 1..h : kept[j] = d[j]
  <2>1. Len(v) = h + Len(u) - i => Len(v) = h + f
    BY DEF WalkedTo
  <2> QED
    BY <2>1 DEF WalkedTo
<1>2. f \in Nat /\ f >= 1 /\ f - 1 = Len(u) - (i + 1) /\ 1 \in 1..f
  OBVIOUS
<1>0. h \in Nat /\ Len(v) = h + f /\ r = h + 1
  BY <1>1
<1>3. v[r] = n /\ d[r] = k
  <2> HIDE DEF f
  <2> QED
    BY <1>1, <1>2
<1>4. r \in 1..Len(v) /\ Len(d) = Len(v) /\ d \in Seq(Keys) /\ v \in Seq(Nodes) /\ Len(v) \in Nat
  <2>1. Len(d) = Len(v) /\ d \in Seq(Keys) /\ v \in Seq(Nodes)
    BY <1>1 DEF Agrees, HasKeys, Chain
  <2> QED
    BY <1>1, <1>2, <2>1
<1>5. l.key[n] = k /\ k \in Keys
  <2>1. l.key[v[r]] = d[r]
    BY <1>1, <1>4 DEF Agrees, HasKeys
  <2>2. d[r] \in Keys
    BY <1>4
  <2> QED
    BY <1>3, <2>1, <2>2
<1>6. CASE k \in PredefinedKeys
  <2> DEFINE b == ErasedNormal(a, n)
             kk == Append(kept, k)
  <2>1. b = [list |-> l, prev |-> n]
    <3>1. b = [a EXCEPT !.prev = n]
      BY <1>5, <1>6 DEF ErasedNormal
    <3> HIDE DEF b, l, p, n
    <3> QED
      BY <1>1, <3>1
  <2>2. kk \in Seq(Keys) /\ Len(kk) = r /\ \A j \in 1..r : kk[j] = d[j]
    <3>1. kk \in Seq(Keys) /\ Len(kk) = h + 1 /\ kk[h + 1] = k /\ \A j \in 1..h : kk[j] = kept[j]
      BY <1>1, <1>5, AppendProperties
    <3>2. \A j \in 1..r : j = r \/ j \in 1..h
      BY <1>1
    <3> HIDE DEF kk, k
    <3> QED
      BY <1>1, <1>3, <3>1, <3>2
  <2>3. \A j \in 1..f - 1 : v[r + j] = u[i + 1 + j] /\ d[r + j] = c[i + 1 + j]
    <3> SUFFICES ASSUME NEW j \in 1..f - 1
                 PROVE  v[r + j] = u[i + 1 + j] /\ d[r + j] = c[i + 1 + j]
      OBVIOUS
    <3> DEFINE m == j + 1
    <3>1. m \in 1..f
      BY <1>2
    <3>2. h + m = r + j /\ i + m = i + 1 + j
      BY <1>0
    <3> HIDE DEF m, f
    <3> QED
      BY <1>1, <3>1, <3>2
  <2>4. r \in Nat /\ r # 0 /\ Len(v) = r + Len(u) - (i + 1)
    <3> HIDE DEF l, k, n, p
    <3> QED
      BY <1>0
  <2>5. b.list = l /\ b = [list |-> b.list, prev |-> IF r = 0 THEN 0 ELSE v[r]]
    <3> HIDE DEF b, l, n, r
    <3> QED
      BY <1>3, <2>1, <2>4
  <2>6. WalkedTo(b, kk, u, c, i + 1, v, d, r)
    <3> HIDE DEF b, l, n, r, kk, p, k
    <3> QED
      BY <1>1, <1>2, <2>2, <2>3, <2>4, <2>5 DEF WalkedTo
  <2> QED
    BY <1>6, <2>6
<1>7. CASE k \notin PredefinedKeys
  <2> DEFINE b == ErasedNormal(a, n)
             q == l.next[n]
             m == [l EXCEPT !.first = IF @ = n THEN q ELSE @,
                            !.next  = IF p = 0 THEN @ ELSE [@ EXCEPT ![p] = q],
                            !.cnt   = @ - 1]
             w == RemoveAt(v, r)
             e == RemoveAt(d, r)
  <2>1. b = [list |-> Free(m, n), prev |-> p]
    <3>1. a.prev = p
      BY <1>1
    <3>2. b = [a EXCEPT !.list = Free([l EXCEPT
                 !.first = IF @ = n THEN q ELSE @,
                 !.next  = IF a.prev = 0 THEN @ ELSE [@ EXCEPT ![a.prev] = q],
                 !.cnt   = @ - 1], n)]
      <4>1. ~(a.list.key[n] \in PredefinedKeys)
        BY <1>5, <1>7
      <4> QED
        BY <4>1, Zenon DEF ErasedNormal
    <3>3. b = [a EXCEPT !.list = Free(m, n)]
      <4> HIDE DEF b, n, q, l, p
      <4> QED
        BY <3>1, <3>2
    <3> HIDE DEF b, m, n, p, l
    <3> QED
      BY <1>1, <3>3
  <2>2. p = IF r = 1 THEN 0 ELSE v[r - 1]
    BY <1>1
  <2>3. Unlinks(l, m, v, r)
    <3>1. Unlinks(l, [l EXCEPT !.first = IF @ = v[r] THEN l.next[v[r]] ELSE @,
                               !.next  = IF p = 0 THEN @ ELSE [@ EXCEPT ![p] = l.next[v[r]]],
                               !.cnt   = @ - 1], v, r)
      <4> HIDE DEF p, r, l
      <4> QED
        BY <1>1, <1>4, <2>2, PassedOverUnlinks
    <3> QED
      BY <1>3, <3>1
  <2>4. Agrees(Free(m, n), w, e)
    <3>1. Agrees(Free(m, v[r]), w, e)
      <4> HIDE DEF m, r, l
      <4> QED
        BY <1>1, <1>4, <2>3, UnlinkedAgrees
    <3> HIDE DEF m, w, e, r, n
    <3> QED
      BY <1>3, <3>1
  <2>5. /\ Len(w) = Len(v) - 1
        /\ \A j \in 1..Len(v) - 1 : /\ w[j] = IF j < r THEN v[j] ELSE v[j + 1]
                                    /\ e[j] = IF j < r THEN d[j] ELSE d[j + 1]
    <3>1. r \in 1..Len(d)
      BY <1>4
    <3> HIDE DEF r, l, b, p, f, k, n
    <3>2. /\ Len(w) = Len(v) - 1
          /\ \A j \in 1..Len(v) - 1 : w[j] = IF j < r THEN v[j] ELSE v[j + 1]
      BY <1>4, WithoutElement
    <3>3. \A j \in 1..Len(d) - 1 : e[j] = IF j < r THEN d[j] ELSE d[j + 1]
      BY <1>4, <3>1, WithoutElement
    <3> HIDE DEF w, e
    <3> QED
      BY <1>4, <3>2, <3>3
  <2>6. \A j \in 1..f - 1 : w[h + j] = u[i + 1 + j] /\ e[h + j] = c[i + 1 + j]
    <3> SUFFICES ASSUME NEW j \in 1..f - 1
                 PROVE  w[h + j] = u[i + 1 + j] /\ e[h + j] = c[i + 1 + j]
      OBVIOUS
    <3> DEFINE s == j + 1
               t == h + j
    <3>0. s \in 1..f /\ i + s = i + 1 + j /\ j \in Nat /\ j >= 1 /\ j <= f - 1
      BY <1>2
    <3>1. /\ s \in 1..f /\ h + s = t + 1 /\ i + s = i + 1 + j
          /\ t \in 1..Len(v) - 1 /\ ~(t < r)
      <4>1. f \in Nat
        BY <1>2
      <4> HIDE DEF f
      <4> QED
        BY <1>0, <3>0, <4>1
    <3> HIDE DEF s, f, t, w, e
    <3>2. w[t] = v[t + 1] /\ e[t] = d[t + 1]
      BY <2>5, <3>1
    <3>3. v[h + s] = u[i + s] /\ d[h + s] = c[i + s]
      BY <1>1, <3>1
    <3>4. w[t] = u[i + 1 + j] /\ e[t] = c[i + 1 + j]
      BY <3>1, <3>2, <3>3
    <3> QED
      BY <3>4 DEF t
  <2>7. Len(w) = h + Len(u) - (i + 1)
    BY <1>1, <1>2, <2>5
  <2>8. h # 0 => w[h] = v[h]
    <3>1. h # 0 => h \in 1..Len(v) - 1 /\ h < r
      BY <1>1, <1>2
    <3> HIDE DEF w
    <3> QED
      BY <2>5, <3>1
  <2>9. \A j \in 1..h : kept[j] = e[j]
    <3> SUFFICES ASSUME NEW j \in 1..h PROVE kept[j] = e[j]
      OBVIOUS
    <3>1. j \in 1..Len(v) - 1 /\ j < r
      BY <1>1, <1>2
    <3> HIDE DEF e
    <3> QED
      BY <1>1, <2>5, <3>1
  <2>10. b.list = Free(m, n) /\ b = [list |-> b.list, prev |-> IF h = 0 THEN 0 ELSE w[h]]
    <3>1. p = IF h = 0 THEN 0 ELSE w[h]
      <4> HIDE DEF w
      <4> QED
        BY <2>8
    <3> HIDE DEF b, m, n, p, w
    <3> QED
      BY <2>1, <3>1
  <2>11. WalkedTo(b, kept, u, c, i + 1, w, e, h)
    <3> HIDE DEF b, m, n, w, e
    <3> QED
      BY <1>1, <1>2, <2>4, <2>6, <2>7, <2>9, <2>10 DEF WalkedTo
  <2> QED
    BY <1>7, <2>11
<1> QED
  BY <1>6, <1>7

LEMMA EraseNormalAgrees ==
    ASSUME NEW l, NEW u, NEW c, Agrees(l, u, c), class \in NoEnd
    PROVE  \E v : Agrees(WalkErasing(l, u)[Len(u)].list, v, OfPredefined(c))
<1> DEFINE at == WalkErasing(l, u)
           kept == WalkKeeping(c)
           S == {i \in 0..Len(u) : \E v, d, h : WalkedTo(at[i], kept[i], u, c, i, v, d, h)}
<1>1. Len(u) \in Nat /\ Len(c) = Len(u) /\ c \in Seq(Keys)
  BY ChainElements DEF Agrees, HasKeys
<1>2. /\ at[0] = [list |-> l, prev |-> 0]
      /\ \A i \in 1..Len(u) : at[i] = ErasedNormal(at[i - 1], u[i])
  BY <1>1, WalkErasingIs
<1>3. /\ kept[0] = <<>>
      /\ \A i \in 1..Len(u) :
            kept[i] = IF c[i] \in PredefinedKeys THEN Append(kept[i - 1], c[i]) ELSE kept[i - 1]
  BY <1>1, WalkKeepingIs
<1> HIDE DEF at, kept
<1>4. 0 \in S
  <2>1. WalkedTo(at[0], kept[0], u, c, 0, u, c, 0)
    <3>1. at[0].list = l /\ at[0] = [list |-> at[0].list, prev |-> IF 0 = 0 THEN 0 ELSE u[0]]
      BY <1>2
    <3>2. Len(u) = 0 + Len(u) - 0 /\ \A j \in 1..Len(u) - 0 : 0 + j = j
      BY <1>1
    <3>3. kept[0] \in Seq(Keys) /\ Len(kept[0]) = 0 /\ \A j \in 1..0 : kept[0][j] = c[j]
      BY <1>3
    <3> QED
      BY <3>1, <3>2, <3>3 DEF WalkedTo
  <2> QED
    BY <1>1, <2>1
<1>5. \A i \in 0..Len(u) - 1 : i \in S => i + 1 \in S
  <2> SUFFICES ASSUME NEW i \in 0..Len(u) - 1, i \in S PROVE i + 1 \in S
    OBVIOUS
  <2>1. PICK v, d, h : WalkedTo(at[i], kept[i], u, c, i, v, d, h)
    OBVIOUS
  <2>2. i \in Nat /\ i < Len(u) /\ i + 1 \in 1..Len(u) /\ (i + 1) - 1 = i /\ i + 1 \in 0..Len(u)
    BY <1>1
  <2>3. at[i + 1] = ErasedNormal(at[i], u[i + 1])
    BY <1>2, <2>2
  <2>4. kept[i + 1] = IF c[i + 1] \in PredefinedKeys THEN Append(kept[i], c[i + 1]) ELSE kept[i]
    BY <1>3, <2>2
  <2>5. \E w, e, g : WalkedTo(at[i + 1], kept[i + 1], u, c, i + 1, w, e, g)
    BY <1>1, <2>1, <2>2, <2>3, <2>4, OneWalked
  <2> QED
    BY <2>2, <2>5
<1>6. Len(u) \in S
  <2> HIDE DEF S
  <2>1. 0..Len(u) \subseteq S
    BY <1>1, <1>4, <1>5, IntervalInduction
  <2> QED
    BY <1>1, <2>1
<1>7. PICK v, d, h : WalkedTo(at[Len(u)], kept[Len(u)], u, c, Len(u), v, d, h)
  BY <1>6
<1>8. /\ Agrees(at[Len(u)].list, v, d) /\ h \in Nat /\ Len(v) = h + Len(u) - Len(u)
      /\ kept[Len(u)] \in Seq(Keys) /\ Len(kept[Len(u)]) = h
      /\ \A j \in 1..h : kept[Len(u)][j] = d[j]
  BY <1>7 DEF WalkedTo
<1>9. d \in Seq(Keys) /\ Len(d) = Len(v)
  BY <1>8 DEF Agrees, HasKeys
<1>10. kept[Len(u)] = d
  <2> DEFINE k == kept[Len(u)]
  <2>1. Len(d) = h /\ Len(k) = h /\ \A j \in 1..h : k[j] = d[j]
    <3>1. ASSUME NEW r \in Nat, NEW s \in Nat PROVE r + s - s = r
      OBVIOUS
    <3>2. h \in Nat /\ Len(u) \in Nat
      BY <1>1, <1>8
    <3>3. Len(v) = h
      BY <1>8, <3>1, <3>2
    <3> QED
      BY <1>8, <1>9, <3>3
  <2>a. k \in Seq(Keys)
    BY <1>8
  <2> HIDE DEF k
  <2>2. k = [j \in 1..Len(k) |-> k[j]] /\ d = [j \in 1..Len(d) |-> d[j]]
    BY ONLY <1>9, <2>a
  <2>3. k = d
    BY <2>1, <2>2
  <2> QED
    BY <2>3 DEF k
<1>11. OfPredefined(c) = kept[Len(u)]
  <2>1. OfPredefined(c) = WalkKeeping(c)[Len(c)]
    BY DEF OfPredefined, WalkKeeping
  <2> QED
    BY <1>1, <2>1 DEF kept
<1> QED
  BY <1>8, <1>10, <1>11 DEF at

LEMMA KeptIsShorter ==
    ASSUME NEW c \in Seq(Keys)
    PROVE  Len(OfPredefined(c)) <= Len(c)
<1> DEFINE kept == WalkKeeping(c)
           S == {i \in 0..Len(c) : kept[i] \in Seq(Keys) /\ Len(kept[i]) <= i}
<1>1. Len(c) \in Nat
  OBVIOUS
<1>2. /\ kept[0] = <<>>
      /\ \A i \in 1..Len(c) :
            kept[i] = IF c[i] \in PredefinedKeys THEN Append(kept[i - 1], c[i]) ELSE kept[i - 1]
  BY <1>1, WalkKeepingIs
<1> HIDE DEF kept
<1>3. 0 \in S
  <2>1. <<>> \in Seq(Keys) /\ Len(<<>>) <= 0 /\ 0 \in 0..Len(c)
    BY <1>1
  <2> QED
    BY <1>2, <2>1
<1>4. \A i \in 0..Len(c) - 1 : i \in S => i + 1 \in S
  <2> SUFFICES ASSUME NEW i \in 0..Len(c) - 1, i \in S PROVE i + 1 \in S
    OBVIOUS
  <2> DEFINE k == kept[i]  s == i + 1
  <2>1. s \in 1..Len(c) /\ s - 1 = i /\ s \in 0..Len(c) /\ i \in Nat
    BY <1>1
  <2>2. kept[s] = IF c[s] \in PredefinedKeys THEN Append(k, c[s]) ELSE k
    <3> HIDE DEF s
    <3> QED
      BY <1>2, <2>1
  <2>3. k \in Seq(Keys) /\ Len(k) <= i /\ Len(k) \in Nat
    OBVIOUS
  <2>4. c[s] \in Keys
    <3> HIDE DEF s
    <3> QED
      BY <2>1
  <2>5. Append(k, c[s]) \in Seq(Keys) /\ Len(Append(k, c[s])) = Len(k) + 1
    <3> HIDE DEF k, s
    <3> QED
      BY <2>3, <2>4, AppendProperties
  <2>6. Len(k) + 1 <= s /\ Len(k) <= s
    BY <2>1, <2>3
  <2> HIDE DEF k, s
  <2>7. kept[s] \in Seq(Keys) /\ Len(kept[s]) <= s
    BY <2>2, <2>3, <2>5, <2>6
  <2>8. s \in S
    BY <2>1, <2>7
  <2> QED
    BY <2>8 DEF s
<1>5. Len(c) \in S
  <2> HIDE DEF S
  <2>1. 0..Len(c) \subseteq S
    BY <1>1, <1>3, <1>4, IntervalInduction
  <2> QED
    BY <1>1, <2>1
<1>6. OfPredefined(c) = kept[Len(c)]
  BY DEF OfPredefined, WalkKeeping, kept
<1> QED
  BY <1>5, <1>6

----------------------------------------------------------------------------
(* The invariant. *)

\* The list l is the sequence c of the keys of some elements, within the limit of its class.
Stands(l, c) ==
    /\ \E u : Agrees(l, u, c)
    /\ class \in Limited => Len(c) <= Limit

ListInv == Stands(list, contents)

LEMMA EmptyStands == Stands(EmptyList, <<>>)
<1> DEFINE z == [n \in Nodes |-> 0]
<1>1. EmptyList \in Memories
  <2>1. z \in [Nodes -> Int]
    OBVIOUS
  <2>2. <<>> \in KeysOfNodes
    <3>1. <<>> \in [{} -> Keys]
      OBVIOUS
    <3> QED
      BY <3>1 DEF KeysOfNodes
  <2> HIDE DEF z
  <2>3. EmptyList = [first |-> 0, last |-> 0, next |-> z, prev |-> z, cnt |-> 0, live |-> {},
                     key |-> <<>>]
    BY DEF EmptyList, z
  <2> QED
    BY <2>1, <2>2, <2>3 DEF Memories
<1>2. EmptyList.first = 0 /\ EmptyList.cnt = 0
  BY DEF EmptyList
<1>3. Len(<<>>) = 0 /\ <<>> \in Seq(Nodes) /\ <<>> \in Seq(Keys)
  OBVIOUS
<1> HIDE DEF EmptyList
<1>4. Agrees(EmptyList, <<>>, <<>>)
  BY <1>1, <1>2, <1>3 DEF Agrees, Chain, HasKeys, EndKnown, BackKnown, HeadKnown
<1>5. 0 <= Limit
  BY ListsAssumption DEF Limit
<1> QED
  BY <1>3, <1>4, <1>5 DEF Stands

LEMMA StandingLength ==
    ASSUME NEW l, NEW c, Stands(l, c)
    PROVE  l.cnt = Len(c) /\ Len(c) \in Nat /\ c \in Seq(Keys)
<1>1. PICK u : Agrees(l, u, c)
  BY DEF Stands
<1>2. Len(u) \in Nat /\ Len(c) = Len(u) /\ l.cnt = Len(u) /\ c \in Seq(Keys)
  BY <1>1, ChainElements DEF Agrees, HasKeys
<1> QED
  BY <1>2

\* Within the limit after one more, as the test of the class has it.
Room(l) ==
    /\ class \in {"Que", "Topics"} => l.cnt < MaxElements
    /\ class \in {"TopicIdMap", "MessageIdTable", "ClientList"} => l.cnt <= MaxElements

LEMMA OneMore ==
    ASSUME NEW l, NEW c, Stands(l, c), Room(l), NEW k \in Keys
    PROVE  class \in Limited => Len(Append(c, k)) <= Limit
<1>1. l.cnt = Len(c) /\ Len(c) \in Nat /\ c \in Seq(Keys)
  BY StandingLength
<1>2. Len(Append(c, k)) = Len(c) + 1
  BY <1>1, AppendProperties
<1>3. MaxElements \in Nat
  BY ListsAssumption
<1> QED
  BY <1>1, <1>2, <1>3 DEF Limited, Limit, Room

LEMMA LinkedStands ==
    ASSUME NEW l, NEW c, Stands(l, c), Room(l), NEW k \in Keys, class \notin NoEnd,
           NEW n \in Nodes, n \notin l.live
    PROVE  /\ Stands(Linked(Alloc(l, n, k), n), Append(c, k))
           /\ class = "LTopicTable" =>
                 Stands([Linked(Alloc(l, n, k), n) EXCEPT !.prev[n] = 0], Append(c, k))
<1> DEFINE a == Alloc(l, n, k)
           m == Linked(a, n)
<1>1. PICK u : Agrees(l, u, c)
  BY DEF Stands
<1>2. Agrees(a, u, c) /\ IsNew(a, u, n, k)
  BY <1>1, AllocAgrees
<1> HIDE DEF a
<1>3. AppendsTo(a, m, u, n)
  BY <1>2, LinkedAppends
<1> HIDE DEF m
<1>4. Agrees(m, Append(u, n), Append(c, k))
  BY <1>2, <1>3, AppendedAgrees
<1>5. class \in Limited => Len(Append(c, k)) <= Limit
  BY OneMore
<1>6. class = "LTopicTable" => Agrees([m EXCEPT !.prev[n] = 0], Append(u, n), Append(c, k))
  <2>1. class = "LTopicTable" => class \notin BackClasses
    BY DEF BackClasses, LinkedBack
  <2> QED
    BY <1>4, <2>1, PointerBackReset
<1> QED
  BY <1>4, <1>5, <1>6 DEF Stands, a, m

LEMMA LinkedAtEndStands ==
    ASSUME NEW l, NEW c, Stands(l, c), Room(l), NEW k \in Keys, class \in NoEnd,
           NEW n \in Nodes, n \notin l.live
    PROVE  Stands(LinkedAtEnd(Alloc(l, n, k), n), Append(c, k))
<1> DEFINE a == Alloc(l, n, k)
           m == LinkedAtEnd(a, n)
<1>1. PICK u : Agrees(l, u, c)
  BY DEF Stands
<1>2. Agrees(a, u, c) /\ IsNew(a, u, n, k)
  BY <1>1, AllocAgrees
<1> HIDE DEF a
<1>3. AppendsTo(a, m, u, n)
  BY <1>2, LinkedAtEndAppends
<1> HIDE DEF m
<1>4. Agrees(m, Append(u, n), Append(c, k))
  BY <1>2, <1>3, AppendedAgrees
<1>5. class \in Limited => Len(Append(c, k)) <= Limit
  BY OneMore
<1> QED
  BY <1>4, <1>5 DEF Stands, a, m

LEMMA UnlinkedStands ==
    ASSUME NEW l, NEW c, Stands(l, c), NEW u, Agrees(l, u, c), NEW i \in 1..Len(u), NEW m,
           Unlinks(l, m, u, i)
    PROVE  /\ Stands(Free(m, u[i]), RemoveAt(c, i))
           /\ Free(m, u[i]).cnt = l.cnt - 1
<1>1. Agrees(Free(m, u[i]), RemoveAt(u, i), RemoveAt(c, i))
  BY UnlinkedAgrees
<1>2. c \in Seq(Keys) /\ Len(c) = Len(u) /\ Len(u) \in Nat
  BY ChainElements DEF Agrees, HasKeys
<1>3. Len(RemoveAt(c, i)) = Len(c) - 1
  <2>1. i \in 1..Len(c)
    BY <1>2
  <2> QED
    BY <1>2, <2>1, WithoutElement
<1>4. class \in Limited => Len(RemoveAt(c, i)) <= Limit
  <2>1. Limit \in Nat
    BY ListsAssumption DEF Limit
  <2>2. class \in Limited => Len(c) <= Limit
    BY DEF Stands
  <2> QED
    BY <1>2, <1>3, <2>1, <2>2
<1>5. Free(m, u[i]).cnt = l.cnt - 1
  <2>1. m \in Memories /\ u[i] \in Nodes /\ m.cnt = l.cnt - 1
    BY ChainElements DEF Agrees, Unlinks
  <2>2. Free(m, u[i]).cnt = m.cnt
    BY <2>1, FreedFields
  <2> QED
    BY <2>1, <2>2
<1> QED
  BY <1>1, <1>4, <1>5 DEF Stands

----------------------------------------------------------------------------
(* One step of each operation. *)

LEMMA StepQuePost ==
    ASSUME ListInv, NEW k \in Keys, QuePost(k) PROVE Stands(list', contents')
<1>1. Room(list) /\ class \notin NoEnd
  BY DEF QuePost, Room, NoEnd
<1> QED
  BY <1>1, LinkedStands DEF ListInv, QuePost, Put

LEMMA StepListAdd ==
    ASSUME ListInv, NEW k \in Keys, ListAdd(k) PROVE Stands(list', contents')
<1>1. Room(list) /\ class \notin NoEnd
  BY DEF ListAdd, Room, NoEnd
<1> QED
  BY <1>1, LinkedStands DEF ListInv, ListAdd, Put

LEMMA StepSetPacket ==
    ASSUME ListInv, NEW k \in Keys, SetPacket(k) PROVE Stands(list', contents')
<1>1. Room(list) /\ class \notin NoEnd
  BY DEF SetPacket, Room, NoEnd
<1> QED
  BY <1>1, LinkedStands DEF ListInv, SetPacket, Put

LEMMA StepMessageIdTableAdd ==
    ASSUME ListInv, NEW k \in Keys, MessageIdTableAdd(k) PROVE Stands(list', contents')
<1>1. Room(list) /\ class \notin NoEnd
  BY DEF MessageIdTableAdd, Room, NoEnd
<1> QED
  BY <1>1, LinkedStands DEF ListInv, MessageIdTableAdd, Put

LEMMA StepCreateClient ==
    ASSUME ListInv, NEW k \in Keys, createClient(k) PROVE Stands(list', contents')
<1>1. Room(list) /\ class \notin NoEnd
  BY DEF createClient, Room, NoEnd
<1> QED
  BY <1>1, LinkedStands DEF ListInv, createClient, Put

LEMMA StepCreatePredefinedTopic ==
    ASSUME ListInv, NEW k \in Keys, createPredefinedTopic(k) PROVE Stands(list', contents')
<1>1. Room(list) /\ class \notin NoEnd
  BY DEF createPredefinedTopic, Room, NoEnd
<1> QED
  BY <1>1, LinkedStands DEF ListInv, createPredefinedTopic, Put

LEMMA StepTopicsAdd ==
    ASSUME ListInv, NEW k \in Keys, TopicsAdd(k) PROVE Stands(list', contents')
<1>1. Room(list) /\ class \in NoEnd
  BY DEF TopicsAdd, Room, NoEnd
<1> QED
  BY <1>1, LinkedAtEndStands DEF ListInv, TopicsAdd, Put

LEMMA StepForwarderAdd ==
    ASSUME ListInv, NEW k \in Keys, ForwarderAdd(k) PROVE Stands(list', contents')
<1>1. Room(list) /\ class \in NoEnd
  BY DEF ForwarderAdd, Room, NoEnd
<1> QED
  BY <1>1, LinkedAtEndStands DEF ListInv, ForwarderAdd, Put

LEMMA StepAddClient ==
    ASSUME ListInv, NEW k \in Keys, addClient(k) PROVE Stands(list', contents')
<1>1. Room(list) /\ class \in NoEnd
  BY DEF addClient, Room, NoEnd
<1>2. CASE Find(list, k) = {}
  BY <1>1, <1>2, LinkedAtEndStands DEF ListInv, addClient, Put
<1>3. CASE Find(list, k) # {}
  BY <1>3 DEF ListInv, addClient, listVars
<1> QED
  BY <1>2, <1>3

LEMMA StepAggregateAdd ==
    ASSUME ListInv, NEW k \in Keys, AggregateAdd(k) PROVE Stands(list', contents')
<1>1. Room(list) /\ class \notin NoEnd
  BY DEF AggregateAdd, Room, NoEnd
<1> QED
  BY <1>1, LinkedStands DEF ListInv, AggregateAdd, Put

LEMMA StepLTopicTableAdd ==
    ASSUME ListInv, NEW k \in Keys, LTopicTableAdd(k) PROVE Stands(list', contents')
<1>1. Room(list) /\ class \notin NoEnd
  BY DEF LTopicTableAdd, Room, NoEnd
<1>2. PICK n \in Nodes \ list.live : list' = [Linked(Alloc(list, n, k), n) EXCEPT !.prev[n] = 0]
  BY DEF LTopicTableAdd, Put
<1>3. class = "LTopicTable" /\ contents' = Append(contents, k) /\ Stands(list, contents)
  BY DEF LTopicTableAdd, Put, ListInv
<1>4. Stands([Linked(Alloc(list, n, k), n) EXCEPT !.prev[n] = 0], Append(contents, k))
  BY <1>1, <1>2, <1>3, LinkedStands
<1> QED
  BY <1>2, <1>3, <1>4

\* What the operations that take an element out have in common.
LEMMA TakenOut ==
    ASSUME ListInv, NEW u, Agrees(list, u, contents), NEW i \in 1..Len(u), NEW n, n = u[i],
           NEW m, Unlinks(list, m, u, i), list' = Free(m, n),
           contents' = RemoveAt(contents, PlaceOf(list, n))
    PROVE  Stands(list', contents')
<1>1. PlaceOf(list, n) = i
  BY PlaceOfElement
<1>2. Stands(Free(m, u[i]), RemoveAt(contents, i))
  BY UnlinkedStands DEF ListInv
<1> QED
  BY <1>1, <1>2

LEMMA StepQuePop ==
    ASSUME ListInv, QuePop PROVE Stands(list', contents')
<1>1. PICK u : Agrees(list, u, contents)
  BY DEF ListInv, Stands
<1>2. list.first = (IF Len(u) = 0 THEN 0 ELSE u[1]) /\ Len(u) \in Nat
  BY <1>1, ChainElements DEF Agrees, Chain
<1>3. Len(u) # 0 /\ 1 \in 1..Len(u) /\ list.first = u[1]
  BY <1>2 DEF QuePop
<1>4. Unlinks(list, Popped(list, list.first), u, 1)
  BY <1>1, <1>3, PoppedUnlinks DEF QuePop
<1> DEFINE n == list.first
<1>5. /\ list' = Free(Popped(list, n), n)
      /\ contents' = RemoveAt(contents, PlaceOf(list, n))
  BY DEF QuePop, TakeOut, PlaceOf
<1> HIDE DEF n
<1> QED
  BY <1>1, <1>3, <1>4, <1>5, TakenOut DEF n

LEMMA StepListErase ==
    ASSUME ListInv, ListErase PROVE Stands(list', contents')
<1>1. PICK u : Agrees(list, u, contents)
  BY DEF ListInv, Stands
<1>2. PICK n \in ToSet(Walk(list)) : TakeOut(n, ErasedElm)
  BY DEF ListErase
<1>3. PICK i \in 1..Len(u) : n = u[i]
  <2>1. Walk(list) = u /\ DOMAIN u = 1..Len(u)
    BY <1>1, WalkIs DEF Agrees, Chain
  <2> QED
    BY <1>2, <2>1 DEF ToSet
<1>4. Unlinks(list, ErasedElm(list, n), u, i)
  BY <1>1, <1>3, ErasedElmUnlinks DEF ListErase
<1>5. /\ list' = Free(ErasedElm(list, n), n)
      /\ contents' = RemoveAt(contents, PlaceOf(list, n))
  BY <1>2 DEF TakeOut, PlaceOf
<1> QED
  BY <1>1, <1>3, <1>4, <1>5, TakenOut

\* An element found by its key is one of the list.
LEMMA FoundElement ==
    ASSUME NEW u, Agrees(list, u, contents), NEW k, NEW n \in Find(list, k)
    PROVE  \E i \in 1..Len(u) : n = u[i]
BY Found

LEMMA StepErasePacket ==
    ASSUME ListInv, NEW k \in Keys, ErasePacket(k) PROVE Stands(list', contents')
<1>1. PICK u : Agrees(list, u, contents)
  BY DEF ListInv, Stands
<1>2. PICK n \in Find(list, k) : TakeOut(n, Unlinked)
  BY DEF ErasePacket
<1>3. PICK i \in 1..Len(u) : n = u[i]
  BY <1>1, <1>2, FoundElement
<1>4. Unlinks(list, Unlinked(list, n), u, i)
  BY <1>1, <1>3, UnlinkedUnlinks DEF ErasePacket, LinkedBack
<1>5. /\ list' = Free(Unlinked(list, n), n)
      /\ contents' = RemoveAt(contents, PlaceOf(list, n))
  BY <1>2 DEF TakeOut, PlaceOf
<1> QED
  BY <1>1, <1>3, <1>4, <1>5, TakenOut

LEMMA StepEraseFromClientList ==
    ASSUME ListInv, NEW k \in Keys, EraseFromClientList(k) PROVE Stands(list', contents')
<1>1. PICK u : Agrees(list, u, contents)
  BY DEF ListInv, Stands
<1>2. PICK n \in Find(list, k) : TakeOut(n, Unlinked)
  BY DEF EraseFromClientList
<1>3. PICK i \in 1..Len(u) : n = u[i]
  BY <1>1, <1>2, FoundElement
<1>4. Unlinks(list, Unlinked(list, n), u, i)
  BY <1>1, <1>3, UnlinkedUnlinks DEF EraseFromClientList, LinkedBack
<1>5. /\ list' = Free(Unlinked(list, n), n)
      /\ contents' = RemoveAt(contents, PlaceOf(list, n))
  BY <1>2 DEF TakeOut, PlaceOf
<1> QED
  BY <1>1, <1>3, <1>4, <1>5, TakenOut

LEMMA StepTopicIdMapErase ==
    ASSUME ListInv, NEW k \in Keys, TopicIdMapErase(k) PROVE Stands(list', contents')
<1>1. PICK u : Agrees(list, u, contents)
  BY DEF ListInv, Stands
<1>2. PICK n \in Find(list, k) : TakeOut(n, Unlinked)
  BY DEF TopicIdMapErase
<1>3. PICK i \in 1..Len(u) : n = u[i]
  BY <1>1, <1>2, FoundElement
<1>4. Unlinks(list, Unlinked(list, n), u, i)
  BY <1>1, <1>3, UnlinkedUnlinks DEF TopicIdMapErase, LinkedBack
<1>5. /\ list' = Free(Unlinked(list, n), n)
      /\ contents' = RemoveAt(contents, PlaceOf(list, n))
  BY <1>2 DEF TakeOut, PlaceOf
<1> QED
  BY <1>1, <1>3, <1>4, <1>5, TakenOut

LEMMA StepMessageIdTableErase ==
    ASSUME ListInv, NEW k \in Keys, MessageIdTableErase(k) PROVE Stands(list', contents')
<1>1. PICK u : Agrees(list, u, contents)
  BY DEF ListInv, Stands
<1>2. PICK n \in Find(list, k) : TakeOut(n, ClearedMessageId)
  BY DEF MessageIdTableErase
<1>3. PICK i \in 1..Len(u) : n = u[i]
  BY <1>1, <1>2, FoundElement
<1>4. Unlinks(list, Unlinked(list, n), u, i)
  BY <1>1, <1>3, UnlinkedUnlinks DEF MessageIdTableErase, LinkedBack
<1>5. ClearedMessageId(list, n) = Unlinked(list, n)
  <2>1. list \in Memories /\ n \in Nodes
    BY <1>1, <1>3, Neighbours
  <2> QED
    BY <2>1, ClearedIsUnlinked
<1>6. /\ list' = Free(Unlinked(list, n), n)
      /\ contents' = RemoveAt(contents, PlaceOf(list, n))
  BY <1>2, <1>5 DEF TakeOut, PlaceOf
<1> QED
  BY <1>1, <1>3, <1>4, <1>6, TakenOut

LEMMA StepTopicIdMapClear ==
    ASSUME ListInv, TopicIdMapClear PROVE Stands(list', contents')
BY EmptyStands DEF TopicIdMapClear

LEMMA StepTopicIdMapAdd ==
    ASSUME ListInv, NEW k \in Keys, TopicIdMapAdd(k) PROVE Stands(list', contents')
<1>1. PICK u : Agrees(list, u, contents)
  BY DEF ListInv, Stands
<1>2. class = "TopicIdMap" /\ class \notin NoEnd /\ class \in LinkedBack /\ list.cnt <= MaxElements
  BY DEF TopicIdMapAdd, NoEnd, LinkedBack
<1> DEFINE old  == Find(list, k)
           rest == IF old = {} THEN list
                   ELSE LET n == CHOOSE n \in old : TRUE IN Free(Unlinked(list, n), n)
           keys == RemoveFirst(contents, k)
<1>3. /\ \E n \in Nodes \ rest.live : list' = Linked(Alloc(rest, n, k), n)
      /\ contents' = Append(keys, k)
  BY DEF TopicIdMapAdd
<1>4. contents \in Seq(Keys) /\ list.cnt \in Int /\ MaxElements \in Int
  <2>1. list \in Memories
    BY <1>1 DEF Agrees
  <2>2. MaxElements \in Int
    BY ListsAssumption
  <2> QED
    BY <1>1, <2>1, <2>2, MemoryFields DEF Agrees, HasKeys
<1>5. Stands(rest, keys) /\ rest.cnt <= MaxElements
  <2>1. CASE old = {}
    <3>1. \A i \in 1..Len(contents) : contents[i] # k
      BY <1>1, <2>1, Found
    <3>2. rest = list
      BY <2>1
    <3>3. keys = contents
      BY <1>4, <3>1, FirstRemoved
    <3> QED
      BY <1>2, <3>2, <3>3 DEF ListInv
  <2>2. CASE old # {}
    <3>1. PICK i \in 1..Len(u) : old = {u[i]} /\ Oldest(contents, k, i)
      BY <1>1, <2>2, Found
    <3> DEFINE n == CHOOSE n \in old : TRUE
    <3>2. n = u[i]
      BY <3>1
    <3>3. rest = Free(Unlinked(list, n), n)
      BY <2>2
    <3>4. keys = RemoveAt(contents, i)
      BY <1>4, <3>1, FirstRemoved
    <3> HIDE DEF n, rest, keys
    <3>5. Unlinks(list, Unlinked(list, u[i]), u, i)
      BY <1>1, <1>2, UnlinkedUnlinks
    <3>6. /\ Stands(Free(Unlinked(list, u[i]), u[i]), RemoveAt(contents, i))
          /\ Free(Unlinked(list, u[i]), u[i]).cnt = list.cnt - 1
      BY <1>1, <3>5, UnlinkedStands DEF ListInv
    <3>7. list.cnt - 1 <= MaxElements
      BY <1>2, <1>4
    <3> QED
      BY <3>2, <3>3, <3>4, <3>6, <3>7
  <2> QED
    BY <2>1, <2>2
<1> HIDE DEF rest, keys
<1>6. Room(rest)
  BY <1>2, <1>5 DEF Room
<1> QED
  BY <1>2, <1>3, <1>5, <1>6, LinkedStands

\* eraseNormal keeps what is predefined, in its order.
LEMMA StepEraseNormal ==
    ASSUME ListInv, eraseNormal PROVE Stands(list', contents')
<1>1. PICK u : Agrees(list, u, contents)
  BY DEF ListInv, Stands
<1>2. class = "Topics" /\ class \in NoEnd
  BY DEF eraseNormal, NoEnd
<1>3. Walk(list) = u
  BY <1>1, WalkIs DEF Agrees
<1>4. list' = WalkErasing(list, u)[Len(u)].list /\ contents' = OfPredefined(contents)
  BY <1>3 DEF eraseNormal, WalkErasing
<1>5. PICK v : Agrees(list', v, contents')
  BY <1>1, <1>2, <1>4, EraseNormalAgrees
<1>6. Len(contents') <= Len(contents)
  BY <1>1, <1>4, KeptIsShorter DEF Agrees, HasKeys
<1>7. Len(contents) <= Limit /\ Limit \in Nat
  BY <1>2, ListsAssumption DEF ListInv, Stands, Limited, Limit
<1>8. Len(contents') \in Nat /\ Len(contents) \in Nat
  BY <1>1, <1>5 DEF Agrees, HasKeys
<1>9. Len(contents') <= Limit
  BY <1>6, <1>7, <1>8
<1> QED
  BY <1>5, <1>9 DEF Stands

----------------------------------------------------------------------------
(* The theorem. *)

LEMMA StepKeepsListInv ==
    ASSUME ListInv, [ListNext /\ UNCHANGED class]_<<class, listVars>>
    PROVE  ListInv'
<1>1. class' = class
  OBVIOUS
<1>2. Stands(list', contents')
  <2>1. CASE UNCHANGED listVars
    BY <2>1 DEF ListInv, listVars
  <2>2. CASE ListNext
    <3>1. CASE QuePop \/ ListErase \/ TopicIdMapClear \/ eraseNormal
      BY <3>1, StepQuePop, StepListErase, StepTopicIdMapClear, StepEraseNormal
    <3>2. ASSUME NEW k \in Keys,
                 \/ QuePost(k) \/ ListAdd(k) \/ SetPacket(k) \/ MessageIdTableAdd(k)
                 \/ createClient(k) \/ createPredefinedTopic(k) \/ TopicsAdd(k)
                 \/ ForwarderAdd(k) \/ LTopicTableAdd(k) \/ addClient(k) \/ AggregateAdd(k)
          PROVE  Stands(list', contents')
      BY <3>2, StepQuePost, StepListAdd, StepSetPacket, StepMessageIdTableAdd, StepCreateClient,
         StepCreatePredefinedTopic, StepTopicsAdd, StepForwarderAdd, StepLTopicTableAdd,
         StepAddClient, StepAggregateAdd
    <3>3. ASSUME NEW k \in Keys,
                 \/ ErasePacket(k) \/ MessageIdTableErase(k) \/ EraseFromClientList(k)
                 \/ TopicIdMapErase(k) \/ TopicIdMapAdd(k)
          PROVE  Stands(list', contents')
      BY <3>3, StepErasePacket, StepMessageIdTableErase, StepEraseFromClientList,
         StepTopicIdMapErase, StepTopicIdMapAdd
    <3> QED
      BY <2>2, <3>1, <3>2, <3>3 DEF ListNext
  <2> QED
    BY <2>1, <2>2 DEF listVars
<1>3. PICK u : Agrees(list', u, contents')
  BY <1>2 DEF Stands
<1>4. Agrees(list, u, contents)'
  BY <1>1, <1>3 DEF Agrees, HasKeys, EndKnown, BackKnown, HeadKnown, Chain, Memories
<1>5. (class \in Limited => Len(contents) <= Limit)'
  BY <1>1, <1>2 DEF Stands, Limit, Limited
<1> QED
  BY <1>4, <1>5 DEF ListInv, Stands

LEMMA InvAgrees ==
    ASSUME ListInv
    PROVE  ListsAgree
<1>1. PICK u : Agrees(list, u, contents)
  BY DEF ListInv, Stands
<1>2. /\ Walk(list) = u /\ Len(u) \in Nat /\ DOMAIN u = 1..Len(u) /\ u \in Seq(Nodes)
      /\ contents \in Seq(Keys) /\ Len(contents) = Len(u)
  BY <1>1, WalkIs, ChainElements DEF Agrees, HasKeys, Chain
<1>3. ToSet(u) \subseteq list.live
  BY <1>1, <1>2 DEF ToSet, Agrees, HasKeys
<1>4. [i \in DOMAIN u |-> list.key[u[i]]] = contents
  <2>1. \A i \in 1..Len(u) : list.key[u[i]] = contents[i]
    BY <1>1 DEF Agrees, HasKeys
  <2>2. contents = [i \in 1..Len(u) |-> contents[i]]
    BY <1>2
  <2> QED
    BY <1>2, <2>1, <2>2
<1>5. list.cnt = Len(contents)
  BY <1>1, <1>2 DEF Agrees, HasKeys
<1>6. u # <<>> <=> Len(u) # 0
  BY <1>2
<1>7. class \notin {"Topics", "ForwarderList", "Forwarder"} /\ u # <<>> => list.last = Last(u)
  BY <1>1, <1>6 DEF Agrees, EndKnown, NoEnd, Last
<1>8. class \in LinkedBack \cup {"List", "AggregateTopicElement"} =>
         \A i \in 2..Len(u) : list.prev[u[i]] = u[i - 1]
  BY <1>1 DEF Agrees, BackKnown, BackClasses
<1>9. class \in LinkedBack /\ u # <<>> => list.prev[u[1]] = 0
  BY <1>1, <1>6 DEF Agrees, HeadKnown
<1>10. class \in Limited => Len(contents) <= Limit
  BY DEF ListInv, Stands
<1> QED
  BY <1>2, <1>3, <1>4, <1>5, <1>7, <1>8, <1>9, <1>10 DEF ListsAgree

\* In every order of the operations of a class, a search meets what was put in and not taken
\* out, oldest first, and never an element that was freed; the end, the counter and the
\* pointers back that the next operation relies on are right; the limit is kept.  For any
\* number of elements, keys and addresses.
THEOREM ListsAlwaysAgree == ListSpec => []ListsAgree
<1>1. ListInit => ListInv
  BY EmptyStands DEF ListInit, ListInv
<1>2. ListInv /\ [ListNext /\ UNCHANGED class]_<<class, listVars>> => ListInv'
  BY StepKeepsListInv
<1>3. ListInv => ListsAgree
  BY InvAgrees
<1> QED
  BY <1>1, <1>2, <1>3, PTL DEF ListSpec
================================================================================
