------------------------------- MODULE Tree23 -------------------------------
(***************************************************************************)
(* The 2-3 tree of MQTTSNGWProcess.h.  A node is a record, and the place   *)
(* of a node that a step replaces gets the new one, as in the code.  Two   *)
(* more types mark a node for the caller only: INSERT_ACTIVE, a node that  *)
(* is one level too high and is to be taken into its parent, and           *)
(* DELETE_ACTIVE, an empty node whose only child, midle, is one level too  *)
(* low.  A NULL has no fields: following one is an error that TLC reports. *)
(***************************************************************************)
EXTENDS Integers, FiniteSets, Functions

CONSTANTS TreeKeys, TreeValues

ASSUME TreeAssumption == TreeKeys \subseteq Int

VARIABLES
    tree,          \* _root
    map            \* what has been added and not removed since, a function on the keys

treeVars == <<tree, map>>

INSERT_ACTIVE == -2
DELETE_ACTIVE == -1
BI_NODE  == 2
TRI_NODE == 3

NULL   == [type |-> 0]
NoElm  == <<>>

Node(type, telm0, telm1, left, midle, right) ==
    [type |-> type, telm0 |-> telm0, telm1 |-> telm1,
     left |-> left, midle |-> midle, right |-> right]

Leaf(type, telm)            == Node(type, telm, NoElm, NULL, NULL, NULL)
Bi(telm, left, right)       == Node(BI_NODE, telm, NoElm, left, NULL, right)
Tri(telm0, telm1, l, m, r)  == Node(TRI_NODE, telm0, telm1, l, m, r)
Insert(telm, left, right)   == Node(INSERT_ACTIVE, telm, NoElm, left, NULL, right)
Delete(midle)               == Node(DELETE_ACTIVE, NoElm, NoElm, NULL, midle, NULL)

Inserted(n) == n.type = INSERT_ACTIVE
Deleted(n)  == n.type = DELETE_ACTIVE

----------------------------------------------------------------------------
(* What becomes of a node after something was added below it. *)

addLeft2(node) ==
    LET n == node.left
    IN  IF Inserted(n) THEN Tri(n.telm0, node.telm0, n.left, n.right, node.right) ELSE node

addRight2(node) ==
    LET n == node.right
    IN  IF Inserted(n) THEN Tri(node.telm0, n.telm0, node.left, n.left, n.right) ELSE node

addLeft3(node) ==
    LET n == node.left
    IN  IF Inserted(n)
        THEN Insert(node.telm0, [n EXCEPT !.type = BI_NODE], Bi(node.telm1, node.midle, node.right))
        ELSE node

addRight3(node) ==
    LET n == node.right
    IN  IF Inserted(n)
        THEN Insert(node.telm1, Bi(node.telm0, node.left, node.midle), [n EXCEPT !.type = BI_NODE])
        ELSE node

addMidle3(node) ==
    LET n == node.midle
    IN  IF Inserted(n)
        THEN [n EXCEPT !.left  = Bi(node.telm0, node.left, n.left),
                       !.right = Bi(node.telm1, n.right, node.right)]
        ELSE node

RECURSIVE Added(_, _)
Added(n, elm) ==
    LET k == elm.key
    IN  CASE n = NULL -> Leaf(INSERT_ACTIVE, elm)
          [] n # NULL /\ k < n.telm0.key -> 
                LET grown == [n EXCEPT !.left = Added(n.left, elm)]
                IN  IF n.type = BI_NODE THEN addLeft2(grown) ELSE addLeft3(grown)
          [] n # NULL /\ k = n.telm0.key -> [n EXCEPT !.telm0 = elm]
          [] n # NULL /\ n.type = BI_NODE /\ k > n.telm0.key ->
                addRight2([n EXCEPT !.right = Added(n.right, elm)])
          [] n # NULL /\ n.type = TRI_NODE /\ k > n.telm0.key /\ k < n.telm1.key ->
                addMidle3([n EXCEPT !.midle = Added(n.midle, elm)])
          [] n # NULL /\ n.type = TRI_NODE /\ k = n.telm1.key -> [n EXCEPT !.telm1 = elm]
          [] n # NULL /\ n.type = TRI_NODE /\ k > n.telm1.key ->
                addRight3([n EXCEPT !.right = Added(n.right, elm)])

----------------------------------------------------------------------------
(* What becomes of a node after something was removed below it: the empty node takes an *)
(* element from a neighbour that has two, or is merged with one that has one.           *)

removeLeft2(node) ==
    LET n == node.left  r == node.right
    IN  CASE ~Deleted(n) -> node
          [] Deleted(n) /\ r.type = BI_NODE ->
                Delete(Tri(node.telm0, r.telm0, n.midle, r.left, r.right))
          [] Deleted(n) /\ r.type = TRI_NODE ->
                Bi(r.telm0, Bi(node.telm0, n.midle, r.left), Bi(r.telm1, r.midle, r.right))

\* Mutant: the neighbour's children change places.
removeRight2Swapped(node) ==
    LET n == node.right  l == node.left
    IN  CASE ~Deleted(n) -> node
          [] Deleted(n) /\ l.type = BI_NODE ->
                Delete(Tri(l.telm0, node.telm0, l.right, l.left, n.midle))
          [] Deleted(n) /\ l.type = TRI_NODE ->
                Bi(l.telm1, Bi(l.telm0, l.left, l.midle), Bi(node.telm0, l.right, n.midle))

removeRight2(node) ==
    LET n == node.right  l == node.left
    IN  CASE ~Deleted(n) -> node
          [] Deleted(n) /\ l.type = BI_NODE ->
                Delete(Tri(l.telm0, node.telm0, l.left, l.right, n.midle))
          [] Deleted(n) /\ l.type = TRI_NODE ->
                Bi(l.telm1, Bi(l.telm0, l.left, l.midle), Bi(node.telm0, l.right, n.midle))

removeLeft3(node) ==
    LET n == node.left  m == node.midle  r == node.right
    IN  CASE ~Deleted(n) -> node
          [] Deleted(n) /\ m.type = BI_NODE ->
                Bi(node.telm1, Tri(node.telm0, m.telm0, n.midle, m.left, m.right), r)
          [] Deleted(n) /\ m.type = TRI_NODE ->
                Tri(m.telm0, node.telm1,
                    Bi(node.telm0, n.midle, m.left), Bi(m.telm1, m.midle, m.right), r)

removeMidle3(node) ==
    LET n == node.midle  l == node.left  r == node.right
    IN  CASE ~Deleted(n) -> node
          [] Deleted(n) /\ r.type = BI_NODE ->
                Bi(node.telm0, l, Tri(node.telm1, r.telm0, n.midle, r.left, r.right))
          [] Deleted(n) /\ r.type = TRI_NODE ->
                Tri(node.telm0, r.telm0, l,
                    Bi(node.telm1, n.midle, r.left), Bi(r.telm1, r.midle, r.right))

removeRight3(node) ==
    LET n == node.right  l == node.left  m == node.midle
    IN  CASE ~Deleted(n) -> node
          [] Deleted(n) /\ m.type = BI_NODE ->
                Bi(node.telm0, l, Tri(m.telm0, node.telm1, m.left, m.right, n.midle))
          [] Deleted(n) /\ m.type = TRI_NODE ->
                Tri(node.telm0, m.telm1, l,
                    Bi(m.telm0, m.left, m.midle), Bi(node.telm1, m.right, n.midle))

\* The tree without its last element, and that element.
RECURSIVE removeMax(_)
removeMax(node) ==
    IF node.right = NULL
    THEN IF node.type = BI_NODE
         THEN [node |-> Delete(NULL), elm |-> node.telm0]
         ELSE [node |-> Leaf(BI_NODE, node.telm0), elm |-> node.telm1]
    ELSE LET below == removeMax(node.right)
             rest  == [node EXCEPT !.right = below.node]
         IN  [node |-> IF node.type = BI_NODE THEN removeRight2(rest) ELSE removeRight3(rest),
              elm  |-> below.elm]

RECURSIVE Removed(_, _)
Removed2(node, k) ==
    CASE k < node.telm0.key -> removeLeft2([node EXCEPT !.left = Removed(node.left, k)])
      [] k > node.telm0.key -> removeRight2([node EXCEPT !.right = Removed(node.right, k)])
      [] k = node.telm0.key /\ node.left = NULL -> Delete(NULL)
      [] k = node.telm0.key /\ node.left # NULL ->
            LET max == removeMax(node.left)
            IN  removeLeft2([node EXCEPT !.left = max.node, !.telm0 = max.elm])

Removed3(node, k) ==
    CASE k < node.telm0.key -> removeLeft3([node EXCEPT !.left = Removed(node.left, k)])
      [] k > node.telm1.key -> removeRight3([node EXCEPT !.right = Removed(node.right, k)])
      [] k > node.telm0.key /\ k < node.telm1.key ->
            removeMidle3([node EXCEPT !.midle = Removed(node.midle, k)])
      [] k = node.telm0.key /\ node.left = NULL -> Leaf(BI_NODE, node.telm1)
      [] k = node.telm0.key /\ node.left # NULL ->
            LET max == removeMax(node.left)
            IN  removeLeft3([node EXCEPT !.left = max.node, !.telm0 = max.elm])
      [] k = node.telm1.key /\ node.midle = NULL -> Leaf(BI_NODE, node.telm0)
      [] k = node.telm1.key /\ node.midle # NULL ->
            LET max == removeMax(node.midle)
            IN  removeMidle3([node EXCEPT !.midle = max.node, !.telm1 = max.elm])

Removed(node, k) ==
    CASE node = NULL -> NULL
      [] node # NULL /\ node.type = BI_NODE  -> Removed2(node, k)
      [] node # NULL /\ node.type = TRI_NODE -> Removed3(node, k)

----------------------------------------------------------------------------
\* The values found on the way from a node to where the key is, or would be: one or none.
RECURSIVE getVal(_, _)
getVal(node, k) ==
    CASE node = NULL -> {}
      [] node # NULL /\ k = node.telm0.key -> {node.telm0.val}
      [] node # NULL /\ k < node.telm0.key -> getVal(node.left, k)
      [] node # NULL /\ node.type = BI_NODE /\ k > node.telm0.key -> getVal(node.right, k)
      [] node # NULL /\ node.type = TRI_NODE /\ k > node.telm0.key ->
            CASE k = node.telm1.key -> {node.telm1.val}
              [] k < node.telm1.key -> getVal(node.midle, k)
              [] k > node.telm1.key -> getVal(node.right, k)

find(k) == getVal(tree, k) # {}

TreeInit == tree = NULL /\ map = [k \in {} |-> 0]

\* The root has no parent that could take it in: it is a node of its own.
add(k, v) ==
    /\ LET root == Added(tree, [key |-> k, val |-> v])
       IN  tree' = IF Inserted(root) THEN [root EXCEPT !.type = BI_NODE] ELSE root
    /\ map' = [j \in DOMAIN map \cup {k} |-> IF j = k THEN v ELSE map[j]]

\* Nor one to fill an empty root: its child takes its place.
remove(k) ==
    /\ LET root == Removed(tree, k)
       IN  tree' = IF root # NULL /\ Deleted(root) THEN root.midle ELSE root
    /\ map' = Restrict(map, DOMAIN map \ {k})

TreeNext == \E k \in TreeKeys : remove(k) \/ \E v \in TreeValues : add(k, v)

----------------------------------------------------------------------------
(* Properties. *)

\* getVal and find answer for every key, those that were never added included, what the last
\* add or remove of it says.
TreeAgrees == \A k \in TreeKeys :
    /\ getVal(tree, k) = IF k \in DOMAIN map THEN {map[k]} ELSE {}
    /\ find(k) <=> k \in DOMAIN map

\* The lengths of the paths from a node to the NULLs below it.
RECURSIVE Depths(_)
Depths(n) ==
    IF n = NULL THEN {0}
    ELSE {d + 1 : d \in UNION {Depths(c) : c \in
              {n.left, n.right} \cup (IF n.type = TRI_NODE THEN {n.midle} ELSE {})}}

RECURSIVE NodesOf(_)
NodesOf(n) ==
    IF n = NULL THEN {} ELSE {n} \cup NodesOf(n.left) \cup NodesOf(n.midle) \cup NodesOf(n.right)

\* All searches are as long as each other, and no node keeps a mark: otherwise the next add
\* or remove would find no case for it and drop what is below it.
TreeBalanced ==
    /\ \A n \in NodesOf(tree) : n.type \in {BI_NODE, TRI_NODE}
    /\ Cardinality(Depths(tree)) = 1

\* In every order of adds and removes the tree is a map on its keys, and balanced.
TreeHolds == TreeAgrees /\ TreeBalanced
============================================================================
