------------------------------ MODULE Containers ------------------------------
(***************************************************************************)
(* The containers that the gateway and its tester keep their clients,      *)
(* topics, events and packets in, one of them at a time: a linked list of  *)
(* some class or a 2-3 tree, and every order of its operations.            *)
(***************************************************************************)
EXTENDS Lists, Tree23

CONSTANT Classes       \* the classes tried

ASSUME ContainersAssumption == Classes \subseteq ListClasses \cup {"Tree23"}

vars == <<class, listVars, treeVars>>

Init == class \in Classes /\ ListInit /\ TreeInit

Next ==
    /\ IF class = "Tree23"
       THEN TreeNext /\ UNCHANGED listVars
       ELSE ListNext /\ UNCHANGED treeVars
    /\ UNCHANGED class

Spec == Init /\ [][Next]_vars
===============================================================================
