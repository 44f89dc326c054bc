------------------------------- MODULE Exchange -------------------------------
(***************************************************************************)
(* What a gateway promises the clients that share one connection to the    *)
(* broker: a request that is acknowledged to a client is one this client   *)
(* has made and the broker has taken, whatever the ids that stand for it   *)
(* on the way.                                                             *)
(***************************************************************************)
CONSTANT Request       \* a client, what it asks for and the message id it gives it

VARIABLES made, taken, acknowledged

vars == <<made, taken, acknowledged>>

Init == made = {} /\ taken = {} /\ acknowledged = {}

Make(r) ==
    /\ made' = made \cup {r}
    /\ UNCHANGED <<taken, acknowledged>>

Take(r) ==
    /\ r \in made
    /\ taken' = taken \cup {r}
    /\ UNCHANGED <<made, acknowledged>>

Acknowledge(r) ==
    /\ r \in taken
    /\ acknowledged' = acknowledged \cup {r}
    /\ UNCHANGED <<made, taken>>

Next == \E r \in Request : Make(r) \/ Take(r) \/ Acknowledge(r)

Spec == Init /\ [][Next]_vars
===============================================================================
