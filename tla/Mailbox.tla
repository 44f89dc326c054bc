------------------------------- MODULE Mailbox -------------------------------
(***************************************************************************)
(* What a task is promised of its EventQue: the events are given to it in  *)
(* the order they were put in, each of them once, and as long as it reads  *)
(* none of them waits for ever.                                            *)
(***************************************************************************)
EXTENDS Sequences

CONSTANT Events

VARIABLES items,       \* what has been put in and not been taken
          closed       \* the task reads no more

vars == <<items, closed>>

Init == items = <<>> /\ closed = FALSE

Put(e) ==
    /\ items' = Append(items, e)
    /\ UNCHANGED closed

Take ==
    /\ items # <<>> /\ ~closed
    /\ items' = Tail(items)
    /\ closed' \in BOOLEAN

Next == Take \/ \E e \in Events : Put(e)

Spec == Init /\ [][Next]_vars

FairSpec == Spec /\ WF_vars(Take)
===============================================================================
