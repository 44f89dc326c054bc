------------------------------- MODULE MCTester -------------------------------
(***************************************************************************)
(* The tester's programs for TLC: what samples/mainTest.cpp does, with one *)
(* topic in the SUBSCRIBE_LIST, one that is published, one predefined      *)
(* topic of the gateway and one it does not have.                          *)
(***************************************************************************)
EXTENDS TesterSystem

Test(do, topic, qos) == [do |-> do, topic |-> topic, qos |-> qos]

MCNames == {"topic1", "topic2"}

MCPredefinedIds == {"id1", "id10"}

MCSubscribeList == <<"topic1">>

MCTests ==
    {Test("publish", "topic2", qos) : qos \in 0..2}
      \cup {Test("subscribe", topic, 1) : topic \in {"topic2", "id1", "id10"}}
      \cup {Test("unsubscribe", "topic1", 0), Test("sleep", "topic1", 0), Test("disconnect", "topic1", 0)}
===============================================================================
