------------------------------ MODULE MCAggregator ------------------------------
(***************************************************************************)
(* The aggregating gateway with two clients that each have something to    *)
(* ask the broker, and ask it with the same message ids.                   *)
(***************************************************************************)
EXTENDS Aggregator, TLC

Sensors == {"c1", "c2"}

Asks == [c1 |-> {"PUBLISH1", "SUBSCRIBE"}, c2 |-> {"PUBLISH2", "UNSUBSCRIBE", "PINGREQ"}]
=================================================================================
