------------------------------ MODULE Network ------------------------------
(***************************************************************************)
(* The two UDP directions between one client and the gateway, as seen      *)
(* through transport_sendPacketBuffer and transport_getdata of             *)
(* mqtt-sn-lib/transport.c: sendto and recvfrom without any bookkeeping,   *)
(* so a datagram may be lost, overtaken or delivered twice, and sendto     *)
(* itself may fail.  A direction is the SET of datagrams under way: any of *)
(* them may be the next one recvfrom returns.                              *)
(***************************************************************************)
EXTENDS Naturals, FiniteSets

CONSTANTS
    Loss,          \* whether a datagram handed to sendto may disappear
    Duplicated,    \* types of the datagrams that may be delivered more than once
    SendErrors,    \* whether sendto may return -1
    Capacity       \* bound: datagrams under way in one direction

ASSUME NetworkAssumption ==
    /\ Loss \in BOOLEAN
    /\ SendErrors \in BOOLEAN
    /\ Capacity \in Nat

VARIABLES
    toGateway,     \* datagrams under way from the client to the gateway
    toClient       \* datagrams under way from the gateway to the client

netVars == <<toGateway, toClient>>

\* The channel after a successful sendto of m: m is under way, or lost (which is
\* also what happens to a datagram that finds the receive buffer full).
AfterSend(channel, m) ==
    LET queued == channel \cup {m}
        fits   == Cardinality(queued) <= Capacity
    IN  (IF fits THEN {queued} ELSE {}) \cup (IF Loss \/ ~fits THEN {channel} ELSE {})

\* The channel after recvfrom returned m: m is consumed, or a copy follows.
AfterReceive(channel, m) ==
    {channel \ {m}} \cup (IF m.type \in Duplicated THEN {channel} ELSE {})

\* transport_sendPacketBuffer on the client's side, and the ways it fails.
ClientSends(m) == toGateway' \in AfterSend(toGateway, m)

\* transport_getdata on the client's side, once select has reported the socket.
ClientReceives(m) == m \in toClient /\ toClient' \in AfterReceive(toClient, m)

\* The gateway's ends of the two directions (ClientSendTask and ClientRecvTask).
GatewaySends(m) == toClient' \in AfterSend(toClient, m)

GatewayReceives(m) == m \in toGateway /\ toGateway' \in AfterReceive(toGateway, m)
============================================================================
