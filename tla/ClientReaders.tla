---------------------------- MODULE ClientReaders ----------------------------
(***************************************************************************)
(* readMsg and the functions it calls, src/src/Util.c: what a client does  *)
(* with the one datagram it has just received.  Each reader is an operator *)
(* from the datagram m, the Client_t c and the Client_Event_t e to a       *)
(* record of the returned code, the client and the event.                  *)
(*                                                                         *)
(*   c.sub_topicID, c.pub_topicID  the arrays, as the sequence of the      *)
(*       entries written so far: subscribe_Num and publish_Num are their   *)
(*       lengths                                                           *)
(*   c.wildcard_Sub, c.wild_topicID  the wildcard subscription             *)
(*   e.msgID, e.topicID, e.qos, e.send_msgID  as in Events.h               *)
(*                                                                         *)
(* The codes of messages that are only printed are all "Q_ERR": a code     *)
(* keeps its name when some state of a client compares with it.            *)
(***************************************************************************)
EXTENDS Naturals, Sequences, Messages

Outcome(rc, c, e) == [rc |-> rc, client |-> c, event |-> e]

Entries(array) == {array[i] : i \in 1..Len(array)}

\* Mutant: the return code is not looked at.
readConnackAnyCode(m, c, e) == Outcome("Q_ConnackRead", c, e)

readConnack(m, c, e) ==
    Outcome(IF m.rc = "accepted" THEN "Q_ConnackRead" ELSE "Q_ERR", c, e)

\* Accepted, for the SUBSCRIBE that is outstanding: the topic id joins the array
\* (no test against its ten entries), or the wildcard flag is raised.
readSubAck(m, c, e) ==
    IF m.rc = "accepted" /\ m.msgID = e.send_msgID /\ m.qos = e.qos
    THEN Outcome("Q_SubAckRead",
                 IF m.topicID # 0
                 THEN [c EXCEPT !.sub_topicID = Append(@, m.topicID)]
                 ELSE [c EXCEPT !.wildcard_Sub = TRUE],
                 e)
    ELSE Outcome("Q_ERR", c, e)

\* A PUBLISH on a topic id the client knows, by wildcard or by subscription, is
\* shown; on any other it is to be rejected.
readPub(m, c, e) ==
    LET subscribed == \/ c.wildcard_Sub /\ m.topicID = c.wild_topicID
                      \/ m.topicID \in Entries(c.sub_topicID)
        both       == [e EXCEPT !.msgID = m.msgID, !.topicID = m.topicID]
    IN  CASE ~subscribed             -> Outcome("Q_ERR_WrongTopicID", c, both)
          [] subscribed /\ m.qos = 1 -> Outcome("Q_pubQos1", c, both)
          [] subscribed /\ m.qos = 2 -> Outcome("Q_pubQos2", c, [e EXCEPT !.msgID = m.msgID])
          [] OTHER                   -> Outcome("Q_pubQos0", c, e)

\* A client with subscriptions recognises its own topic ids only, and answers
\* nothing (Q_ERR_Unknown) to another; the wildcard is looked at without them.
readReg(m, c, e) ==
    LET both == [e EXCEPT !.msgID = m.msgID, !.topicID = m.topicID]
    IN  CASE m.topicID \in Entries(c.sub_topicID) -> Outcome("Q_Subscribed", c, both)
          [] c.sub_topicID = <<>> /\ c.wildcard_Sub ->
                 Outcome("Q_Wildcard", [c EXCEPT !.wild_topicID = m.topicID], both)
          [] c.sub_topicID = <<>> /\ ~c.wildcard_Sub -> Outcome("Q_RejectReg", c, both)
          [] OTHER -> Outcome("Q_ERR", c, e)

\* Mutant: the message id is not compared.
readRegAckAnyID(m, c, e) ==
    IF m.rc = "accepted"
    THEN Outcome("Q_RegAckRead", [c EXCEPT !.pub_topicID = Append(@, m.topicID)], e)
    ELSE Outcome("Q_ERR", c, e)

\* Accepted, for the REGISTER that is outstanding: the topic id joins the array,
\* again without a test against its ten entries.
readRegAck(m, c, e) ==
    IF m.rc = "accepted" /\ m.msgID = e.send_msgID
    THEN Outcome("Q_RegAckRead", [c EXCEPT !.pub_topicID = Append(@, m.topicID)], e)
    ELSE Outcome("Q_ERR", c, e)

\* A wrong topic id has the code that also stands for a PUBLISH to reject.
readPubAck(m, c, e) ==
    LET mine == m.rc = "accepted" /\ m.msgID = e.send_msgID
    IN  Outcome(CASE mine /\ m.topicID = e.topicID -> "Q_PubAckRead"
                  [] mine /\ m.topicID # e.topicID -> "Q_ERR_WrongTopicID"
                  [] OTHER                         -> "Q_ERR",
                c, e)

\* PUBREC, PUBREL and PUBCOMP are matched with event->msgID, not send_msgID.
readRecRelComp(m, c, e, rc) ==
    Outcome(IF m.msgID = e.msgID THEN rc ELSE "Q_ERR", c, e)

\* The switch on the message type.
readMsg(m, c, e) ==
    CASE m.type = "CONNACK"      -> readConnack(m, c, e)
      [] m.type = "WILLTOPICREQ" -> Outcome("Q_WillTopReq", c, e)
      [] m.type = "WILLMSGREQ"   -> Outcome("Q_WillMsgReq", c, e)
      [] m.type = "PINGRESP"     -> Outcome("Q_PingRespRead", c, e)
      [] m.type = "PINGREQ"      -> Outcome("Q_PingReqRead", c, e)
      [] m.type = "DISCONNECT"   -> Outcome("Q_DisconRead", c, e)
      [] m.type = "SUBACK"       -> readSubAck(m, c, e)
      [] m.type = "REGISTER"     -> readReg(m, c, e)
      [] m.type = "REGACK"       -> readRegAck(m, c, e)
      [] m.type = "PUBACK"       -> readPubAck(m, c, e)
      [] m.type = "PUBREC"       -> readRecRelComp(m, c, e, "Q_PubRecRead")
      [] m.type = "PUBREL"       -> readRecRelComp(m, c, e, "Q_PubRelRead")
      [] m.type = "PUBCOMP"      -> readRecRelComp(m, c, e, "Q_PubCompRead")
      [] m.type = "PUBLISH"      -> readPub(m, c, e)
      [] OTHER                   -> Outcome("Q_ERR", c, e)
============================================================================
