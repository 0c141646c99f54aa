----------------------------- MODULE CommandTopic -----------------------------
(***************************************************************************)
(* What mqtt_event_handler makes of the topic of a message                 *)
(* (MQTT_EVENT_DATA in app_mqtt.c).  Pure operators; Actuation.tla uses    *)
(* them.                                                                   *)
(*                                                                         *)
(* A topic is the sequence of its levels.  A level longer than the 15      *)
(* characters that are copied is never the identifier of a node, which has *)
(* 13, so that the cut is left out; so is the name of the actuator, which  *)
(* the handler extracts and nobody uses.                                   *)
(***************************************************************************)
EXTENDS Subsequence

CONSTANTS
    Site,       \* g_site_id
    LongName    \* a level that makes the topic 128 characters or longer

\* What the broker delivers for the filter agrinet/<site>/nodes/+/actuators/+/set:
\* seven levels, where "+" takes an empty one, too.
Subscribed(t) ==
    /\ Len(t) = 7
    /\ t[1] = "agrinet" /\ t[2] = Site /\ t[3] = "nodes"
    /\ t[5] = "actuators" /\ t[7] = "set"

\* The topic of the second and later parts of a message that does not fit into
\* the client's buffer: none.
NoTopic == <<>>

\* strtok: empty levels are no tokens.
Tokens(t) == Subsequence(t, {k \in 1 .. Len(t) : t[k] # ""})

\* Faulty variant: the level after "actuators" is taken.
NodeNamedByActuator(tok) == IF Len(tok) >= 6 THEN tok[6] ELSE ""

\* The node, once the topic is recognised.
NodeNamed(tok) == IF Len(tok) >= 6 THEN tok[4] ELSE ""

\* Six tokens are enough for the test of tok_count, and then the seventh is read
\* all the same: a pointer that was never assigned.  It may be one left from an
\* earlier message; junk says whether it compares equal to "set".  A pointer that
\* cannot be read at all resets the gateway, and no command comes of the message.
Recognised(t, junk) ==
    LET tok == Tokens(t)
        seventh == IF Len(tok) >= 7 THEN tok[7] = "set" ELSE junk
    IN /\ \A k \in 1 .. Len(t) : t[k] # LongName
       /\ Len(tok) >= 6
       /\ tok[1] = "agrinet" /\ tok[3] = "nodes" /\ tok[5] = "actuators"
       /\ seventh
==============================================================================
