--------------------------- MODULE ActuatorCommand ---------------------------
(***************************************************************************)
(* What the gateway makes of the payload of an actuator command:           *)
(* agrinet_mqtt_parse_actuator_cmd turns it into an actuator state and a   *)
(* change mask, and app_gateway_send_actuator_cmd turns these into the ZCL *)
(* frames it sends.  Pure operators; Actuation.tla uses them.              *)
(*                                                                         *)
(* An actuator is named by its Zigbee endpoint.  The order in which the    *)
(* gateway tests the mask bits (pump, fan, light, heater, window) is the   *)
(* order of the endpoints, so "the first bit set" is the least one.        *)
(***************************************************************************)
EXTENDS Integers, Sequences, FiniteSetsExt

CONSTANTS
    Endpoints,  \* 11 .. 15 in the code: pump, fan, light, heater, window
    Dimmable    \* 11 .. 13: the actuators that have a level field

ASSUME EndpointsAssumption ==
    /\ Endpoints \subseteq Nat \ {0} /\ IsFiniteSet(Endpoints)
    /\ Dimmable \subseteq Endpoints

\* The values of a switch field, by how parse_bool_value takes them.  A quoted
\* string is what it does not take: only ' ', ':' and tab are skipped before
\* the value is compared, never the quote.
TrueForms == {"true", "1", "on"}
FalseForms == {"false", "0", "off"}
QuotedForms == {"'on'", "'off'", "'true'", "'false'"}
SwitchForms == TrueForms \cup FalseForms \cup QuotedForms

\* A payload: the fields it includes, each with its value.
IsPayload(p) ==
    /\ DOMAIN p.switch \subseteq Endpoints
    /\ DOMAIN p.level \subseteq Dimmable
    /\ \A a \in DOMAIN p.switch : p.switch[a] \in SwitchForms
    /\ \A a \in DOMAIN p.level : p.level[a] \in Nat

\* Faulty variant: a level is not compared with the range of its type.
LevelledUnchecked(p) == DOMAIN p.level

\* Fields parse_bool_value and parse_u8_value accept.
Switched(p) == {a \in DOMAIN p.switch : p.switch[a] \notin QuotedForms}
Levelled(p) == {a \in DOMAIN p.level : p.level[a] <= 255}

\* agrinet_mqtt_parse_actuator_cmd, into a zeroed state: what is not included
\* stays off and at level 0, and a level alone sets the bit of its actuator.
Parse(p) ==
    [on |-> [a \in Endpoints |-> a \in Switched(p) /\ p.switch[a] \in TrueForms],
     level |-> [a \in Endpoints |-> IF a \in Levelled(p) THEN p.level[a] ELSE 0],
     mask |-> Switched(p) \cup Levelled(p)]

\* app_gateway_send_actuator_cmd: the endpoint comes from the first bit that
\* is set, the value from the last one.
TargetEndpoint(c) == IF c.mask = {} THEN 0 ELSE Min(c.mask)
ActOn(c) == c.mask # {} /\ c.on[Max(c.mask)]

OnOffFrame(c) == [kind |-> "onoff", ep |-> TargetEndpoint(c), on |-> ActOn(c)]

HasLevel(c) ==
    /\ TargetEndpoint(c) \in Dimmable
    /\ c.level[TargetEndpoint(c)] > 0

LevelFrame(c) ==
    [kind |-> "level", ep |-> TargetEndpoint(c), level |-> c.level[TargetEndpoint(c)]]

\* Faulty variant: a level is taken to imply the switch.
FramesLevelAlone(c) == IF HasLevel(c) THEN <<LevelFrame(c)>> ELSE <<OnOffFrame(c)>>

\* The frames of one command, in the order they are sent.
Frames(c) == <<OnOffFrame(c)>> \o IF HasLevel(c) THEN <<LevelFrame(c)>> ELSE <<>>
==============================================================================
