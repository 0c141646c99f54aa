------------------------------ MODULE Actuation ------------------------------
(***************************************************************************)
(* An actuator command from end to end, for one node: the gateway takes    *)
(* the topic apart (CommandTopic), parses the payload and sends frames     *)
(* (ActuatorCommand), the radio carries or loses them, the ZCL stack of    *)
(* the node sets the attribute and calls actuator_zcl_cb, and              *)
(* app_actuators_apply drives the outputs.                                 *)
(*                                                                         *)
(* The node keeps the state of its actuators three times: s_act_state of   *)
(* main.c, s_state of app_actuators.c and the outputs themselves; the ZCL  *)
(* stack keeps a fourth, the on/off attribute.  All of it belongs to the   *)
(* node's Zigbee task, so a callback is one step; none of it is stored     *)
(* over a reset.                                                           *)
(***************************************************************************)
EXTENDS ActuatorCommand, CommandTopic

CONSTANTS
    Messages,       \* the messages that arrive: [topic, payload]
    Node,           \* the identifier of the node, which is in the table
    Servos,         \* 15: the window, driven by a servo
    Identified,     \* endpoints whose Identify cluster somebody writes to
    MaxAir          \* bound: frames in flight

ASSUME MessagesAssumption ==
    \A m \in Messages :
        /\ m.topic \in Seq(STRING) /\ (Subscribed(m.topic) \/ m.topic = NoTopic)
        /\ IsPayload(m.payload)
ASSUME ActuationAssumption ==
    /\ Servos \subseteq Endpoints \ Dimmable /\ Identified \subseteq Endpoints
    /\ MaxAir \in Nat

\* An identifier, "node-" and eight digits (derive_node_id), is not a level every topic has.
ASSUME NodeAssumption == Node # "actuators"

VARIABLES
    air,            \* frames sent and not yet received, in order
    published,      \* the state last published on .../actuators
    attr,           \* the on/off attribute of each endpoint, in the ZCL stack
    s_act_state,    \* main.c's copy: [on, level]
    s_state,        \* the driver's copy: [on, level]
    output,         \* the duty, or the level, each output is driven at
    wanted          \* history: what the last messages asked of each actuator:
                    \* "on", "off", or "any" when no claim is made (see Ask)

nodeVars == <<attr, s_act_state, s_state, output>>
vars == <<air, published, nodeVars, wanted>>

AllOff == [on |-> [a \in Endpoints |-> FALSE], level |-> [a \in Endpoints |-> 0]]

\* set_pwm_pct: the duty of a 12-bit channel; the level 0 stands for 100.
PwmDuty(on, level) == IF on THEN (4095 * (IF level > 0 THEN level ELSE 100)) \div 100 ELSE 0

\* set_servo_pct: a pulse of 1000 to 2000 us, at 50 Hz.
ServoDuty(open) ==
    LET pulse == 1000 + (1000 * (IF open THEN 100 ELSE 0)) \div 100
    IN (pulse * 50 * 4095) \div 1000000

\* What app_actuators_apply puts out: the heater is a relay.
Drive(a, on, level) ==
    IF a \in Dimmable THEN PwmDuty(on, level)
    ELSE IF a \in Servos THEN ServoDuty(on)
    ELSE IF on THEN 1 ELSE 0

OutputsOff == [a \in Endpoints |-> Drive(a, FALSE, 0)]
IsRunning(a) == output[a] # OutputsOff[a]

Init ==
    /\ air = <<>>
    /\ published = AllOff
    /\ attr = [a \in Endpoints |-> FALSE]
    /\ s_act_state = AllOff
    /\ s_state = AllOff
    /\ output = OutputsOff
    /\ wanted = [a \in Endpoints |-> "off"]

-----------------------------------------------------------------------------
(* The gateway                                                              *)

\* The actuators a payload has a field of, whether the parser takes its value or not.
Fields(p) == DOMAIN p.switch \cup DOMAIN p.level

\* A message is complete when its topic names this node and no level of it is empty
\* or too long.  Part of a message that was split has no topic.
NamesNode(t) == t # NoTopic /\ t[4] = Node
IsComplete(t) == NamesNode(t) /\ {"", LongName} \cap {t[k] : k \in 1 .. Len(t)} = {}

\* What a complete message asks of an actuator it has a field of: the switch's value when
\* there is one, unquoted, and no other actuator's field.  The other payloads the documents
\* accept - several actuators, a quoted string, a level alone - are not obeyed as they
\* say (IncludedSwitchesSent, QuotedForms, ActOn): "any" is no claim, either way.
Ask(p, a) ==
    IF Fields(p) = {a} /\ a \in DOMAIN p.switch /\ p.switch[a] \notin QuotedForms
    THEN IF p.switch[a] \in TrueForms THEN "on" ELSE "off"
    ELSE "any"

\* No claim is made, either, after an incomplete message for this node or the later part
\* of one that may have been for it.  A message for others asks nothing.
Asked(t, p) ==
    [a \in Endpoints |->
        IF a \notin Fields(p) THEN wanted[a]
        ELSE IF IsComplete(t) THEN Ask(p, a)
        ELSE IF t = NoTopic \/ NamesNode(t) THEN "any"
        ELSE wanted[a]]

\* agrinet_mqtt_build_actuator_json: what is published is the state parsed.
Message(c) == [on |-> c.on, level |-> c.level]

\* MQTT_EVENT_DATA, on_actuator_cmd and app_gateway_send_actuator_cmd.  The state
\* is published unless the client is not connected or its outbox is full.
Command(t, p) ==
    LET c == Parse(p) IN
    /\ \E junk \in BOOLEAN : Recognised(t, junk)
    /\ NodeNamed(Tokens(t)) = Node
    /\ Len(air) + Len(Frames(c)) <= MaxAir
    /\ air' = air \o Frames(c)
    /\ published' \in {published, Message(c)}
    /\ wanted' = Asked(t, p)
    /\ UNCHANGED nodeVars

\* The topic is not recognised, or names no node of the table; or there is no payload at
\* all, which the parser refuses.
NoCommand(t, p) ==
    /\ \/ \E junk \in BOOLEAN : ~Recognised(t, junk)
       \/ NodeNamed(Tokens(t)) # Node
       \/ Fields(p) = {}
    /\ wanted' = Asked(t, p)
    /\ UNCHANGED <<air, published, nodeVars>>

-----------------------------------------------------------------------------
(* The node                                                                 *)

\* app_actuators_apply(st, {ep}): the output follows the switch and the level;
\* the driver copies what it applied.
Apply(st, ep) ==
    /\ output' = [output EXCEPT ![ep] = Drive(ep, st.on[ep], st.level[ep])]
    /\ s_state' = [s_state EXCEPT !.on[ep] = st.on[ep], !.level[ep] = st.level[ep]]

\* Faulty variant: main.c does not keep what it applied.
ZclCallbackForgets(ep, isOnOff, value) ==
    /\ Apply([s_act_state EXCEPT !.on[ep] = isOnOff /\ value], ep)
    /\ UNCHANGED s_act_state

\* actuator_zcl_cb for an attribute of endpoint ep that has been set.  on stays
\* false unless the attribute is the on/off attribute.
ZclCallback(ep, isOnOff, value) ==
    LET st == [s_act_state EXCEPT !.on[ep] = isOnOff /\ value] IN
    /\ Apply(st, ep)
    /\ s_act_state' = st

\* Faulty variant: a frame that was taken may be delivered once more.
ReceiveOnOffTwice ==
    /\ air # <<>>
    /\ Head(air).kind = "onoff" /\ Head(air).ep \in Endpoints
    /\ attr' = [attr EXCEPT ![Head(air).ep] = Head(air).on]
    /\ ZclCallback(Head(air).ep, TRUE, Head(air).on)
    /\ air' \in {air, Tail(air)}
    /\ UNCHANGED <<published, wanted>>

\* The ZCL stack takes an on/off frame for one of the five endpoints: it sets
\* the attribute and calls back.
ReceiveOnOff ==
    /\ air # <<>>
    /\ Head(air).kind = "onoff" /\ Head(air).ep \in Endpoints
    /\ attr' = [attr EXCEPT ![Head(air).ep] = Head(air).on]
    /\ ZclCallback(Head(air).ep, TRUE, Head(air).on)
    /\ air' = Tail(air)
    /\ UNCHANGED <<published, wanted>>

\* Nothing takes a frame for endpoint 0 or a level frame: add_actuator_endpoint
\* gives an endpoint the Basic, Identify and On/Off clusters only.
IgnoreFrame ==
    /\ air # <<>>
    /\ Head(air).kind = "level" \/ Head(air).ep \notin Endpoints
    /\ air' = Tail(air)
    /\ UNCHANGED <<nodeVars, published, wanted>>

\* The radio gives up on a frame; nobody looks at the request's outcome.
LoseFrame ==
    /\ air # <<>>
    /\ air' = Tail(air)
    /\ wanted' = IF Head(air).ep \in Endpoints
                 THEN [wanted EXCEPT ![Head(air).ep] = "any"] ELSE wanted
    /\ UNCHANGED <<nodeVars, published>>

\* Somebody writes the identify time of an endpoint: the same callback.
Identify(ep) ==
    /\ ZclCallback(ep, FALSE, FALSE)
    /\ wanted' = [wanted EXCEPT ![ep] = "any"]
    /\ UNCHANGED <<air, attr, published>>

\* A reset: app_main starts over, app_actuators_init drives every output to off
\* and the endpoints are created with the attribute at 0.
Reset ==
    /\ attr' = [a \in Endpoints |-> FALSE]
    /\ s_act_state' = AllOff /\ s_state' = AllOff
    /\ output' = OutputsOff
    /\ wanted' = [a \in Endpoints |->
                    IF \E k \in 1 .. Len(air) : air[k].kind = "onoff" /\ air[k].ep = a
                    THEN wanted[a] ELSE "off"]
    /\ UNCHANGED <<air, published>>

Deliver == ReceiveOnOff \/ IgnoreFrame

Next ==
    \/ \E m \in Messages : Command(m.topic, m.payload) \/ NoCommand(m.topic, m.payload)
    \/ Deliver \/ LoseFrame
    \/ \E ep \in Identified : Identify(ep)
    \/ Reset

\* A frame is delivered or given up on: the radio's retries are bounded.
Spec == Init /\ [][Next]_vars /\ WF_vars(Deliver \/ LoseFrame)

-----------------------------------------------------------------------------
(* Properties                                                                *)

ActStates == [on : [Endpoints -> BOOLEAN], level : [Endpoints -> 0 .. 255]]

AirFrames ==
    [kind : {"onoff"}, ep : Endpoints \cup {0}, on : BOOLEAN]
        \cup [kind : {"level"}, ep : Dimmable, level : 1 .. 255]

TypeOK ==
    /\ air \in Seq(AirFrames) /\ Len(air) <= MaxAir
    /\ published \in ActStates
    /\ attr \in [Endpoints -> BOOLEAN]
    /\ s_act_state \in ActStates /\ s_state \in ActStates
    /\ output \in [Endpoints -> 0 .. 4095]
    /\ wanted \in [Endpoints -> {"on", "off", "any"}]

\* The two copies of the node's state and the outputs agree, whichever
\* callbacks and resets came before: main.c applies one changed actuator to
\* the driver's copy and replaces its own as a whole.
CopiesAgree ==
    /\ s_act_state = s_state
    /\ \A a \in Endpoints : output[a] = Drive(a, s_state.on[a], s_state.level[a])

\* When no frame is in flight, every actuator is as the last message with a field of it
\* asked, if that message was complete, had no other actuator's field and gave its switch
\* unquoted, and no frame for the actuator was lost and no Identify written since; with
\* messages for the others and for other nodes, malformed topics and resets in between.
\* The node is the one the topic names, no level of it is skipped or mixed up with
\* another.  After any other message for it nothing is claimed (Ask).  A reset switches
\* off what no frame in flight will switch on.
SettledAsCommanded ==
    air = <<>> =>
        \A a \in Endpoints : wanted[a] # "any" => IsRunning(a) = (wanted[a] = "on")

\* The gateway, the radio and the node implement the switch panel: the orders
\* are the on/off frames in flight to an actuator.
IsOrder(f) == f.kind = "onoff" /\ f.ep \in Endpoints
OrdersInAir ==
    LET frames == Subsequence(air, {k \in 1 .. Len(air) : IsOrder(air[k])})
    IN [k \in DOMAIN frames |-> <<frames[k].ep, frames[k].on>>]

Panel == INSTANCE SwitchPanel WITH
    Actuators <- Endpoints,
    orders <- OrdersInAir,
    running <- [a \in Endpoints |-> IsRunning(a)],
    Disturbed <- Identified

ImplementsPanel == Panel!Spec

\* What the documents say and the code does otherwise.

\* "Any subset of the fields is allowed": every switch in the payload that was
\* understood is sent to its endpoint with its own value.
IncludedSwitchesSent ==
    [][\A m \in Messages : Command(m.topic, m.payload) =>
        \A a \in Switched(m.payload) :
            \E k \in Len(air) + 1 .. Len(air') :
                /\ IsOrder(air'[k]) /\ air'[k].ep = a
                /\ air'[k].on = (m.payload.switch[a] \in TrueForms)]_vars

==============================================================================
