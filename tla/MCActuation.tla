----------------------------- MODULE MCActuation -----------------------------
(* A small instance of Actuation: one actuator of each kind.  The pump can be *)
(* dimmed, the heater is a relay and the window is moved by a servo.         *)
EXTENDS Actuation, TLC

Pump == 11
Heater == 14
Window == 15

MCEndpoints == {Pump, Heater, Window}
MCDimmable == {Pump}
MCServos == {Window}
MCIdentified == {Pump, Window}

\* Topics the filter lets through: the node, another one, each of the two free
\* levels empty, levels that look like others, a long one, a continuation.
Topic(node, act) == <<"agrinet", "gh1", "nodes", node, "actuators", act, "set">>
MCTopics ==
    {Topic("n1", "pump"), Topic("n1", ""), Topic("", "n1"), Topic("", "actuators"),
     Topic("n2", "n1"), Topic("n1", "longName"), NoTopic}

NoField == [a \in {} |-> 0]
Switch(a, form) == [switch |-> a :> form, level |-> NoField]
SwitchAndLevel(a, form, n) == [switch |-> a :> form, level |-> a :> n]
NoFields == [switch |-> NoField, level |-> NoField]
LevelOnly(a, n) == [switch |-> NoField, level |-> a :> n]
Both(a, f, b, g) == [switch |-> a :> f @@ b :> g, level |-> NoField]

\* One actuator at a time, in the forms the parser takes; a level of the documents'
\* range, one beyond it that fits a byte, and one that does not.
SingleSwitches ==
    {Switch(a, f) : a \in MCEndpoints, f \in {"true", "false"}}
        \cup {SwitchAndLevel(Pump, "true", 80), SwitchAndLevel(Pump, "on", 150),
                SwitchAndLevel(Pump, "off", 300)}

QuotedSwitches == {Switch(Pump, "'on'")}
LevelsOnly == {LevelOnly(Pump, 80)}
SeveralSwitches == {Both(Pump, "true", Window, "false"), Both(Heater, "0", Window, "1")}

\* Every payload with the topic of the pump, and one payload with every topic.
MCMessages ==
    [topic : {Topic("n1", "pump")},
     payload : SingleSwitches \cup QuotedSwitches \cup LevelsOnly \cup SeveralSwitches
                \cup {NoFields}]
        \cup [topic : MCTopics, payload : {Switch(Pump, "true")}]
==============================================================================
