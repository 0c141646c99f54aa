--------------------------- MODULE SensorNodeProofs ---------------------------
(***************************************************************************)
(* Proofs about SensorNode: no sensor's failure brings an earlier cycle's  *)
(* value into the readings, an old CO2 value means that its trigger was    *)
(* lost, and the temperature and the humidity that can be read over Zigbee *)
(* go together, except where the code writes one and not yet the other.    *)
(***************************************************************************)
EXTENDS SensorNode, TLAPS

\* What BmeRead leaves in the readings: the humidity goes with the temperature.
ReadTogether ==
    /\ readings.hum = HumidityWith(readings.temp)
    /\ readings.temp \notin {"stale", "older"}

\* While app_main runs nothing has been measured and there is no Zigbee task.
NothingYet == pc = "setup" => readings = AllZero /\ zb = "none" /\ ~torn

\* Before the endpoint exists there is nothing in the attributes; between the two
\* attributes the first is the reading of this cycle, or the endpoint is newer than it
\* (torn).  Values of the last cycle are in the attributes until they are written again, and
\* none when that has happened.
AttributesTrace ==
    /\ zb \in {"none", "created"} => attr = AllZero /\ ~torn
    /\ pc = "setHum" /\ zb \notin {"none", "created"} /\ ~torn => attr.temp = readings.temp
    /\ pc \in {"setHum", "sleep"} => attr.temp # "stale"
    /\ pc = "sleep" => attr.hum # "stale"
    /\ pc = "delay" => "stale" \notin {attr.temp, attr.hum}

\* A result of an earlier cycle is there to be read only if this cycle's trigger was
\* lost, and nothing has been read before.
TriggerTrace ==
    /\ pc \in {"setup", "delay", "bme", "lux", "single"} => ~triggered
    /\ pc = "scd" /\ scd = "stale" => ~triggered
    /\ pc \in {"bme", "lux", "single", "scd"} => readings.co2 = "zero"

-----------------------------------------------------------------------------
(* Type correctness                                                         *)

\* What one assignment to a field leaves of a structure of values.
LEMMA FieldSet ==
    ASSUME NEW f \in [Quantities -> Values], NEW q \in Quantities, NEW v \in Values
    PROVE  /\ [f EXCEPT ![q] = v] \in [Quantities -> Values]
           /\ [f EXCEPT ![q] = v][q] = v
           /\ \A r \in Quantities \ {q} : [f EXCEPT ![q] = v][r] = f[r]
OBVIOUS

\* Values stay values when a cycle ends.
LEMMA AgedIsValue == \A v \in Values : Aged(v) \in Values
BY DEF Aged, Values

\* The initial state is typed.
LEMMA InitType == Init => TypeOK
BY DEF Init, TypeOK, AllZero, Groups, Settings, Values

\* Every step keeps every variable in its type.
LEMMA StepType == TypeOK /\ [Next]_vars => TypeOK'
<1> SUFFICES ASSUME TypeOK, [Next]_vars PROVE TypeOK'
    OBVIOUS
<1> USE DEF bmeVars, zbVars
<1>1. CASE Setup
      BY <1>1 DEF Setup, Go, SensorsInit, BmeInit, ScdInit, TypeOK
<1>2. CASE Clear
      BY <1>2, AgedIsValue DEF Clear, Go, Waiting, AllZero, TypeOK, Values
<1>3. CASE BmeRead
      BY <1>3 DEF BmeRead, Measured, Go, TypeOK, Values, Quantities
<1>4. CASE BmeFailed
      BY <1>4 DEF BmeFailed, Go, TypeOK
<1>5. CASE ReadLux
      BY <1>5 DEF ReadLux, Go, TypeOK, Values, Quantities
<1>6. CASE SingleShot
      BY <1>6 DEF SingleShot, Go, TypeOK
<1>7. CASE ScdRead
      BY <1>7 DEF ScdRead, Go, TypeOK, Values, Quantities
<1>8. CASE ScdFailed
      BY <1>8 DEF ScdFailed, Go, TypeOK, Values, Quantities
<1>9. CASE ReadAnalog
  <2>1. PICK soil \in Values, batt \in Values :
            readings' = [readings EXCEPT !.soil = soil, !.batt = batt]
        BY <1>9 DEF ReadAnalog, Values
  <2>2. readings' \in [Quantities -> Values]
        BY <2>1 DEF TypeOK, Quantities
  <2> QED BY <1>9, <2>2 DEF ReadAnalog, Go, TypeOK
<1>10. CASE SetTemp
      BY <1>10, FieldSet DEF SetTemp, SetAttribute, Go, TypeOK, Quantities
<1>11. CASE SetHum
      BY <1>11, FieldSet DEF SetHum, SetAttribute, Go, TypeOK, Quantities
<1>12. CASE ZbTask
      BY <1>12 DEF ZbTask, ZbRegister, OnSkipStartup, OnJoined, OnNotJoined, sensorVars, TypeOK
<1>13. CASE Reset
      BY <1>13 DEF Reset, AllZero, TypeOK, Groups, Settings, Values
<1>14. CASE UNCHANGED vars
      BY <1>14 DEF vars, sensorVars, TypeOK
<1> QED BY <1>1, <1>2, <1>3, <1>4, <1>5, <1>6, <1>7, <1>8, <1>9, <1>10, <1>11, <1>12, <1>13,
           <1>14 DEF Next, SensorTask

\* Every variable keeps its type: TypeOK holds in every state.
THEOREM SensorTypeCorrect == Spec => []TypeOK
<1> QED BY InitType, StepType, PTL DEF Spec

-----------------------------------------------------------------------------
(* Earlier values                                                           *)

Current == NoStaleReading /\ CO2FollowsTrigger /\ TriggerTrace

\* Nothing has been measured in the initial state.
LEMMA InitCurrent == Init => Current
BY DEF Init, Current, NoStaleReading, CO2FollowsTrigger, TriggerTrace, AllZero, Quantities

\* No step puts an earlier value into the readings, but that of the SCD41.
LEMMA StepCurrent == TypeOK /\ Current /\ [Next]_vars => Current'
<1> SUFFICES ASSUME TypeOK, Current, [Next]_vars PROVE Current'
    OBVIOUS
<1> USE DEF Current, NoStaleReading, CO2FollowsTrigger, TriggerTrace, Go, bmeVars, zbVars
<1>1. CASE Setup
      BY <1>1 DEF Setup, SensorsInit, BmeInit, ScdInit
<1>2. CASE Clear
      BY <1>2 DEF Clear, Waiting, AllZero, Quantities
<1>3. CASE BmeRead
      BY <1>3 DEF BmeRead, Measured, TypeOK, Quantities
<1>4. CASE BmeFailed
      BY <1>4 DEF BmeFailed
<1>5. CASE ReadLux
      BY <1>5 DEF ReadLux, TypeOK, Quantities
<1>6. CASE SingleShot
      BY <1>6 DEF SingleShot, Quantities
<1>7. CASE ScdRead
      BY <1>7 DEF ScdRead, TypeOK, Quantities
<1>8. CASE ScdFailed
      BY <1>8 DEF ScdFailed, TypeOK, Quantities
<1>9. CASE ReadAnalog
      BY <1>9 DEF ReadAnalog, TypeOK, Quantities
<1>10. CASE SetTemp \/ SetHum
      BY <1>10 DEF SetTemp, SetHum
<1>11. CASE ZbTask
      BY <1>11 DEF ZbTask, sensorVars
<1>12. CASE Reset
      BY <1>12 DEF Reset, AllZero, Quantities
<1>13. CASE UNCHANGED vars
      BY <1>13 DEF vars, sensorVars
<1> QED BY <1>1, <1>2, <1>3, <1>4, <1>5, <1>6, <1>7, <1>8, <1>9, <1>10, <1>11, <1>12, <1>13
        DEF Next, SensorTask

\* A sensor that fails does not leave its value of an earlier cycle in the readings:
\* NoStaleReading holds in every state.
THEOREM NoStaleReadings == Spec => []NoStaleReading
<1>1. Current => NoStaleReading
      BY DEF Current
<1> QED BY <1>1, InitType, StepType, InitCurrent, StepCurrent, PTL DEF Spec

\* An earlier CO2 value is read only when the command that starts the measurement was
\* lost: CO2FollowsTrigger holds in every state.
THEOREM CO2OfThisCycle == Spec => []CO2FollowsTrigger
<1>1. Current => CO2FollowsTrigger
      BY DEF Current
<1> QED BY <1>1, InitType, StepType, InitCurrent, StepCurrent, PTL DEF Spec

-----------------------------------------------------------------------------
(* The two attributes                                                       *)

Together == NothingYet /\ ReadTogether /\ AttributesTrace /\ AttributesTogether

\* All is zero in the initial state.
LEMMA InitTogether == Init => Together
BY DEF Init, Together, NothingYet, ReadTogether, AttributesTrace, AttributesTogether, HumidityWith,
       AllZero, Quantities

\* No step parts the humidity from the temperature, in the readings or the attributes.
LEMMA StepTogether == TypeOK /\ Together /\ [Next]_vars => Together'
<1> SUFFICES ASSUME TypeOK, Together, [Next]_vars PROVE Together'
    OBVIOUS
<1> USE DEF Together, NothingYet, ReadTogether, AttributesTrace, AttributesTogether,
            HumidityWith, Go, bmeVars, zbVars
<1>1. CASE Setup
      BY <1>1 DEF Setup, SensorsInit, BmeInit, ScdInit, AllZero, Quantities
<1>2. CASE Clear
  <2>1. attr'.temp = Aged(attr.temp) /\ attr'.hum = Aged(attr.hum) /\ readings' = AllZero
        BY <1>2 DEF Clear, Quantities
  <2>2. attr = AllZero => attr' = AllZero
        BY <1>2 DEF Clear, AllZero, Aged
  <2> QED BY <1>2, <2>1, <2>2 DEF Clear, Aged, AllZero, Quantities
<1>3. CASE BmeRead
  <2>1. /\ readings'.temp = IF cal = "none" THEN "zero" ELSE Measured("temp")
        /\ readings'.hum = IF cal = "hum" THEN Measured("hum") ELSE "zero"
        BY <1>3 DEF BmeRead, TypeOK, Quantities
  <2>2. measuring = {} \/ measuring = {"temp"} \/ measuring = {"temp", "hum"}
        BY DEF TypeOK, Settings
  <2>3. readings'.hum = HumidityWith(readings'.temp) /\ readings'.temp \notin {"stale", "older"}
        BY <2>1, <2>2 DEF Measured
  <2> QED BY <1>3, <2>3 DEF BmeRead
<1>4. CASE BmeFailed \/ SingleShot
      BY <1>4 DEF BmeFailed, SingleShot
<1>5. CASE ReadLux \/ ScdRead \/ ScdFailed \/ ReadAnalog
  <2>1. readings'.temp = readings.temp /\ readings'.hum = readings.hum
        BY <1>5 DEF ReadLux, ScdRead, ScdFailed, ReadAnalog, TypeOK, Quantities
  <2>2. /\ pc \notin {"setup", "setHum"} /\ pc' \notin {"setup", "delay", "setHum", "sleep"}
        /\ UNCHANGED <<bmeVars, zbVars>>
        BY <1>5 DEF ReadLux, ScdRead, ScdFailed, ReadAnalog
  <2> QED BY <2>1, <2>2
<1>6. CASE SetTemp
      BY <1>6 DEF SetTemp, SetAttribute, TypeOK, Quantities, AllZero
<1>7. CASE SetHum
      BY <1>7 DEF SetHum, SetAttribute, TypeOK, Quantities, AllZero
<1>8. CASE ZbTask
  <2>1. CASE ZbRegister
    <3>1. attr = AllZero /\ attr.temp = "zero" /\ attr.hum = "zero"
          BY <2>1 DEF ZbRegister, AllZero, Quantities
    <3> QED BY <1>8, <2>1, <3>1 DEF ZbTask, ZbRegister, sensorVars
  <2>2. CASE OnSkipStartup \/ OnJoined \/ OnNotJoined
        BY <1>8, <2>2 DEF ZbTask, OnSkipStartup, OnJoined, OnNotJoined, sensorVars
  <2> QED BY <1>8, <2>1, <2>2 DEF ZbTask
<1>9. CASE Reset
      BY <1>9 DEF Reset, AllZero, Quantities
<1>10. CASE UNCHANGED vars
      BY <1>10 DEF vars, sensorVars
<1> QED BY <1>1, <1>2, <1>3, <1>4, <1>5, <1>6, <1>7, <1>8, <1>9, <1>10 DEF Next, SensorTask

\* The temperature and the humidity that the coordinator can read go together, except
\* between the two writes and, when the endpoint was registered there, until the next cycle;
\* and neither is ever older than the last cycle: AttributesTogether holds in every state.
THEOREM AttributesOfOneCycle == Spec => []AttributesTogether
<1>1. Together => AttributesTogether
      BY DEF Together
<1> QED BY <1>1, InitType, StepType, InitTogether, StepTogether, PTL DEF Spec
==============================================================================
