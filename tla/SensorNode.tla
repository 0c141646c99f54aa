------------------------------ MODULE SensorNode ------------------------------
(***************************************************************************)
(* The sensor node: app_main with app_sensors_init, the measurement task   *)
(* (sensor_task of main.c with app_sensors_read) next to the Zigbee task,  *)
(* which registers the endpoint and joins the network.  The two share the  *)
(* attributes of the endpoint.                                             *)
(*                                                                         *)
(* A value is what matters about it here: measured in this cycle, in the   *)
(* last one or before that, the zero of a cleared structure, what the      *)
(* registers of a sensor hold that never measured, or what an              *)
(* uninitialised variable or a division by zero gives.                     *)
(* Every access to a sensor may fail.  The sensors are external; the SCD41 *)
(* keeps the result of the last single shot until it is read.              *)
(***************************************************************************)
EXTENDS Naturals

Quantities == {"temp", "hum", "press", "lux", "co2", "soilTemp", "soil", "batt"}
Values == {"zero", "fresh", "stale", "older", "default", "garbage", "failed"}

VARIABLES
    pc,         \* where app_main, then sensor_task is
    cal,        \* s_bme_cal: the last group of coefficients that was read
    measuring,  \* what the BME280 has been told to measure
    readings,   \* its readings, and its snap: the conversion copies
    bme_t,      \* the local of app_sensors_read
    scd,        \* the result the SCD41 holds: "none", "fresh", "stale"
    triggered,  \* history: the SCD41 took the single shot of this cycle
    attr,       \* the attributes of the endpoint
    torn,       \* history: the endpoint was registered between the two writes of
                \* a cycle, and the next cycle has not written yet
    zb          \* the Zigbee task and its stack

bmeVars == <<cal, measuring>>
sensorVars == <<pc, bmeVars, readings, bme_t, scd, triggered>>
zbVars == <<attr, torn, zb>>
vars == <<sensorVars, zbVars>>

AllZero == [q \in Quantities |-> "zero"]

\* bme280_read_calib stops at the first group of coefficients it cannot read; the
\* others stay 0.
Groups == {"none", "temp", "press", "hum"}

\* The soft reset leaves the BME280 asleep.  ctrl (0xF4) starts it; ctrl_hum (0xF2),
\* which comes before it, has it measure the humidity as well.
Settings == {{}, {"temp"}, {"temp", "hum"}}

\* The static variables after a reset.
Init ==
    /\ pc = "setup"
    /\ cal = "none" /\ measuring = {}
    /\ readings = AllZero
    /\ bme_t = "garbage"
    /\ scd \in {"none", "stale"}
    /\ triggered = FALSE
    /\ attr = AllZero /\ torn = FALSE
    /\ zb = "none"

-----------------------------------------------------------------------------
(* app_main                                                                 *)

Go(from, to) == pc = from /\ pc' = to

\* bme280_init: either register write may be lost, as their outcome is not looked at; and
\* scd41_init, which may start a first single shot.
BmeInit == cal' \in Groups /\ measuring' \in Settings
ScdInit == scd' \in {"none", "stale"}

\* app_sensors_init: what became of the sensors is not looked at.
SensorsInit == BmeInit /\ ScdInit

\* app_main: then the tasks are created.  Errors before or after that end in a reset.
Setup ==
    /\ Go("setup", "delay")
    /\ SensorsInit
    /\ zb' = "created"
    /\ UNCHANGED <<readings, bme_t, triggered, attr, torn>>

-----------------------------------------------------------------------------
(* The measurement task                                                     *)

\* What was measured in the last cycle is stale now, and what was stale is older.
Aged(v) == IF v = "fresh" THEN "stale" ELSE IF v = "stale" THEN "older" ELSE v
Waiting(result) == IF result = "none" THEN "none" ELSE "stale"

\* Faulty variant: the readings are not cleared.
ClearNothing ==
    /\ Go("delay", "bme") \/ Go("sleep", "bme")
    /\ readings' = [q \in Quantities |-> Aged(readings[q])]
    /\ bme_t' = "garbage"
    /\ scd' = Waiting(scd) /\ triggered' = FALSE
    /\ attr' = [q \in Quantities |-> Aged(attr[q])]
    /\ UNCHANGED <<bmeVars, torn, zb>>

\* Faulty variant: the local variable keeps its value from call to call.
ClearKeepsLocal ==
    /\ Go("delay", "bme") \/ Go("sleep", "bme")
    /\ readings' = AllZero
    /\ bme_t' = Aged(bme_t)
    /\ scd' = Waiting(scd) /\ triggered' = FALSE
    /\ attr' = [q \in Quantities |-> Aged(attr[q])]
    /\ UNCHANGED <<bmeVars, torn, zb>>

\* A cycle starts: app_sensors_read clears the readings.
Clear ==
    /\ Go("delay", "bme") \/ Go("sleep", "bme")
    /\ readings' = AllZero
    /\ bme_t' = "garbage"
    /\ scd' = Waiting(scd) /\ triggered' = FALSE
    /\ attr' = [q \in Quantities |-> Aged(attr[q])]
    /\ UNCHANGED <<bmeVars, torn, zb>>

\* What a register of the BME280 gives.
Measured(q) == IF q \in measuring THEN "fresh" ELSE "default"

\* bme280_read with the coefficients there are.  Where they are missing the
\* arithmetic makes 0 of every temperature and humidity (MissedCalibration of
\* Bench), and divides by zero for the pressure, which is measured with the temperature.
BmeRead ==
    /\ Go("bme", "lux")
    /\ bme_t' = IF cal = "none" THEN "zero" ELSE Measured("temp")
    /\ readings' = [readings EXCEPT
           !.temp = bme_t',
           !.hum = IF cal = "hum" THEN Measured("hum") ELSE "zero",
           !.press = IF cal \in {"press", "hum"} THEN Measured("temp") ELSE "garbage"]
    /\ UNCHANGED <<bmeVars, scd, triggered, zbVars>>

BmeFailed ==
    /\ Go("bme", "lux")
    /\ UNCHANGED <<bmeVars, readings, bme_t, scd, triggered, zbVars>>

ReadLux ==
    /\ Go("lux", "single")
    /\ readings' \in {readings, [readings EXCEPT !.lux = "fresh"]}
    /\ UNCHANGED <<bmeVars, bme_t, scd, triggered, zbVars>>

\* Faulty variant: what is sent does not start a measurement.
SingleShotOfNothing ==
    /\ Go("single", "scd")
    /\ triggered' = TRUE
    /\ UNCHANGED <<bmeVars, readings, bme_t, scd, zbVars>>

\* The single shot is sent, the outcome is not looked at; then 5 s pass.
SingleShot ==
    /\ Go("single", "scd")
    /\ \/ triggered' = TRUE /\ scd' = "fresh"
       \/ UNCHANGED <<triggered, scd>>
    /\ UNCHANGED <<bmeVars, readings, bme_t, zbVars>>

ScdRead ==
    /\ Go("scd", "analog")
    /\ scd # "none"
    /\ readings' = [readings EXCEPT !.co2 = scd, !.soilTemp = scd]
    /\ scd' = "none"
    /\ UNCHANGED <<bmeVars, bme_t, triggered, zbVars>>

\* Faulty variant: the read is repeated until it succeeds.
ScdRepeats ==
    /\ pc = "scd"
    /\ readings' = [readings EXCEPT !.soilTemp = bme_t]
    /\ UNCHANGED <<pc, bmeVars, bme_t, scd, triggered, zbVars>>

\* Fall back to the temperature of the BME280, in the local variable.
ScdFailed ==
    /\ Go("scd", "analog")
    /\ readings' = [readings EXCEPT !.soilTemp = bme_t]
    /\ UNCHANGED <<bmeVars, bme_t, scd, triggered, zbVars>>

\* Soil moisture and battery; a read that fails gives 0 and -1.
\* app_sensors_read returns ESP_OK whatever has failed.
ReadAnalog ==
    /\ Go("analog", "setTemp")
    /\ \E soil \in {"fresh", "zero"}, batt \in {"fresh", "failed"} :
           readings' = [readings EXCEPT !.soil = soil, !.batt = batt]
    /\ UNCHANGED <<bmeVars, bme_t, scd, triggered, zbVars>>

\* esp_zb_zcl_set_attribute_val; nothing happens before the endpoint exists.
SetAttribute(q) ==
    attr' = IF zb \in {"none", "created"} THEN attr ELSE [attr EXCEPT ![q] = readings[q]]

\* Faulty variant: a temperature of zero is taken for a failed measurement.
SetTempUnlessZero ==
    /\ Go("setTemp", "setHum")
    /\ IF readings.temp = "zero" THEN UNCHANGED attr ELSE SetAttribute("temp")
    /\ torn' = FALSE
    /\ UNCHANGED <<bmeVars, readings, bme_t, scd, triggered, zb>>

SetTemp ==
    /\ Go("setTemp", "setHum")
    /\ SetAttribute("temp")
    /\ torn' = FALSE
    /\ UNCHANGED <<bmeVars, readings, bme_t, scd, triggered, zb>>

SetHum ==
    /\ Go("setHum", "sleep")
    /\ SetAttribute("hum")
    /\ UNCHANGED <<bmeVars, readings, bme_t, scd, triggered, torn, zb>>

SensorTask ==
    \/ Setup \/ Clear \/ BmeRead \/ BmeFailed \/ ReadLux
    \/ SingleShot \/ ScdRead \/ ScdFailed \/ ReadAnalog
    \/ SetTemp \/ SetHum

-----------------------------------------------------------------------------
(* The Zigbee task                                                          *)

\* The endpoint is registered and the stack started.
ZbRegister == zb = "created" /\ zb' = "registered" /\ torn' = (pc = "setHum")

\* ESP_ZB_ZDO_SIGNAL_SKIP_STARTUP.
OnSkipStartup == zb = "registered" /\ zb' = "steering" /\ UNCHANGED torn

\* ESP_ZB_BDB_SIGNAL_STEERING: a line is logged in both cases.
OnJoined == zb = "steering" /\ zb' = "joined" /\ UNCHANGED torn
OnNotJoined == zb = "steering" /\ zb' = "alone" /\ UNCHANGED torn

ZbTask ==
    /\ ZbRegister \/ OnSkipStartup \/ OnJoined \/ OnNotJoined
    /\ UNCHANGED <<sensorVars, attr>>

\* A reset, at any moment: ESP_ERROR_CHECK, the watchdog, the battery.
Reset ==
    /\ pc' = "setup" /\ cal' = "none" /\ measuring' = {}
    /\ readings' = AllZero /\ bme_t' = "garbage"
    /\ scd' \in {"none", "stale"} /\ triggered' = FALSE
    /\ attr' = AllZero /\ torn' = FALSE /\ zb' = "none"

Next == SensorTask \/ ZbTask \/ Reset

\* Both tasks are scheduled, and the stack reports what became of the steering.
Spec ==
    /\ Init /\ [][Next]_vars
    /\ WF_vars(SensorTask) /\ WF_vars(ZbTask)

-----------------------------------------------------------------------------
(* Properties                                                                *)

\* Every variable holds a value of its kind.
TypeOK ==
    /\ pc \in {"setup", "delay", "bme", "lux", "single", "scd", "analog", "setTemp", "setHum", "sleep"}
    /\ cal \in Groups /\ measuring \in Settings
    /\ readings \in [Quantities -> Values] /\ attr \in [Quantities -> Values]
    /\ bme_t \in {"fresh", "zero", "default", "garbage"}
    /\ scd \in {"none", "fresh", "stale"}
    /\ triggered \in BOOLEAN /\ torn \in BOOLEAN
    /\ zb \in {"none", "created", "registered", "steering", "joined", "alone"}

\* A sensor that fails in one cycle does not leave its value of an earlier
\* cycle in the readings, whichever sensors failed before.  (The SCD41 may:
\* see CO2FollowsTrigger.)
NoStaleReading ==
    \A q \in Quantities \ {"co2", "soilTemp"} : readings[q] \notin {"stale", "older"}

\* The CO2 value is an earlier measurement's only when the command that starts
\* the measurement of this cycle was lost.
CO2FollowsTrigger == readings.co2 = "stale" => ~triggered

\* The humidity that goes with a temperature: 0 if its coefficients could not be read or
\* the BME280 was not read at all, the reset value if it is not measured, or else a
\* humidity of the temperature's own cycle.
HumidityWith(temp) ==
    IF cal # "hum" \/ temp = "zero" THEN "zero"
    ELSE IF "hum" \in measuring THEN temp ELSE "default"

\* The temperature and the humidity the coordinator can read go together, whichever
\* sensors failed in this cycle or another one, and neither is ever of a cycle before the
\* last.  There are two exceptions.  While the task is between the two writes the humidity
\* is the last cycle's.  And when the endpoint is registered at that very point, only
\* the humidity of that cycle arrives: the temperature is 0 until the next one writes.
AttributesTogether ==
    /\ pc # "setHum" /\ ~torn => attr.hum = HumidityWith(attr.temp)
    /\ torn => attr.temp = "zero"
    /\ "older" \notin {attr.temp, attr.hum}

\* Cycle follows on cycle, whichever sensors fail and without a network.
KeepsMeasuring == []<>(pc \in {"sleep", "delay"})

\* What a comment says and the code does otherwise.

\* The soil temperature falls back to the temperature of the BME280.
SoilTempMeasured == readings.soilTemp # "garbage"

==============================================================================
