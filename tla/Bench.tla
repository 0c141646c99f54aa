-------------------------------- MODULE Bench --------------------------------
(***************************************************************************)
(* A bench for the conversions: raw values of one part after the other     *)
(* rise through their range, bits of a frame of the SCD41 flip on the bus, *)
(* alerts are raised.  Properties compare what the conversions make of     *)
(* neighbouring inputs.                                                    *)
(*                                                                         *)
(* The bench is the world outside the firmware; the firmware is in         *)
(* SensorDrivers and AlertMessage.                                         *)
(***************************************************************************)
EXTENDS SensorDrivers, AlertMessage

CONSTANTS
    Images,     \* register images of BME280 sensors: register -> byte
    Frames,     \* what may be on the bus when the SCD41 is read: nine bytes
    Sweep,      \* part -> [first, last, step] of its raw value
    MaxFlips    \* bound: bits flipped in a frame

Analog == {"soil", "batteryCal", "batteryRaw", "lux", "scdTemp"}
BmeParts == {"temp", "hum"}

ASSUME SweepAssumption ==
    /\ Sweep \in [Analog \cup BmeParts -> [first : Nat, last : Nat, step : Nat \ {0}]]
    /\ \A p \in {"lux", "scdTemp"} :      \* 16 bits on the bus
        Sweep[p].first <= Sweep[p].last /\ Sweep[p].last < 65536

\* The three temperature words are read in one transfer, into a cleared structure,
\* and a sensor's T1 is never 0.
ASSUME ImagesAssumption ==
    \A i \in Images :
        /\ i \in [(136 .. 141) \cup {161} \cup (225 .. 231) -> 0 .. 255]
        /\ Calibration(i).T1 = 0 => Calibration(i).T2 = 0 /\ Calibration(i).T3 = 0

\* A sensor that was calibrated has a linear term that outweighs the quadratic one (the
\* data sheet's example: T2 = 26435, T3 = -1000) and a gain of some ten thousands.  At
\* the ends of the sweep, 20 bits at most, the casts lose nothing: 16 bits are enough
\* for the temperature and 32 for the humidity.  That the temperature is in the range
\* the documents give is not assumed: nothing in the code sees to it.
ASSUME SensorsAssumption ==
    LET t == Sweep["temp"]
        h == Sweep["hum"]
    IN  /\ t.first <= t.last /\ t.last < 1048576 /\ h.first <= h.last
        /\ \A i \in Images :
            LET cal == Calibration(i)
                Degrees256(r) == TFine(cal, r) * 5 + 128
            IN  /\ cal.T1 # 0 =>
                    /\ cal.T2 >= 16384 /\ -2048 <= cal.T3 /\ cal.T3 <= 2048
                    /\ -32768 * 256 <= Degrees256(t.first) /\ Degrees256(t.last) < 32768 * 256
                /\ cal.H2 # 0 =>
                    \A v \in {TFine(cal, t.first) - 76800, TFine(cal, t.last) - 76800} :
                        LET gain == HumidityGain(cal, v)
                        IN  /\ gain >= 16384
                            /\ (HumidityRaw(cal, v, h.first) * gain) \div 32768 >= -65536
                            /\ (HumidityRaw(cal, v, h.last) * gain) \div 32768 < 65536

\* A bus without a sensor is stuck low or high.
Stuck == {[k \in 1 .. 9 |-> {}], [k \in 1 .. 9 |-> Byte]}

\* What the sensor sends carries the checksums; they are made for three flips.
ASSUME FramesAssumption ==
    /\ \A f \in Frames : f \in [1 .. 9 -> SUBSET Byte] /\ (f \in Stuck \/ ScdAccepted(f))
    /\ MaxFlips \in 0 .. 3

VARIABLES
    part,   \* what is on the bench
    raw,    \* its raw value
    img,    \* the BME280's registers, in a set
    adc_t,  \* its raw temperature while the humidity is swept
    frame,  \* the frame on the bus, in a set
    flips,  \* the bits of it that are flipped: <<byte, bit>>
    mask    \* the alerts that are raised

vars == <<part, raw, img, adc_t, frame, flips, mask>>

NotSwept == /\ raw = 0 /\ img = {} /\ adc_t = 0

Init ==
    \/ /\ part \in Analog /\ raw = Sweep[part].first
       /\ img = {} /\ adc_t = 0 /\ frame = {} /\ flips = {} /\ mask = {}
    \/ /\ part \in BmeParts /\ raw = Sweep[part].first
       /\ img \in {{i} : i \in Images}
       /\ adc_t \in IF part = "hum" THEN {Sweep["temp"].first, Sweep["temp"].last} ELSE {0}
       /\ frame = {} /\ flips = {} /\ mask = {}
    \/ /\ part = "frame" /\ frame \in {{f} : f \in Frames}
       /\ NotSwept /\ flips = {} /\ mask = {}
    \/ /\ part = "alerts" /\ mask = {}
       /\ NotSwept /\ frame = {} /\ flips = {}

\* The quantity measured rises by a step.
Rise ==
    /\ part \in Analog \cup BmeParts
    /\ raw + Sweep[part].step <= Sweep[part].last
    /\ raw' = raw + Sweep[part].step
    /\ UNCHANGED <<part, img, adc_t, frame, flips, mask>>

\* A bit of the frame is received as the other one.
Flip ==
    /\ part = "frame" /\ Cardinality(flips) < MaxFlips
    /\ \E k \in 1 .. 9, b \in Byte : flips' = flips \cup {<<k, b>>}
    /\ UNCHANGED <<part, raw, img, adc_t, frame, mask>>

Raise ==
    /\ part = "alerts"
    /\ \E k \in Alerts \ mask : mask' = mask \cup {k}
    /\ UNCHANGED <<part, raw, img, adc_t, frame, flips>>

Next == Rise \/ Flip \/ Raise

Spec == Init /\ [][Next]_vars

-----------------------------------------------------------------------------

Cal == Calibration(CHOOSE i \in img : TRUE)

\* The reading the firmware makes of the raw value.
Reading(r) ==
    CASE part = "temp" -> Temperature(Cal, r)
      [] part = "hum" -> HumidityQ22(Cal, adc_t, r)
      [] part = "lux" -> Lux(r)
      [] part = "scdTemp" -> ScdTemperature(r)
      [] part = "soil" -> Moisture(r)
      [] part = "batteryCal" -> BatteryPct(PinMillivolts(0, TRUE, r))
      [] part = "batteryRaw" -> BatteryPct(PinMillivolts(r, FALSE, 0))

\* The range docs/MQTT_API.md gives the field of the telemetry, in the unit of the
\* reading.  The temperatures are not among them: nothing in the code limits them.
Declared ==
    [lux |-> [min |-> 0, max |-> 65534], soil |-> [min |-> 0, max |-> 10000],
     batteryCal |-> [min |-> 0, max |-> 100], batteryRaw |-> [min |-> 0, max |-> 100]]

Within(x, range) == range.min <= x /\ x <= range.max

Sent == CHOOSE f \in frame : TRUE
WithFlips(f, bits) == [k \in 1 .. 9 |-> SymDiff(f[k], {b \in Byte : <<k, b>> \in bits})]

(* Properties                                                                *)

\* Light, soil moisture and battery are within the documented ranges for every raw
\* value: a probe wetter than water or drier than air and a battery above 4.2 V or
\* below 3 V are clamped before the division.
ReadingsInRange == part \in DOMAIN Declared => Within(Reading(raw), Declared[part])

\* A BME280 whose coefficients could not be read is read as 0 degrees and 0 per
\* cent, whatever it measures: a number without the coefficients behind it is
\* never reported.  The rounding constants in the expressions would be enough to make one.
MissedCalibration ==
    /\ part = "temp" /\ Cal.T1 = 0 => Reading(raw) = 0
    /\ part = "hum" /\ Cal.H2 = 0 => Reading(raw) = 0

\* Brighter, fuller, warmer is never read as the opposite, not even by one unit:
\* no rounding, clamp or cast turns the order of two readings around.  The probe
\* in the soil reads less the wetter it is.
OrderKept ==
    [][raw' > raw /\ part \in Analog =>
        IF part = "soil" THEN Reading(raw') <= Reading(raw) ELSE Reading(raw') >= Reading(raw)]_vars

\* The same of the BME280 with its shifts, for given coefficients.
BmeOrderKept ==
    [][raw' > raw /\ part \in BmeParts => Reading(raw') >= Reading(raw)]_vars

\* A frame the SCD41 sent is taken as it was sent and not with up to MaxFlips bits
\* flipped, wherever they are; a bus without a sensor is never taken for one, not
\* with as many flips either.
CorruptionRefused ==
    part = "frame" =>
        (ScdAccepted(WithFlips(Sent, flips)) <=> flips = {} /\ Sent \notin Stuck)

\* Every alert in the mask is named in the message, and the message fits, for the
\* longest identifier and the widest mask.
AlertsComplete == Listing(mask).listed = mask /\ AlertPublished(mask, 15, 10)

\* What a comment says and the code does otherwise.

\* Humidity is in hundredths of a per cent.
HumidityInRange == part = "hum" => Humidity(Cal, adc_t, raw) \in 0 .. 10000
==============================================================================
