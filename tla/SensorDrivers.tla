---------------------------- MODULE SensorDrivers ----------------------------
(***************************************************************************)
(* What the drivers of app_sensors.c make of the raw readings of the       *)
(* sensors: the arithmetic between the I2C and ADC transfers and the       *)
(* fields of agrinet_sensor_readings_t.  Pure operators, which             *)
(* Bench.tla feeds with readings.                                    *)
(*                                                                         *)
(* x >> n is floor division by 2^n, also for a negative x.  TLC computes   *)
(* with 32 bits, as the code does in int32_t, and stops at an overflow.    *)
(***************************************************************************)
EXTENDS Integers, FiniteSetsExt

\* A cast to int16_t.
Int16(x) == ((x + 32768) % 65536) - 32768

-----------------------------------------------------------------------------
(* BME280                                                                   *)

Word(img, reg) == 256 * img[reg + 1] + img[reg]

\* bme280_read_calib, what temperature and humidity need of it, from an image
\* of the registers.  H4 and H5 share the register 0xE5.
Calibration(img) ==
    [T1 |-> Word(img, 136), T2 |-> Int16(Word(img, 138)), T3 |-> Int16(Word(img, 140)),
     H1 |-> img[161], H2 |-> Int16(Word(img, 225)), H3 |-> img[227],
     H4 |-> 16 * img[228] + (img[229] % 16),
     H5 |-> 16 * img[230] + (img[229] \div 16),
     H6 |-> IF img[231] < 128 THEN img[231] ELSE img[231] - 256]

\* t_fine, in bme280_read.
TFine(cal, adc_t) ==
    LET d == (adc_t \div 16) - cal.T1
        var1 == (((adc_t \div 8) - 2 * cal.T1) * cal.T2) \div 2048
        var2 == (((d * d) \div 4096) * cal.T3) \div 16384
    IN var1 + var2

\* Faulty variant: what the data sheet calls t_fine, cut to 16 bits.
TemperatureUnscaled(cal, adc_t) == Int16(TFine(cal, adc_t))

\* temp_cdeg: hundredths of a degree.
Temperature(cal, adc_t) == Int16((TFine(cal, adc_t) * 5 + 128) \div 256)

\* The two factors of v_x1, v being t_fine - 76800.
HumidityRaw(cal, v, adc_h) ==
    (adc_h * 16384 - cal.H4 * 1048576 - cal.H5 * v + 16384) \div 32768

GainBase(cal, v) ==
    (((v * cal.H6) \div 1024) * ((v * cal.H3) \div 2048 + 32768)) \div 1024 + 2097152

\* Faulty variant: rounded up in the wrong bit.
HumidityGainRounded(cal, v) == (GainBase(cal, v) * cal.H2 + 16384) \div 16384

HumidityGain(cal, v) == (GainBase(cal, v) * cal.H2 + 8192) \div 16384

\* v_x1 after its clamps: per cent times 2^22.
HumidityQ22(cal, adc_t, adc_h) ==
    LET v == TFine(cal, adc_t) - 76800
        x == HumidityRaw(cal, v, adc_h) * HumidityGain(cal, v)
        y == x - (((((x \div 32768) * (x \div 32768)) \div 128) * cal.H1) \div 16)
    IN IF y < 0 THEN 0 ELSE IF y > 419430400 THEN 419430400 ELSE y

\* hum_cdeg: shifted by 12 of the 22 bits, times 100.
Humidity(cal, adc_t, adc_h) == Int16((HumidityQ22(cal, adc_t, adc_h) \div 4096) * 100)

-----------------------------------------------------------------------------
(* BH1750                                                                   *)

\* raw / 1.2f, truncated.  1.2f is a little more than 1.2, so that a quotient that
\* should be whole may be rounded to the float below it: those in the upper half
\* of the interval between two powers of two, where floats are coarse enough.
Lux(raw) ==
    LET x == (5 * raw) \div 6
        upperHalf == \E p \in {1, 2, 4, 8, 16, 32, 64, 128, 256, 512, 1024, 2048, 4096,
                               8192, 16384, 32768} : 2 * x > 3 * p /\ x < 2 * p
    IN IF raw % 6 = 0 /\ upperHalf THEN x - 1 ELSE x

-----------------------------------------------------------------------------
(* SCD41: a byte of a frame is the set of its bits that are 1               *)

Byte == 0 .. 7

\* crc <<= 1, with the polynomial 0x31 when the bit shifted out is 1.
CrcShift(crc) ==
    SymDiff({b + 1 : b \in crc \ {7}}, IF 7 \in crc THEN {0, 4, 5} ELSE {})

Shift2(crc) == CrcShift(CrcShift(crc))

\* One byte of crc8's loop.
CrcByte(crc, byte) == Shift2(Shift2(Shift2(Shift2(SymDiff(crc, byte)))))

\* crc8 of two bytes, from 0xFF.
Crc8(high, low) == CrcByte(CrcByte(Byte, high), low)

\* Faulty variant: the word that is not used is not checked.
ScdAcceptedTwoWords(buf) ==
    \A w \in 0 .. 1 : Crc8(buf[3 * w + 1], buf[3 * w + 2]) = buf[3 * w + 3]

\* scd41_read takes the nine bytes: CO2, temperature, humidity, each two bytes and
\* their checksum.
ScdAccepted(buf) ==
    \A w \in 0 .. 2 : Crc8(buf[3 * w + 1], buf[3 * w + 2]) = buf[3 * w + 3]

\* temp_cdeg; the divisor is positive and so is the dividend.
ScdTemperature(raw) == Int16((raw * 17500) \div 65535 - 4500)

-----------------------------------------------------------------------------
(* The analog inputs                                                        *)

DryRaw == 3200
WetRaw == 1400

\* Faulty variant: a probe wetter than water is not clamped.
MoistureUnclamped(raw) ==
    IF raw >= DryRaw THEN 0 ELSE ((DryRaw - raw) * 10000) \div (DryRaw - WetRaw)

\* Faulty variant: the distance from the dry reading, on either side of it.
MoistureMirrored(raw) ==
    LET d == IF raw >= DryRaw THEN raw - DryRaw ELSE DryRaw - raw
    IN IF raw <= WetRaw THEN 10000 ELSE (d * 10000) \div (DryRaw - WetRaw)

\* read_soil_moisture_centi, when the ADC can be read.
Moisture(raw) ==
    IF raw >= DryRaw THEN 0
    ELSE IF raw <= WetRaw THEN 10000
    ELSE ((DryRaw - raw) * 10000) \div (DryRaw - WetRaw)

\* read_battery_pct: the voltage at the pin, mv from the calibration scheme.
PinMillivolts(raw, calibrated, mv) == IF calibrated THEN mv ELSE (raw * 1100) \div 4095

BatteryPct(pin) ==
    IF 2 * pin >= 4200 THEN 100
    ELSE IF 2 * pin <= 3000 THEN 0
    ELSE (2 * pin - 3000) \div 12
==============================================================================
