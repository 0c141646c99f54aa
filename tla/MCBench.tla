------------------------------- MODULE MCBench -------------------------------
(* Two BME280s, and one whose coefficients are read in part or not at all; a frame *)
(* of the SCD41's data sheet, and a bus without one.                               *)
EXTENDS Bench, TLC

\* A register image, given by the value of the words the drivers read.
Image(t1, t2, t3, h2) ==
    [r \in 136 .. 141 |->
        LET w == <<t1, t2, t3>>[(r - 134) \div 2] IN IF r % 2 = 0 THEN w % 256 ELSE w \div 256]
    @@ (161 :> 75)
    @@ (225 :> h2 % 256 @@ 226 :> h2 \div 256 @@ 227 :> 0 @@ 228 :> 19 @@ 229 :> 41
        @@ 230 :> 3 @@ 231 :> 30)

\* The example of the BME280's data sheet, T3 = -1000, and another sensor.
Example == Image(27504, 26435, 65536 - 1000, 362)
From(i, regs) == [r \in DOMAIN i |-> IF r \in regs THEN i[r] ELSE 0]

MCImages ==
    {Example, Image(28485, 26735, 50, 370),
     From(Example, 136 .. 161), From(Example, 136 .. 141), From(Example, {})}

BitsOf(n) == {b \in Byte : (n \div 2 ^ b) % 2 = 1}

\* 500 ppm, 25 degrees, 37 per cent; a bus that is stuck low, or high.
MCFrames ==
    {<<BitsOf(1), BitsOf(244), BitsOf(51), BitsOf(102), BitsOf(103), BitsOf(162),
       BitsOf(94), BitsOf(185), BitsOf(60)>>,
     [k \in 1 .. 9 |-> {}], [k \in 1 .. 9 |-> Byte]}

MCSweep ==
    [soil |-> [first |-> 0, last |-> 4095, step |-> 1],
     batteryCal |-> [first |-> 0, last |-> 3300, step |-> 1],
     batteryRaw |-> [first |-> 0, last |-> 4095, step |-> 1],
     lux |-> [first |-> 0, last |-> 65535, step |-> 1],
     scdTemp |-> [first |-> 0, last |-> 65535, step |-> 1],
     temp |-> [first |-> 0, last |-> 741440, step |-> 16],
     hum |-> [first |-> 0, last |-> 65535, step |-> 5]]
==============================================================================
