----------------------------- MODULE BenchProofs -----------------------------
(***************************************************************************)
(* Proofs about Bench: a damaged frame is refused, every alert is named,   *)
(* light, moisture and battery stay in their ranges, readings in order,    *)
(* for every frame, mask and raw value.                                    *)
(*                                                                         *)
(* The frame: one shift of the checksum is linear over the symmetric       *)
(* difference of two bytes (ShiftLinear), hence so is the checksum         *)
(* (Crc8Linear).  What a flipped bit adds to the difference between        *)
(* computed and received checksum therefore depends on its place only: a   *)
(* power of x, that is, the lowest bit shifted a number of times.  In one  *)
(* word all powers differ, and all have an odd number of bits              *)
(* (PowersDiffer), so that one to three flips never add up to nothing      *)
(* (FlipsRefused).                                                         *)
(*                                                                         *)
(* The BME280: the linear term of the temperature outweighs the quadratic  *)
(* one (TFineRises), and the humidity's product rises by more than its     *)
(* correction does (CorrectionKeepsOrder).                                 *)
(***************************************************************************)
EXTENDS Bench, FiniteSetTheorems, TLAPS

-----------------------------------------------------------------------------
(* The checksum                                                             *)

\* A shift moves every bit up and sets the bits of the polynomial.
LEMMA ShiftBits ==
    ASSUME NEW c \in SUBSET Byte
    PROVE  /\ CrcShift(c) \subseteq Byte
           /\ 0 \in CrcShift(c) <=> 7 \in c
           /\ 1 \in CrcShift(c) <=> 0 \in c
           /\ 2 \in CrcShift(c) <=> 1 \in c
           /\ 3 \in CrcShift(c) <=> 2 \in c
           /\ 4 \in CrcShift(c) <=> ~(3 \in c <=> 7 \in c)
           /\ 5 \in CrcShift(c) <=> ~(4 \in c <=> 7 \in c)
           /\ 6 \in CrcShift(c) <=> 5 \in c
           /\ 7 \in CrcShift(c) <=> 6 \in c
<1> DEFINE up == {b + 1 : b \in c \ {7}}
           poly == IF 7 \in c THEN {0, 4, 5} ELSE {}
<1>1. CrcShift(c) = (up \ poly) \cup (poly \ up)
  BY DEF CrcShift, SymDiff
<1>2. \A n \in Byte : n \in up <=> n # 0 /\ n - 1 \in c
  BY DEF Byte
<1>3. up \subseteq Byte
  BY DEF Byte
<1>4. /\ 0 \notin up
      /\ 1 \in up <=> 0 \in c
      /\ 2 \in up <=> 1 \in c
      /\ 3 \in up <=> 2 \in c
      /\ 4 \in up <=> 3 \in c
      /\ 5 \in up <=> 4 \in c
      /\ 6 \in up <=> 5 \in c
      /\ 7 \in up <=> 6 \in c
  BY <1>2 DEF Byte
<1>5. poly \subseteq Byte /\ (\A n \in Byte : n \in poly <=> 7 \in c /\ n \in {0, 4, 5})
  BY DEF Byte
<1> HIDE DEF up, poly
<1>6. \A n \in Byte : n \in CrcShift(c) <=> ~(n \in up <=> n \in poly)
  BY <1>1
<1>7. CrcShift(c) \subseteq Byte
  BY <1>1, <1>3, <1>5
<1> QED
  BY <1>4, <1>5, <1>6, <1>7 DEF Byte

\* Two bytes are the same if their eight bits are.
LEMMA ByteEqual ==
    ASSUME NEW c \in SUBSET Byte, NEW d \in SUBSET Byte,
           \A n \in Byte : n \in c <=> n \in d
    PROVE  c = d
BY DEF Byte

\* The difference of two bytes, bit by bit.
LEMMA DiffBits ==
    ASSUME NEW c \in SUBSET Byte, NEW d \in SUBSET Byte
    PROVE  /\ SymDiff(c, d) \in SUBSET Byte
           /\ \A n \in Byte : n \in SymDiff(c, d) <=> ~(n \in c <=> n \in d)
BY DEF SymDiff

\* The shift is linear: what it makes of a difference is the difference of what it
\* makes of the two.
LEMMA ShiftLinear ==
    ASSUME NEW c \in SUBSET Byte, NEW d \in SUBSET Byte
    PROVE  CrcShift(SymDiff(c, d)) = SymDiff(CrcShift(c), CrcShift(d))
<1> DEFINE e == SymDiff(c, d)
<1>1. e \in SUBSET Byte /\ \A n \in Byte : n \in e <=> ~(n \in c <=> n \in d)
  BY DiffBits
<1> HIDE DEF e
<1>2. CrcShift(c) \in SUBSET Byte /\ CrcShift(d) \in SUBSET Byte /\ CrcShift(e) \in SUBSET Byte
  BY ShiftBits, <1>1
<1> DEFINE x == CrcShift(c)
           y == CrcShift(d)
           z == CrcShift(e)
           w == SymDiff(x, y)
<1>3. w \in SUBSET Byte /\ \A n \in Byte : n \in w <=> ~(n \in x <=> n \in y)
  BY <1>2, DiffBits
<1>4. /\ 0 \in e <=> ~(0 \in c <=> 0 \in d)
      /\ 1 \in e <=> ~(1 \in c <=> 1 \in d)
      /\ 2 \in e <=> ~(2 \in c <=> 2 \in d)
      /\ 3 \in e <=> ~(3 \in c <=> 3 \in d)
      /\ 4 \in e <=> ~(4 \in c <=> 4 \in d)
      /\ 5 \in e <=> ~(5 \in c <=> 5 \in d)
      /\ 6 \in e <=> ~(6 \in c <=> 6 \in d)
      /\ 7 \in e <=> ~(7 \in c <=> 7 \in d)
  BY <1>1 DEF Byte
<1>5. \A n \in Byte : n \in z <=> ~(n \in x <=> n \in y)
  BY <1>1, <1>4, ShiftBits DEF Byte
<1>6. z = w
  <2> HIDE DEF w, z
  <2> QED BY <1>2, <1>3, <1>5, ByteEqual DEF z
<1> QED
  BY <1>6 DEF e

\* Two shifts and the eight shifts of a byte are linear, too.
LEMMA Shift2Linear ==
    ASSUME NEW c \in SUBSET Byte, NEW d \in SUBSET Byte
    PROVE  /\ Shift2(c) \in SUBSET Byte
           /\ Shift2(SymDiff(c, d)) = SymDiff(Shift2(c), Shift2(d))
<1>1. CrcShift(c) \in SUBSET Byte /\ CrcShift(d) \in SUBSET Byte
  BY ShiftBits
<1>2. CrcShift(CrcShift(c)) \in SUBSET Byte
  BY <1>1, ShiftBits
<1>3. CrcShift(SymDiff(c, d)) = SymDiff(CrcShift(c), CrcShift(d))
  BY ShiftLinear
<1>4. CrcShift(SymDiff(CrcShift(c), CrcShift(d)))
        = SymDiff(CrcShift(CrcShift(c)), CrcShift(CrcShift(d)))
  BY <1>1, ShiftLinear
<1> QED
  BY <1>2, <1>3, <1>4 DEF Shift2

\* Eight shifts of a byte.
Shift8(c) == Shift2(Shift2(Shift2(Shift2(c))))

LEMMA Shift8Linear ==
    ASSUME NEW c \in SUBSET Byte, NEW d \in SUBSET Byte
    PROVE  /\ Shift8(c) \in SUBSET Byte
           /\ Shift8(SymDiff(c, d)) = SymDiff(Shift8(c), Shift8(d))
<1> DEFINE c2 == Shift2(c)  c4 == Shift2(c2)  c6 == Shift2(c4)
           d2 == Shift2(d)  d4 == Shift2(d2)  d6 == Shift2(d4)
<1>1. /\ c2 \in SUBSET Byte /\ d2 \in SUBSET Byte
      /\ Shift2(SymDiff(c, d)) = SymDiff(c2, d2)
  BY Shift2Linear
<1> HIDE DEF c2, d2
<1>2. /\ c4 \in SUBSET Byte /\ d4 \in SUBSET Byte
      /\ Shift2(SymDiff(c2, d2)) = SymDiff(c4, d4)
  BY <1>1, Shift2Linear
<1> HIDE DEF c4, d4
<1>3. /\ c6 \in SUBSET Byte /\ d6 \in SUBSET Byte
      /\ Shift2(SymDiff(c4, d4)) = SymDiff(c6, d6)
  BY <1>2, Shift2Linear
<1> HIDE DEF c6, d6
<1>4. /\ Shift2(c6) \in SUBSET Byte
      /\ Shift2(SymDiff(c6, d6)) = SymDiff(Shift2(c6), Shift2(d6))
  BY <1>3, Shift2Linear
<1> QED
  BY <1>1, <1>2, <1>3, <1>4 DEF Shift8, c2, c4, c6, d2, d4, d6

\* The remainders of the powers of x: what a bit becomes n shifts after it was bit 0.
Power(n) ==
    CASE n = 0 -> {0}
      [] n = 1 -> {1}
      [] n = 2 -> {2}
      [] n = 3 -> {3}
      [] n = 4 -> {4}
      [] n = 5 -> {5}
      [] n = 6 -> {6}
      [] n = 7 -> {7}
      [] n = 8 -> {0, 4, 5}
      [] n = 9 -> {1, 5, 6}
      [] n = 10 -> {2, 6, 7}
      [] n = 11 -> {0, 3, 4, 5, 7}
      [] n = 12 -> {0, 1, 6}
      [] n = 13 -> {1, 2, 7}
      [] n = 14 -> {0, 2, 3, 4, 5}
      [] n = 15 -> {1, 3, 4, 5, 6}
      [] n = 16 -> {2, 4, 5, 6, 7}
      [] n = 17 -> {0, 3, 4, 6, 7}
      [] n = 18 -> {0, 1, 7}
      [] n = 19 -> {0, 1, 2, 4, 5}
      [] n = 20 -> {1, 2, 3, 5, 6}
      [] n = 21 -> {2, 3, 4, 6, 7}
      [] n = 22 -> {0, 3, 7}
      [] n = 23 -> {0, 1, 5}

\* A shift takes every power to the next one.
LEMMA NextPower ==
    /\ \A n \in 0 .. 23 : Power(n) \in SUBSET Byte
    /\ \A n \in 0 .. 22 : CrcShift(Power(n)) = Power(n + 1)
<1>1. \A n \in 0 .. 23 : Power(n) \in SUBSET Byte
  BY DEF Power, Byte
<1>2. ASSUME NEW n \in 0 .. 22
      PROVE  CrcShift(Power(n)) = Power(n + 1)
  <2>1. /\ Power(n) \in SUBSET Byte /\ Power(n + 1) \in SUBSET Byte
        /\ CrcShift(Power(n)) \in SUBSET Byte
    BY <1>1, ShiftBits
  <2>2. \A b \in Byte : b \in CrcShift(Power(n)) <=> b \in Power(n + 1)
    <3> DEFINE c == Power(n)
    <3>1. CASE n \in 0 .. 5
      BY <3>1, <2>1, ShiftBits DEF Byte, Power
    <3>2. CASE n \in 6 .. 11
      BY <3>2, <2>1, ShiftBits DEF Byte, Power
    <3>3. CASE n \in 12 .. 17
      BY <3>3, <2>1, ShiftBits DEF Byte, Power
    <3>4. CASE n \in 18 .. 22
      BY <3>4, <2>1, ShiftBits DEF Byte, Power
    <3> QED BY <3>1, <3>2, <3>3, <3>4
  <2> QED
    BY <2>1, <2>2, ByteEqual
<1> QED
  BY <1>1, <1>2

\* The parity of a byte: whether an odd number of its bits is 1.
Odd(c) ==
    0 \in c <=> (1 \in c <=> (2 \in c <=> (3 \in c <=>
        (4 \in c <=> (5 \in c <=> (6 \in c <=> 7 \notin c))))))

\* The parity of a difference is the difference of the parities.
LEMMA OddDiff ==
    ASSUME NEW c \in SUBSET Byte, NEW d \in SUBSET Byte
    PROVE  Odd(SymDiff(c, d)) <=> ~(Odd(c) <=> Odd(d))
BY DiffBits DEF Odd, Byte

\* Every power is odd (the polynomial has the factor x + 1), and no two are the same.
LEMMA PowersDiffer ==
    /\ \A n \in 0 .. 23 : Odd(Power(n))
    /\ \A m, n \in 0 .. 23 : Power(m) = Power(n) => m = n
    /\ ~Odd({})
<1>1. \A n \in 0 .. 23 : Odd(Power(n))
  BY DEF Power, Odd
<1>2. \A m, n \in 0 .. 23 : Power(m) = Power(n) => m = n
  BY DEF Power
<1>3. ~Odd({})
  BY DEF Odd
<1> QED
  BY <1>1, <1>2, <1>3

\* Differences commute, associate, and are empty between equal bytes only.
LEMMA DiffLaws ==
    ASSUME NEW c \in SUBSET Byte, NEW d \in SUBSET Byte, NEW e \in SUBSET Byte
    PROVE  /\ SymDiff(SymDiff(c, d), e) = SymDiff(c, SymDiff(d, e))
           /\ SymDiff(c, d) = SymDiff(d, c)
           /\ SymDiff(c, d) = {} <=> c = d
           /\ SymDiff(c, {}) = c
           /\ SymDiff({}, c) = c
BY DEF SymDiff

\* Eight shifts take a power eight further.
LEMMA EightFurther ==
    ASSUME NEW n \in 0 .. 15
    PROVE  Shift8(Power(n)) = Power(n + 8)
<1>1. \A m \in 0 .. 21 : Shift2(Power(m)) = Power(m + 2)
  BY NextPower DEF Shift2
<1>2. /\ Shift2(Power(n)) = Power(n + 2)
      /\ Shift2(Power(n + 2)) = Power(n + 4)
      /\ Shift2(Power(n + 4)) = Power(n + 6)
      /\ Shift2(Power(n + 6)) = Power(n + 8)
  BY <1>1
<1> QED
  BY <1>2 DEF Shift8

\* The checksum in terms of eight shifts, and its type.
LEMMA Crc8Shifts ==
    ASSUME NEW high \in SUBSET Byte, NEW low \in SUBSET Byte
    PROVE  /\ Shift8(SymDiff(Byte, high)) \in SUBSET Byte
           /\ Crc8(high, low) = Shift8(SymDiff(Shift8(SymDiff(Byte, high)), low))
           /\ Crc8(high, low) \in SUBSET Byte
<1>1. SymDiff(Byte, high) \in SUBSET Byte
  BY DiffBits
<1>2. Shift8(SymDiff(Byte, high)) \in SUBSET Byte
  BY <1>1, Shift8Linear
<1>3. Crc8(high, low) = Shift8(SymDiff(Shift8(SymDiff(Byte, high)), low))
  BY DEF Crc8, CrcByte, Shift8
<1>4. SymDiff(Shift8(SymDiff(Byte, high)), low) \in SUBSET Byte
  BY <1>2, DiffBits
<1>5. Crc8(high, low) \in SUBSET Byte
  BY <1>3, <1>4, Shift8Linear
<1> QED
  BY <1>2, <1>3, <1>5

\* A difference in a byte of the checksum's input is a difference in the checksum that
\* depends on nothing else.
LEMMA Crc8Linear ==
    ASSUME NEW high \in SUBSET Byte, NEW low \in SUBSET Byte, NEW d \in SUBSET Byte
    PROVE  /\ Crc8(high, SymDiff(low, d)) = SymDiff(Crc8(high, low), Shift8(d))
           /\ Crc8(SymDiff(high, d), low) = SymDiff(Crc8(high, low), Shift8(Shift8(d)))
<1> DEFINE h0 == SymDiff(Byte, high)
           h == Shift8(h0)
           l == SymDiff(h, low)
<1>0. Byte \in SUBSET Byte
  OBVIOUS
<1>1. h0 \in SUBSET Byte /\ h \in SUBSET Byte
  BY <1>0, DiffBits, Shift8Linear
<1>2. l \in SUBSET Byte
  BY <1>1, DiffBits
<1>3. Crc8(high, low) = Shift8(l)
  BY Crc8Shifts
<1>4. Crc8(high, SymDiff(low, d)) = SymDiff(Crc8(high, low), Shift8(d))
  <2>1. SymDiff(low, d) \in SUBSET Byte
    BY DiffBits
  <2>2. Crc8(high, SymDiff(low, d)) = Shift8(SymDiff(h, SymDiff(low, d)))
    BY <2>1, Crc8Shifts
  <2> HIDE DEF h
  <2>3. SymDiff(h, SymDiff(low, d)) = SymDiff(l, d)
    BY <1>1, DiffLaws
  <2> HIDE DEF l
  <2>4. Shift8(SymDiff(l, d)) = SymDiff(Shift8(l), Shift8(d))
    BY <1>2, Shift8Linear
  <2> QED
    BY <1>3, <2>2, <2>3, <2>4
<1>5. Crc8(SymDiff(high, d), low) = SymDiff(Crc8(high, low), Shift8(Shift8(d)))
  <2> DEFINE s == Shift8(d)
  <2>1. SymDiff(high, d) \in SUBSET Byte /\ s \in SUBSET Byte
    BY DiffBits, Shift8Linear
  <2>2. Crc8(SymDiff(high, d), low)
          = Shift8(SymDiff(Shift8(SymDiff(Byte, SymDiff(high, d))), low))
    BY <2>1, Crc8Shifts
  <2>3. SymDiff(Byte, SymDiff(high, d)) = SymDiff(h0, d)
    BY <1>0, DiffLaws
  <2> HIDE DEF h0
  <2>4. Shift8(SymDiff(h0, d)) = SymDiff(h, s)
    BY <1>1, Shift8Linear
  <2> HIDE DEF h, s
  <2>5. SymDiff(SymDiff(h, s), low) = SymDiff(SymDiff(h, low), s)
    BY <1>1, <2>1, DiffLaws
  <2> HIDE DEF l
  <2>6. Shift8(SymDiff(l, s)) = SymDiff(Shift8(l), Shift8(s))
    BY <1>2, <2>1, Shift8Linear
  <2> QED
    BY <1>3, <2>2, <2>3, <2>4, <2>5, <2>6 DEF s, l
<1> QED
  BY <1>4, <1>5

-----------------------------------------------------------------------------
(* Frames                                                                   *)

\* Nine bytes.
Frame(f) == f \in [1 .. 9 -> SUBSET Byte]

\* g is f with bit b of byte k flipped.
OneFlip(f, g, k, b) ==
    g[k] = SymDiff(f[k], {b}) /\ \A n \in 1 .. 9 : n # k => g[n] = f[n]

\* The difference between the checksum of a word and the one that came with it.
Syndrome(f, w) == SymDiff(Crc8(f[3 * w + 1], f[3 * w + 2]), f[3 * w + 3])

\* A frame is taken if no word of it has a syndrome.
LEMMA AcceptedWithoutSyndrome ==
    ASSUME NEW f, Frame(f)
    PROVE  /\ \A w \in 0 .. 2 : Syndrome(f, w) \in SUBSET Byte
           /\ ScdAccepted(f) <=> \A w \in 0 .. 2 : Syndrome(f, w) = {}
<1>1. ASSUME NEW w \in 0 .. 2
      PROVE  /\ Syndrome(f, w) \in SUBSET Byte
             /\ Syndrome(f, w) = {} <=> Crc8(f[3 * w + 1], f[3 * w + 2]) = f[3 * w + 3]
  <2> DEFINE high == f[3 * w + 1]  low == f[3 * w + 2]  sum == f[3 * w + 3]
             crc == Crc8(high, low)
  <2>1. high \in SUBSET Byte /\ low \in SUBSET Byte /\ sum \in SUBSET Byte
    BY DEF Frame
  <2> HIDE DEF high, low, sum
  <2>2. crc \in SUBSET Byte
    BY <2>1, Crc8Shifts
  <2> HIDE DEF crc
  <2>3. SymDiff(crc, sum) \in SUBSET Byte /\ (SymDiff(crc, sum) = {} <=> crc = sum)
    BY <2>1, <2>2 DEF SymDiff
  <2> QED
    BY <2>3 DEF Syndrome, crc, high, low, sum
<1> QED
  BY <1>1 DEF ScdAccepted

\* The word a byte is in, and the shifts a bit goes through until the end of its word.
WordOf(k) == (k - 1) \div 3
Shifts(k, b) == 8 * ((9 - k) % 3) + b

\* What a flip of bit b of byte k adds to the syndrome of word w.
Mark(k, b, w) == IF WordOf(k) = w THEN Power(Shifts(k, b)) ELSE {}

\* The mark of a flip in its own word is a power, and another flip's in the same
\* word is another power.
LEMMA MarkTypes ==
    ASSUME NEW k \in 1 .. 9, NEW b \in Byte
    PROVE  /\ WordOf(k) \in 0 .. 2 /\ Shifts(k, b) \in 0 .. 23
           /\ \A w \in 0 .. 2 : Mark(k, b, w) \in SUBSET Byte
           /\ \A l \in 1 .. 9, c \in Byte :
                 WordOf(l) = WordOf(k) /\ Shifts(l, c) = Shifts(k, b) => l = k /\ c = b
<1>1. WordOf(k) \in 0 .. 2 /\ Shifts(k, b) \in 0 .. 23
  BY DEF WordOf, Shifts, Byte
<1>2. \A w \in 0 .. 2 : Mark(k, b, w) \in SUBSET Byte
  BY <1>1, NextPower DEF Mark
<1>3. \A l \in 1 .. 9, c \in Byte :
        WordOf(l) = WordOf(k) /\ Shifts(l, c) = Shifts(k, b) => l = k /\ c = b
  BY DEF WordOf, Shifts, Byte
<1> QED
  BY <1>1, <1>2, <1>3

\* A bit that flips leaves its mark on the syndrome of its word, and on no other's.
LEMMA FlipMarks ==
    ASSUME NEW k \in 1 .. 9, NEW b \in Byte, NEW w \in 0 .. 2,
           NEW f, NEW g, Frame(f), Frame(g), OneFlip(f, g, k, b)
    PROVE  Syndrome(g, w) = SymDiff(Syndrome(f, w), Mark(k, b, w))
<1> DEFINE hi == f[3 * w + 1]  lo == f[3 * w + 2]  sum == f[3 * w + 3]
           crc == Crc8(hi, lo)
           syn == Syndrome(f, w)
<1>1. /\ hi \in SUBSET Byte /\ lo \in SUBSET Byte /\ sum \in SUBSET Byte /\ {b} \in SUBSET Byte
      /\ f[k] \in SUBSET Byte
  BY DEF Frame
<1>2. syn \in SUBSET Byte
  BY AcceptedWithoutSyndrome
<1>3. /\ {b} = Power(b) /\ b \in 0 .. 7
      /\ Shift8({b}) = Power(b + 8)
      /\ Shift8(Shift8({b})) = Power(b + 16)
  <2>1. {b} = Power(b) /\ b \in 0 .. 7
    BY DEF Power, Byte
  <2>2. Shift8(Power(b)) = Power(b + 8) /\ Shift8(Power(b + 8)) = Power(b + 16)
    BY <2>1, EightFurther
  <2> QED
    BY <2>1, <2>2
<1>4. crc \in SUBSET Byte
  BY <1>1, Crc8Shifts
<1>5. CASE WordOf(k) # w
  <2>1. k # 3 * w + 1 /\ k # 3 * w + 2 /\ k # 3 * w + 3
    BY <1>5 DEF WordOf
  <2>2. Syndrome(g, w) = syn
    BY <2>1 DEF Syndrome, OneFlip
  <2> HIDE DEF syn
  <2>3. SymDiff(syn, Mark(k, b, w)) = syn
    BY <1>2, <1>5, DiffLaws DEF Mark
  <2> QED
    BY <2>2, <2>3 DEF syn
<1>6. CASE k = 3 * w + 1
  <2>1. Mark(k, b, w) = Power(b + 16)
    BY <1>3, <1>6 DEF Mark, WordOf, Shifts
  <2>2. Syndrome(g, w) = SymDiff(Crc8(SymDiff(hi, {b}), lo), sum)
    BY <1>6 DEF Syndrome, OneFlip
  <2> DEFINE d == Power(b + 16)
  <2>3. d \in SUBSET Byte
    BY <1>3, NextPower
  <2> HIDE DEF hi, lo, sum, d
  <2>4. Crc8(SymDiff(hi, {b}), lo) = SymDiff(crc, d)
    BY <1>1, <1>3, Crc8Linear DEF d
  <2>5. syn = SymDiff(crc, sum)
    BY DEF Syndrome, crc, hi, lo, sum
  <2> HIDE DEF syn, crc
  <2>6. SymDiff(SymDiff(crc, d), sum) = SymDiff(SymDiff(crc, sum), d)
    BY <1>1, <1>4, <2>3, DiffLaws
  <2> QED
    BY <2>1, <2>2, <2>4, <2>5, <2>6 DEF d, syn
<1>7. CASE k = 3 * w + 2
  <2>1. Mark(k, b, w) = Power(b + 8)
    BY <1>3, <1>7 DEF Mark, WordOf, Shifts
  <2>2. Syndrome(g, w) = SymDiff(Crc8(hi, SymDiff(lo, {b})), sum)
    BY <1>7 DEF Syndrome, OneFlip
  <2> DEFINE d == Power(b + 8)
  <2>3. d \in SUBSET Byte
    BY <1>3, NextPower
  <2> HIDE DEF hi, lo, sum, d
  <2>4. Crc8(hi, SymDiff(lo, {b})) = SymDiff(crc, d)
    BY <1>1, <1>3, Crc8Linear DEF d
  <2>5. syn = SymDiff(crc, sum)
    BY DEF Syndrome, crc, hi, lo, sum
  <2> HIDE DEF syn, crc
  <2>6. SymDiff(SymDiff(crc, d), sum) = SymDiff(SymDiff(crc, sum), d)
    BY <1>1, <1>4, <2>3, DiffLaws
  <2> QED
    BY <2>1, <2>2, <2>4, <2>5, <2>6 DEF d, syn
<1>8. CASE k = 3 * w + 3
  <2>1. Mark(k, b, w) = {b}
    BY <1>3, <1>8 DEF Mark, WordOf, Shifts
  <2>2. Syndrome(g, w) = SymDiff(crc, SymDiff(sum, {b}))
    BY <1>8 DEF Syndrome, OneFlip
  <2>3. syn = SymDiff(crc, sum)
    BY DEF Syndrome
  <2> DEFINE d == {b}
  <2>4. d \in SUBSET Byte
    OBVIOUS
  <2> HIDE DEF hi, lo, sum, syn, crc, d
  <2>5. SymDiff(crc, SymDiff(sum, d)) = SymDiff(SymDiff(crc, sum), d)
    BY <1>1, <1>4, <2>4, DiffLaws
  <2> QED
    BY <2>1, <2>2, <2>3, <2>5 DEF syn, d
<1>9. WordOf(k) # w \/ k = 3 * w + 1 \/ k = 3 * w + 2 \/ k = 3 * w + 3
  BY DEF WordOf
<1> QED
  BY <1>5, <1>6, <1>7, <1>8, <1>9

\* Without flips a frame is received as it is; one flip more changes one bit.
LEMMA FlipOnceMore ==
    ASSUME NEW f, Frame(f), NEW bits \in SUBSET ((1 .. 9) \X Byte),
           NEW k \in 1 .. 9, NEW b \in Byte, <<k, b>> \notin bits
    PROVE  LET g == WithFlips(f, bits)
               h == WithFlips(f, bits \cup {<<k, b>>})
           IN  /\ WithFlips(f, {}) = f
               /\ Frame(g) /\ Frame(h)
               /\ OneFlip(g, h, k, b)
<1> DEFINE At(set, n) == {c \in Byte : <<n, c>> \in set}
           g == WithFlips(f, bits)
           more == bits \cup {<<k, b>>}
           h == WithFlips(f, more)
           old == At(bits, k)
<1>1. WithFlips(f, {}) = f /\ Frame(g) /\ Frame(h)
  BY DEF WithFlips, SymDiff, Frame
<1>2. \A n \in 1 .. 9 : n # k => h[n] = g[n]
  <2>1. \A n \in 1 .. 9 : n # k => At(more, n) = At(bits, n)
    OBVIOUS
  <2> QED
    BY <2>1 DEF WithFlips
<1>3. h[k] = SymDiff(f[k], old \cup {b}) /\ g[k] = SymDiff(f[k], old)
  <2>1. At(more, k) = old \cup {b}
    OBVIOUS
  <2> QED
    BY <2>1 DEF WithFlips
<1>4. SymDiff(f[k], old \cup {b}) = SymDiff(SymDiff(f[k], old), {b})
  <2> DEFINE fk == f[k]
  <2>1. fk \in SUBSET Byte /\ old \in SUBSET Byte /\ b \notin old
    BY DEF Frame
  <2> HIDE DEF fk, old
  <2>2. SymDiff(fk, old \cup {b}) = SymDiff(SymDiff(fk, old), {b})
    BY <2>1 DEF SymDiff
  <2> QED
    BY <2>2 DEF fk
<1> HIDE DEF old, g, h, At
<1> QED
  BY <1>1, <1>2, <1>3, <1>4 DEF g, h, OneFlip

\* The same in terms of syndromes.
LEMMA FlipSyndrome ==
    ASSUME NEW f, Frame(f), NEW bits \in SUBSET ((1 .. 9) \X Byte),
           NEW k \in 1 .. 9, NEW b \in Byte, <<k, b>> \notin bits, NEW w \in 0 .. 2
    PROVE  LET g == WithFlips(f, bits)
               h == WithFlips(f, bits \cup {<<k, b>>})
           IN  /\ Syndrome(g, w) \in SUBSET Byte
               /\ Syndrome(h, w) = SymDiff(Syndrome(g, w), Mark(k, b, w))
               /\ Odd(Syndrome(h, w)) <=> ~(Odd(Syndrome(g, w)) <=> WordOf(k) = w)
<1> DEFINE g == WithFlips(f, bits)
           h == WithFlips(f, bits \cup {<<k, b>>})
           m == Mark(k, b, w)
<1>1. Frame(g) /\ Frame(h) /\ OneFlip(g, h, k, b)
  BY FlipOnceMore
<1> HIDE DEF g, h
<1>2. Syndrome(g, w) \in SUBSET Byte
  BY <1>1, AcceptedWithoutSyndrome
<1>3. Syndrome(h, w) = SymDiff(Syndrome(g, w), m)
  BY <1>1, FlipMarks
<1>4. m \in SUBSET Byte /\ (Odd(m) <=> WordOf(k) = w)
  BY MarkTypes, PowersDiffer DEF Mark
<1> HIDE DEF m
<1>5. Odd(Syndrome(h, w)) <=> ~(Odd(Syndrome(g, w)) <=> Odd(m))
  BY <1>2, <1>3, <1>4, OddDiff
<1> QED
  BY <1>2, <1>3, <1>4, <1>5 DEF g, h, m

\* What a bus that is stuck low or high makes of a word: its syndrome is even but not
\* empty.
LEMMA StuckSyndromes ==
    ASSUME NEW f \in Stuck, NEW w \in 0 .. 2
    PROVE  /\ Frame(f)
           /\ Syndrome(f, w) # {} /\ ~Odd(Syndrome(f, w))
<1>1. /\ CrcShift(Byte) = {0, 1, 2, 3, 6, 7}
      /\ CrcShift({0, 1, 2, 3, 6, 7}) = {0, 1, 2, 3, 5, 7}
      /\ CrcShift({0, 1, 2, 3, 5, 7}) = {0, 1, 2, 3, 5, 6}
      /\ CrcShift({0, 1, 2, 3, 5, 6}) = {1, 2, 3, 4, 6, 7}
  BY ShiftBits, ByteEqual DEF Byte
<1>2. /\ CrcShift({1, 2, 3, 4, 6, 7}) = {0, 2, 3, 7}
      /\ CrcShift({0, 2, 3, 7}) = {0, 1, 3, 5}
      /\ CrcShift({0, 1, 3, 5}) = {1, 2, 4, 6}
      /\ CrcShift({1, 2, 4, 6}) = {2, 3, 5, 7}
  BY ShiftBits, ByteEqual DEF Byte
<1>3. /\ CrcShift({2, 3, 5, 7}) = {0, 3, 5, 6}
      /\ CrcShift({0, 3, 5, 6}) = {1, 4, 6, 7}
      /\ CrcShift({1, 4, 6, 7}) = {0, 2, 4, 7}
      /\ CrcShift({0, 2, 4, 7}) = {0, 1, 3, 4}
  BY ShiftBits, ByteEqual DEF Byte
<1>4. /\ CrcShift({0, 1, 3, 4}) = {1, 2, 4, 5}
      /\ CrcShift({1, 2, 4, 5}) = {2, 3, 5, 6}
      /\ CrcShift({2, 3, 5, 6}) = {3, 4, 6, 7}
      /\ CrcShift({3, 4, 6, 7}) = {0, 7}
  BY ShiftBits, ByteEqual DEF Byte
<1>5. Shift8(Byte) = {2, 3, 5, 7}
  BY <1>1, <1>2 DEF Shift8, Shift2
<1>6. Shift8({2, 3, 5, 7}) = {0, 7}
  BY <1>3, <1>4 DEF Shift8, Shift2
<1>7. CASE f = [k \in 1 .. 9 |-> {}]
  <2>1. Syndrome(f, w) = SymDiff(Crc8({}, {}), {})
    BY <1>7 DEF Syndrome
  <2>2. Crc8({}, {}) = Shift8(SymDiff(Shift8(SymDiff(Byte, {})), {}))
    BY Crc8Shifts
  <2>3. \A c \in SUBSET Byte : SymDiff(c, {}) = c
    BY DiffLaws
  <2>4. {2, 3, 5, 7} \in SUBSET Byte /\ {0, 7} \in SUBSET Byte
    BY DEF Byte
  <2>5. Syndrome(f, w) = {0, 7}
    BY <1>5, <1>6, <2>1, <2>2, <2>3, <2>4
  <2> QED
    BY <1>7, <2>5 DEF Odd, Frame
<1>8. CASE f = [k \in 1 .. 9 |-> Byte]
  <2>1. Syndrome(f, w) = SymDiff(Crc8(Byte, Byte), Byte)
    BY <1>8 DEF Syndrome
  <2>2. Crc8(Byte, Byte) = Shift8(SymDiff(Shift8(SymDiff(Byte, Byte)), Byte))
    BY Crc8Shifts
  <2>3. SymDiff(Byte, Byte) = {} /\ SymDiff({}, Byte) = Byte
    BY DiffLaws
  <2>4. Shift8({}) = {}
    <3>1. CrcShift({}) = {}
      BY ShiftBits, ByteEqual DEF Byte
    <3> QED
      BY <3>1 DEF Shift8, Shift2
  <2>5. Syndrome(f, w) = SymDiff({2, 3, 5, 7}, Byte)
    BY <1>5, <2>1, <2>2, <2>3, <2>4
  <2>6. SymDiff({2, 3, 5, 7}, Byte) = {0, 1, 4, 6}
    BY DEF SymDiff, Byte
  <2> QED
    BY <1>8, <2>5, <2>6 DEF Odd, Frame
<1> QED
  BY <1>7, <1>8 DEF Stuck

\* A set with three elements at most.
LEMMA SmallSet ==
    ASSUME NEW S, IsFiniteSet(S), Cardinality(S) <= 3
    PROVE  \/ S = {}
           \/ \E p \in S : S = {p}
           \/ \E p, q \in S : p # q /\ S = {p, q}
           \/ \E p, q, r \in S : p # q /\ p # r /\ q # r /\ S = {p, q, r}
<1>0. ASSUME NEW T, IsFiniteSet(T), NEW n \in Nat, Cardinality(T) <= n, NEW x \in T
      PROVE  IsFiniteSet(T \ {x}) /\ Cardinality(T \ {x}) <= n - 1
  <2>1. IsFiniteSet(T \ {x}) /\ Cardinality(T \ {x}) = Cardinality(T) - 1
    BY <1>0, FS_RemoveElement
  <2>2. Cardinality(T) \in Nat
    BY <1>0, FS_CardinalityType
  <2> QED
    BY <1>0, <2>1, <2>2
<1>1. ASSUME S # {}
      PROVE  \E p \in S : /\ IsFiniteSet(S \ {p}) /\ Cardinality(S \ {p}) <= 2
  BY <1>0, <1>1
<1>2. ASSUME NEW p \in S, IsFiniteSet(S \ {p}), Cardinality(S \ {p}) <= 2, S \ {p} # {}
      PROVE  \E q \in S \ {p} :
                /\ IsFiniteSet((S \ {p}) \ {q}) /\ Cardinality((S \ {p}) \ {q}) <= 1
  <2> DEFINE T == S \ {p}
  <2>1. T # {} /\ IsFiniteSet(T) /\ Cardinality(T) <= 2
    BY <1>2
  <2> HIDE DEF T
  <2>2. PICK q \in T : TRUE
    BY <2>1
  <2>3. IsFiniteSet(T \ {q}) /\ Cardinality(T \ {q}) <= 1
    BY <1>0, <2>1
  <2> QED
    BY <2>3 DEF T
<1>3. ASSUME NEW T, IsFiniteSet(T), Cardinality(T) <= 1
      PROVE  T = {} \/ \E r \in T : T = {r}
  <2>1. ASSUME NEW r \in T
        PROVE  T = {r}
    <3>1. IsFiniteSet(T \ {r}) /\ Cardinality(T \ {r}) = Cardinality(T) - 1
      BY <1>3, FS_RemoveElement
    <3>2. Cardinality(T \ {r}) = 0
      BY <1>3, <3>1, FS_CardinalityType
    <3>3. T \ {r} = {}
      BY <3>1, <3>2, FS_EmptySet
    <3> QED
      BY <3>3
  <2> QED
    BY <2>1
<1>4. CASE S # {}
  <2>1. PICK p \in S : IsFiniteSet(S \ {p}) /\ Cardinality(S \ {p}) <= 2
    BY <1>1, <1>4
  <2>2. CASE S \ {p} = {}
    BY <2>2
  <2>3. CASE S \ {p} # {}
    <3>1. PICK q \in S \ {p} : IsFiniteSet((S \ {p}) \ {q}) /\ Cardinality((S \ {p}) \ {q}) <= 1
      BY <1>2, <2>1, <2>3
    <3>2. (S \ {p}) \ {q} = {} \/ \E r \in (S \ {p}) \ {q} : (S \ {p}) \ {q} = {r}
      BY <1>3, <3>1
    <3>3. CASE (S \ {p}) \ {q} = {}
      <4>1. p # q /\ S = {p, q}
        BY <3>3
      <4> QED BY <4>1
    <3>4. ASSUME NEW r \in (S \ {p}) \ {q}, (S \ {p}) \ {q} = {r}
          PROVE  p # q /\ p # r /\ q # r /\ S = {p, q, r}
      BY <3>4
    <3> QED BY <3>2, <3>3, <3>4
  <2> QED BY <2>2, <2>3
<1> QED BY <1>4

\* Where a flip may be: byte and bit.
Places == (1 .. 9) \X Byte

\* A frame that is good, or none at all, is refused with one to three bits flipped, and
\* is taken without flips if it is good: one or three flips leave a word with an odd
\* syndrome; two flips cannot cancel out in a word, as their powers differ, and cannot
\* repair three words.
LEMMA FlipsRefused ==
    ASSUME NEW f, Frame(f), f \in Stuck \/ ScdAccepted(f),
           NEW bits \in SUBSET Places,
           IsFiniteSet(bits), Cardinality(bits) <= 3
    PROVE  ScdAccepted(WithFlips(f, bits)) <=> bits = {} /\ f \notin Stuck
<1> DEFINE Syn(set, w) == Syndrome(WithFlips(f, set), w)
           At(p) == WordOf(p[1])
<1>1. ASSUME NEW set \in SUBSET Places
      PROVE  /\ WithFlips(f, {}) = f
             /\ Frame(WithFlips(f, set))
             /\ ScdAccepted(WithFlips(f, set)) <=> \A w \in 0 .. 2 : Syn(set, w) = {}
  <2>1. Frame(WithFlips(f, set)) /\ WithFlips(f, {}) = f
    BY DEF Frame, WithFlips, SymDiff, Places
  <2> QED
    BY <2>1, AcceptedWithoutSyndrome
<1>2. \A w \in 0 .. 2 : /\ ~Odd(Syn({}, w))
                        /\ Syn({}, w) = {} <=> f \notin Stuck
  <2>1. CASE f \in Stuck
    BY <1>1, <2>1, StuckSyndromes
  <2>2. CASE f \notin Stuck
    BY <1>1, <2>2, AcceptedWithoutSyndrome, PowersDiffer
  <2> QED
    BY <2>1, <2>2
<1>3. ASSUME NEW set \in SUBSET Places,
             NEW p \in Places, p \notin set, NEW w \in 0 .. 2
      PROVE  /\ Syn(set, w) \in SUBSET Byte
             /\ Syn(set \cup {p}, w) = SymDiff(Syn(set, w), Mark(p[1], p[2], w))
             /\ Odd(Syn(set \cup {p}, w)) <=> ~(Odd(Syn(set, w)) <=> At(p) = w)
  <2>1. PICK k \in 1 .. 9, b \in Byte : p = <<k, b>>
    BY DEF Places
  <2>2. set \in SUBSET ((1 .. 9) \X Byte) /\ <<k, b>> \notin set
    BY <1>3, <2>1 DEF Places
  <2>3. /\ Syn(set, w) \in SUBSET Byte
        /\ Syn(set \cup {<<k, b>>}, w) = SymDiff(Syn(set, w), Mark(k, b, w))
        /\ Odd(Syn(set \cup {<<k, b>>}, w)) <=> ~(Odd(Syn(set, w)) <=> WordOf(k) = w)
    BY <2>2, FlipSyndrome
  <2>4. p[1] = k /\ p[2] = b
    BY <2>1
  <2> HIDE DEF Syn
  <2> QED
    BY <2>1, <2>3, <2>4
<1>4. \A p, q \in Places : /\ At(p) \in 0 .. 2
                           /\ p # q /\ At(p) = At(q) =>
                                 Shifts(p[1], p[2]) # Shifts(q[1], q[2])
  BY MarkTypes DEF Places
<1> HIDE DEF Syn, At
<1>5. ASSUME NEW w \in 0 .. 2, Odd(Syn(bits, w))
      PROVE  ~ScdAccepted(WithFlips(f, bits))
  BY <1>1, <1>5, PowersDiffer
<1>6. {} \in SUBSET Places
  OBVIOUS
<1>7. CASE bits = {}
  BY <1>1, <1>2, <1>7
<1>8. ASSUME NEW p \in bits, bits = {p}
      PROVE  ~ScdAccepted(WithFlips(f, bits))
  <2>1. bits = {} \cup {p} /\ p \notin {} /\ p \in Places
    BY <1>8
  <2>2. Odd(Syn(bits, At(p)))
    BY <1>2, <1>3, <1>4, <1>6, <2>1
  <2> QED
    BY <1>4, <1>5, <2>1, <2>2
<1>9. ASSUME NEW p \in bits, NEW q \in bits, p # q, bits = {p, q}
      PROVE  ~ScdAccepted(WithFlips(f, bits))
  <2> DEFINE one == {p}
             P == Mark(p[1], p[2], At(p))
             Q == Mark(q[1], q[2], At(p))
  <2>1. /\ one = {} \cup {p} /\ p \notin {} /\ p \in Places
        /\ bits = one \cup {q} /\ q \notin one /\ q \in Places /\ one \in SUBSET Places
    BY <1>9
  <2> HIDE DEF one
  <2>2. ASSUME NEW w \in 0 .. 2
        PROVE  /\ Syn(bits, w)
                    = SymDiff(SymDiff(Syn({}, w), Mark(p[1], p[2], w)), Mark(q[1], q[2], w))
               /\ Odd(Syn(bits, w)) <=> ~(At(p) = w <=> At(q) = w)
    <3>1. /\ Syn(one, w) = SymDiff(Syn({}, w), Mark(p[1], p[2], w))
          /\ Odd(Syn(one, w)) <=> ~(Odd(Syn({}, w)) <=> At(p) = w)
      BY <1>3, <1>6, <2>1
    <3>2. /\ Syn(bits, w) = SymDiff(Syn(one, w), Mark(q[1], q[2], w))
          /\ Odd(Syn(bits, w)) <=> ~(Odd(Syn(one, w)) <=> At(q) = w)
      BY <1>3, <2>1
    <3> QED
      BY <1>2, <3>1, <3>2
  <2>3. CASE At(p) # At(q)
    <3>1. Odd(Syn(bits, At(p)))
      BY <1>4, <2>1, <2>2, <2>3
    <3> QED
      BY <1>4, <1>5, <2>1, <3>1
  <2>4. CASE At(p) = At(q) /\ f \notin Stuck
    <3>1. P = Power(Shifts(p[1], p[2])) /\ Q = Power(Shifts(q[1], q[2]))
      BY <2>4 DEF Mark, At
    <3>2. Shifts(p[1], p[2]) \in 0 .. 23 /\ Shifts(q[1], q[2]) \in 0 .. 23
      BY <2>1, MarkTypes DEF Places
    <3>3. P # Q /\ P \in SUBSET Byte /\ Q \in SUBSET Byte
      BY <1>4, <1>9, <2>1, <2>4, <3>1, <3>2, PowersDiffer, NextPower
    <3>4. Syn(bits, At(p)) = SymDiff(SymDiff({}, P), Q)
      BY <1>2, <1>4, <2>1, <2>2, <2>4
    <3> HIDE DEF P, Q
    <3>5. SymDiff(SymDiff({}, P), Q) # {}
      BY <3>3 DEF SymDiff
    <3> QED
      BY <1>1, <1>4, <2>1, <3>4, <3>5
  <2>5. CASE At(p) = At(q) /\ f \in Stuck
    <3>1. PICK v \in 0 .. 2 : v # At(p)
      BY <1>4, <2>1
    <3>2. Mark(p[1], p[2], v) = {} /\ Mark(q[1], q[2], v) = {}
      BY <2>5, <3>1 DEF Mark, At
    <3>3. Syn(bits, v) = Syn({}, v)
      BY <2>2, <3>2 DEF SymDiff
    <3> QED
      BY <1>1, <1>2, <2>5, <3>3
  <2> QED
    BY <2>3, <2>4, <2>5
<1>10. ASSUME NEW p \in bits, NEW q \in bits, NEW r \in bits,
              p # q, p # r, q # r, bits = {p, q, r}
       PROVE  ~ScdAccepted(WithFlips(f, bits))
  <2> DEFINE one == {p}
             two == {p, q}
  <2>1. /\ one = {} \cup {p} /\ p \notin {} /\ p \in Places
        /\ two = one \cup {q} /\ q \notin one /\ q \in Places /\ one \in SUBSET Places
        /\ bits = two \cup {r} /\ r \notin two /\ r \in Places /\ two \in SUBSET Places
    BY <1>10
  <2> HIDE DEF one, two
  <2>2. ASSUME NEW w \in 0 .. 2
        PROVE  Odd(Syn(bits, w)) <=> (At(p) = w <=> (At(q) = w <=> At(r) = w))
    <3>1. Odd(Syn(one, w)) <=> ~(Odd(Syn({}, w)) <=> At(p) = w)
      BY <1>3, <1>6, <2>1
    <3>2. Odd(Syn(two, w)) <=> ~(Odd(Syn(one, w)) <=> At(q) = w)
      BY <1>3, <2>1
    <3>3. Odd(Syn(bits, w)) <=> ~(Odd(Syn(two, w)) <=> At(r) = w)
      BY <1>3, <2>1
    <3> QED
      BY <1>2, <3>1, <3>2, <3>3
  <2>3. PICK w \in 0 .. 2 : At(p) = w <=> (At(q) = w <=> At(r) = w)
    <3>1. At(p) \in 0 .. 2 /\ At(q) \in 0 .. 2 /\ At(r) \in 0 .. 2
      BY <1>4, <2>1
    <3> QED
      BY <3>1
  <2> QED
    BY <1>5, <2>2, <2>3
<1>11. bits # {} => ~ScdAccepted(WithFlips(f, bits))
  BY <1>8, <1>9, <1>10, SmallSet
<1> QED
  BY <1>7, <1>11

-----------------------------------------------------------------------------
(* The conversions                                                          *)

\* The soil's moisture is within 0 and 100 per cent, and a drier reading of the probe
\* never gives more.
LEMMA MoistureFalls ==
    ASSUME NEW a \in Nat, NEW b \in Nat, a < b
    PROVE  0 <= Moisture(a) /\ Moisture(a) <= 10000 /\ Moisture(b) <= Moisture(a)
<1> DEFINE Ma == ((3200 - a) * 10000) \div 1800
           Mb == ((3200 - b) * 10000) \div 1800
<1>1. /\ Moisture(a) = IF a >= 3200 THEN 0 ELSE IF a <= 1400 THEN 10000 ELSE Ma
      /\ Moisture(b) = IF b >= 3200 THEN 0 ELSE IF b <= 1400 THEN 10000 ELSE Mb
  BY SMT DEF Moisture, DryRaw, WetRaw
<1>2. /\ Ma \in Int /\ (1400 < a /\ a < 3200 => 0 <= Ma /\ Ma <= 10000)
      /\ Mb \in Int /\ (1400 < b /\ b < 3200 => 0 <= Mb /\ Mb <= 10000)
      /\ Mb <= Ma
  BY SMT
<1> HIDE DEF Ma, Mb
<1> QED
  BY <1>1, <1>2, SMT

\* The battery's charge is within 0 and 100 per cent and rises with the voltage.
LEMMA BatteryRises ==
    ASSUME NEW a \in Nat, NEW b \in Nat, a <= b
    PROVE  0 <= BatteryPct(a) /\ BatteryPct(a) <= 100 /\ BatteryPct(a) <= BatteryPct(b)
BY SMT DEF BatteryPct

\* The light is within the attribute's 16 bits and rises with the raw value: a float
\* below the whole quotient is not below the quotient before it.
LEMMA LuxRises ==
    ASSUME NEW a \in Nat, NEW b \in Nat, a < b, b < 65536
    PROVE  /\ 0 <= Lux(a) /\ Lux(a) <= 65534 /\ 0 <= Lux(b) /\ Lux(b) <= 65534
           /\ Lux(a) <= Lux(b)
<1>1. ASSUME NEW r \in Nat, r < 65536
      PROVE  LET x == (5 * r) \div 6
             IN  /\ x \in Nat /\ x <= 54612
                 /\ Lux(r) = x \/ (Lux(r) = x - 1 /\ r % 6 = 0 /\ x >= 1)
  <2> DEFINE x == (5 * r) \div 6
             upperHalf == \E p \in {1, 2, 4, 8, 16, 32, 64, 128, 256, 512, 1024, 2048, 4096,
                                     8192, 16384, 32768} : 2 * x > 3 * p /\ x < 2 * p
  <2>1. x \in Nat /\ x <= 54612
    BY <1>1, SMT
  <2>2. Lux(r) = IF r % 6 = 0 /\ upperHalf THEN x - 1 ELSE x
    BY SMT DEF Lux
  <2>3. upperHalf => x >= 1
    <3> HIDE DEF x
    <3> QED
      BY <2>1, SMT
  <2> HIDE DEF x, upperHalf
  <2>4. /\ x \in Nat /\ x <= 54612
        /\ Lux(r) = x \/ (Lux(r) = x - 1 /\ r % 6 = 0 /\ x >= 1)
    BY <2>1, <2>2, <2>3, SMT
  <2> QED
    BY <2>4, SMT DEF x
<1> DEFINE X == (5 * a) \div 6
           Y == (5 * b) \div 6
<1>2. X <= Y /\ (b % 6 = 0 => X <= Y - 1)
  BY SMT
<1>3. /\ X \in Nat /\ X <= 54612
      /\ Lux(a) = X \/ (Lux(a) = X - 1 /\ X >= 1)
  BY <1>1, SMT
<1>4. /\ Y \in Nat /\ Y <= 54612
      /\ Lux(b) = Y \/ (Lux(b) = Y - 1 /\ b % 6 = 0 /\ Y >= 1)
  BY <1>1, SMT
<1> HIDE DEF X, Y
<1> QED
  BY <1>2, <1>3, <1>4, SMT

\* The temperature of the SCD41 fits 16 bits and rises with the raw value.
LEMMA ScdRises ==
    ASSUME NEW a \in Nat, NEW b \in Nat, a < b, b < 65536
    PROVE  /\ -4500 <= ScdTemperature(a) /\ ScdTemperature(a) <= 13000
           /\ -4500 <= ScdTemperature(b) /\ ScdTemperature(b) <= 13000
           /\ ScdTemperature(a) <= ScdTemperature(b)
<1> DEFINE A == (a * 17500) \div 65535
           B == (b * 17500) \div 65535
<1>1. A \in Nat /\ B \in Nat /\ A <= B /\ B <= 17500
  BY SMT
<1>2. ScdTemperature(a) = Int16(A - 4500) /\ ScdTemperature(b) = Int16(B - 4500)
  BY SMT DEF ScdTemperature
<1> HIDE DEF A, B
<1>3. Int16(A - 4500) = A - 4500 /\ Int16(B - 4500) = B - 4500
  BY <1>1, SMT DEF Int16
<1> QED
  BY <1>1, <1>2, <1>3, SMT

\* The registers of a BME280, and what comes of them, are numbers.
LEMMA CalibrationTypes ==
    ASSUME NEW i \in Images
    PROVE  \A field \in {"T1", "T2", "T3", "H1", "H2", "H3", "H4", "H5", "H6"} :
              Calibration(i)[field] \in Int
<1>1. \A reg \in (136 .. 141) \cup {161} \cup (225 .. 231) : i[reg] \in 0 .. 255
  BY ImagesAssumption, SMT
<1>2. i[136] \in Int /\ i[137] \in Int /\ i[138] \in Int /\ i[139] \in Int /\ i[140] \in Int
      /\ i[141] \in Int /\ i[161] \in Int /\ i[225] \in Int /\ i[226] \in Int /\ i[227] \in Int
      /\ i[228] \in Int /\ i[229] \in Int /\ i[230] \in Int /\ i[231] \in Int
  BY <1>1, SMT
<1> QED
  BY <1>2, SMT DEF Calibration, Word, Int16

\* Without its coefficients the temperature is 0, whatever is measured: the rounding
\* constant alone is shifted out.
LEMMA NoTemperature ==
    ASSUME NEW i \in Images, NEW t \in Int, Calibration(i).T1 = 0
    PROVE  Temperature(Calibration(i), t) = 0
<1> DEFINE cal == Calibration(i)
           d == (t \div 16) - cal.T1
<1>1. cal.T1 = 0 /\ cal.T2 = 0 /\ cal.T3 = 0
  BY ImagesAssumption, SMT
<1>2. d \in Int
  BY <1>1, SMT
<1> HIDE DEF cal
<1>3. d * d \in Int
  BY <1>2, SMT
<1>4. TFine(cal, t) = 0
  BY <1>1, <1>2, <1>3, SMT DEF TFine
<1> QED
  BY <1>4, SMT DEF Temperature, Int16, cal

\* Without its coefficients the humidity is 0; with any, it is clamped.
LEMMA HumidityClamped ==
    ASSUME NEW i \in Images, NEW t \in Int, NEW h \in Int
    PROVE  LET q == HumidityQ22(Calibration(i), t, h)
           IN  0 <= q /\ q <= 419430400 /\ (Calibration(i).H2 = 0 => q = 0)
<1> DEFINE cal == Calibration(i)
           v == TFine(cal, t) - 76800
           x == HumidityRaw(cal, v, h) * HumidityGain(cal, v)
           y == x - (((((x \div 32768) * (x \div 32768)) \div 128) * cal.H1) \div 16)
<1>1. /\ cal.T1 \in Int /\ cal.T2 \in Int /\ cal.T3 \in Int
      /\ cal.H1 \in Int /\ cal.H2 \in Int /\ cal.H3 \in Int
      /\ cal.H4 \in Int /\ cal.H5 \in Int /\ cal.H6 \in Int
  BY CalibrationTypes, SMT
<1> HIDE DEF cal
<1>2. v \in Int
  BY <1>1, SMT DEF TFine
<1> HIDE DEF v
<1>3. HumidityRaw(cal, v, h) \in Int /\ GainBase(cal, v) \in Int /\ HumidityGain(cal, v) \in Int
  BY <1>1, <1>2, SMT DEF HumidityRaw, GainBase, HumidityGain
<1>4. x \in Int
  BY <1>3, SMT
<1>5. cal.H2 = 0 => x = 0
  <2>1. cal.H2 = 0 => HumidityGain(cal, v) = 0
    BY <1>3, SMT DEF HumidityGain
  <2> QED
    BY <1>3, <2>1, SMT
<1> HIDE DEF x
<1>6. y \in Int
  BY <1>1, <1>4, SMT
<1>7. x = 0 => y = 0
  BY <1>1, SMT
<1> HIDE DEF y
<1>8. HumidityQ22(cal, t, h) = IF y < 0 THEN 0 ELSE IF y > 419430400 THEN 419430400 ELSE y
  BY SMT DEF HumidityQ22, v, x, y
<1> DEFINE q == HumidityQ22(cal, t, h)
<1>9. q = IF y < 0 THEN 0 ELSE IF y > 419430400 THEN 419430400 ELSE y
  BY <1>8, SMT
<1> HIDE DEF q
<1>10. 0 <= q /\ q <= 419430400
  BY <1>6, <1>9, SMT
<1>11. cal.H2 = 0 => q = 0
  BY <1>5, <1>7, <1>9, SMT
<1> QED
  BY <1>10, <1>11, SMT DEF cal, q

-----------------------------------------------------------------------------
(* The BME280 with coefficients like the example's                          *)

\* The two terms of t_fine.
Linear(a, T1, T2) == ((a - 2 * T1) * T2) \div 2048
Square(d, T3) == (((d * d) \div 4096) * T3) \div 16384

\* The first term of t_fine rises by 8 at least with every step of its factor.
LEMMA FirstTerm ==
    ASSUME NEW a \in Int, NEW b \in Int, a <= b,
           NEW T1 \in Int, NEW T2 \in Int, T2 >= 16384
    PROVE  Linear(a, T1, T2) + 8 * (b - a) <= Linear(b, T1, T2)
<1> DEFINE m == b - a
           p == (a - 2 * T1) * T2
           q == (b - 2 * T1) * T2
           r == T2 - 16384
<1>1. m \in Nat /\ r \in Nat
  BY SMT
<1>2. q = p + m * T2 /\ p \in Int /\ q \in Int
  BY SMT
<1>3. m * T2 = 16384 * m + m * r
  BY SMT
<1> HIDE DEF m, p, q, r
<1>4. m * r \in Nat
  BY <1>1, SMT
<1>5. q >= p + 16384 * m
  BY <1>1, <1>2, <1>3, <1>4, SMT
<1>6. p \div 2048 + 8 * m <= q \div 2048
  BY <1>1, <1>2, <1>5, SMT
<1> QED
  BY <1>6, SMT DEF Linear, m, p, q

\* A product with a factor between two bounds is between the products with them.
LEMMA ProductBetween ==
    ASSUME NEW x \in Int, NEW y \in Int, NEW n \in Nat, NEW m \in Nat,
           -n <= x, x <= n, -m <= y, y <= m
    PROVE  x * y \in Int /\ -(n * m) <= x * y /\ x * y <= n * m
<1>1. \A a \in Nat, b \in Nat : a * b \in Nat
  BY SMT
<1>2. (n - x) * (m + y) \in Nat /\ (n + x) * (m - y) \in Nat
  BY <1>1, SMT
<1>3. (n - x) * (m - y) \in Nat /\ (n + x) * (m + y) \in Nat
  BY <1>1, SMT
<1>4. /\ (n - x) * (m + y) = n * m + n * y - x * m - x * y
      /\ (n + x) * (m - y) = n * m - n * y + x * m - x * y
      /\ (n - x) * (m - y) = n * m - n * y - x * m + x * y
      /\ (n + x) * (m + y) = n * m + n * y + x * m + x * y
  BY SMT
<1> DEFINE nm == n * m  ny == n * y  xm == x * m  xy == x * y
<1>5. nm \in Int /\ ny \in Int /\ xm \in Int /\ xy \in Int
  BY SMT
<1>6. /\ nm + ny - xm - xy >= 0 /\ nm - ny + xm - xy >= 0
      /\ nm - ny - xm + xy >= 0 /\ nm + ny + xm + xy >= 0
  BY <1>2, <1>3, <1>4, SMT
<1> HIDE DEF nm, ny, xm, xy
<1>7. -nm <= xy /\ xy <= nm
  BY <1>5, <1>6, SMT
<1> QED
  BY <1>5, <1>7, SMT DEF nm, xy

\* The second term falls by 4 at most.
LEMMA SecondTerm ==
    ASSUME NEW c \in Int, NEW d \in Int, c <= d, -65536 <= c, d <= 65536,
           NEW T3 \in Int, -2048 <= T3, T3 <= 2048
    PROVE  Square(c, T3) <= Square(d, T3) + 4 * (d - c)
<1> DEFINE k == d - c
           s == c * c
           t == d * d
           e == c + d
           f == s \div 4096
           g == t \div 4096
           n == 32 * k
           delta == g - f
           x == f * T3
           y == g * T3
<1>1. s \in Int /\ t \in Int /\ t = s + k * e /\ e \in Int /\ k \in Nat
  BY SMT
<1>2. -131072 <= e /\ e <= 131072
  BY SMT
<1> HIDE DEF k
<1>3. k * e \in Int /\ -(k * 131072) <= k * e /\ k * e <= k * 131072
  BY <1>1, <1>2, ProductBetween, SMT
<1>4. delta \in Int /\ -n <= delta /\ delta <= n /\ n \in Nat
  <2> HIDE DEF s, t, e
  <2>1. s - k * 131072 <= t /\ t <= s + k * 131072
    BY <1>1, <1>3, SMT
  <2> QED
    BY <1>1, <2>1, SMT
<1>5. f \in Int /\ g \in Int
  <2> HIDE DEF s, t
  <2> QED BY <1>1, SMT
<1> HIDE DEF s, t, f, g, n
<1>6. x \in Int /\ y \in Int /\ y = x + delta * T3
  BY <1>5, SMT
<1> HIDE DEF delta
<1>7. -(n * 2048) <= delta * T3 /\ delta * T3 \in Int
  BY <1>4, ProductBetween, SMT
<1> HIDE DEF x, y
<1>8. x <= y + 65536 * k
  BY <1>1, <1>6, <1>7, SMT DEF n
<1>9. x \div 16384 <= y \div 16384 + 4 * k
  BY <1>1, <1>6, <1>8, SMT
<1> QED
  BY <1>9 DEF Square, x, y, f, g, s, t, k

\* With a T2 large enough for its T3, t_fine rises with the raw temperature, for all of
\* its 20 bits.
LEMMA TFineRises ==
    ASSUME NEW cal, cal.T1 \in Int, cal.T2 \in Int, cal.T3 \in Int,
           0 <= cal.T1, cal.T1 <= 65536, cal.T2 >= 16384, -2048 <= cal.T3, cal.T3 <= 2048,
           NEW r \in Nat, NEW s \in Nat, r <= s, s < 1048576
    PROVE  /\ TFine(cal, r) \in Int /\ TFine(cal, s) \in Int
           /\ TFine(cal, r) <= TFine(cal, s)
<1> DEFINE a == r \div 8
           b == s \div 8
           c == (r \div 16) - cal.T1
           d == (s \div 16) - cal.T1
           T1 == cal.T1
           T2 == cal.T2
           T3 == cal.T3
<1>1. /\ a \in Int /\ b \in Int /\ c \in Int /\ d \in Int
      /\ a <= b /\ c <= d /\ (d > c => b - a >= 2 * (d - c) - 1)
      /\ -65536 <= c /\ d <= 65536
  BY SMT
<1>2. /\ T1 \in Int /\ T2 \in Int /\ T3 \in Int
      /\ T2 >= 16384 /\ -2048 <= T3 /\ T3 <= 2048
  OBVIOUS
<1>3. /\ TFine(cal, r) = Linear(a, T1, T2) + Square(c, T3)
      /\ TFine(cal, s) = Linear(b, T1, T2) + Square(d, T3)
  BY DEF TFine, Linear, Square
<1> HIDE DEF a, b, c, d, T1, T2, T3
<1>4. Linear(a, T1, T2) + 8 * (b - a) <= Linear(b, T1, T2)
  BY <1>1, <1>2, FirstTerm
<1>5. Square(c, T3) <= Square(d, T3) + 4 * (d - c)
  BY <1>1, <1>2, SecondTerm
<1>6. ASSUME NEW x \in Int PROVE Linear(x, T1, T2) \in Int /\ Square(x, T3) \in Int
  <2> DEFINE lin == (x - 2 * T1) * T2
             sq == x * x
  <2>1. sq \in Int /\ lin \in Int
    BY <1>2, SMT
  <2> HIDE DEF sq, lin
  <2> DEFINE f == sq \div 4096
  <2>2. f \in Int
    BY <2>1, SMT
  <2> HIDE DEF f
  <2> DEFINE p == f * T3
  <2>3. p \in Int
    BY <1>2, <2>2, SMT
  <2> HIDE DEF p
  <2>4. lin \div 2048 \in Int /\ p \div 16384 \in Int
    BY <2>1, <2>3, SMT
  <2> QED
    BY <2>4 DEF Linear, Square, lin, p, f, sq
<1>7. /\ Linear(a, T1, T2) \in Int /\ Linear(b, T1, T2) \in Int
      /\ Square(c, T3) \in Int /\ Square(d, T3) \in Int
  BY <1>1, <1>6
<1>8. 8 * (b - a) >= 4 * (d - c)
  BY <1>1, SMT
<1> QED
  BY <1>1, <1>3, <1>4, <1>5, <1>7, <1>8, SMT

\* The cast to 16 bits keeps the order of two temperatures that fit them.
LEMMA DegreesKept ==
    ASSUME NEW cal, NEW r, NEW s, TFine(cal, r) \in Int, TFine(cal, s) \in Int,
           -32768 * 256 <= TFine(cal, r) * 5 + 128, TFine(cal, r) <= TFine(cal, s),
           TFine(cal, s) * 5 + 128 < 32768 * 256
    PROVE  Temperature(cal, r) <= Temperature(cal, s)
<1> DEFINE x == TFine(cal, r)
           y == TFine(cal, s)
           u == (x * 5 + 128) \div 256
           v == (y * 5 + 128) \div 256
<1>1. Temperature(cal, r) = Int16(u) /\ Temperature(cal, s) = Int16(v)
  BY DEF Temperature
<1> HIDE DEF x, y
<1>2. u \in Int /\ v \in Int /\ -32768 <= u /\ u <= v /\ v <= 32767
  BY SMT DEF x, y
<1> HIDE DEF u, v
<1>3. Int16(u) = u /\ Int16(v) = v
  BY <1>2, SMT DEF Int16
<1> QED
  BY <1>1, <1>2, <1>3

\* The humidity's correction, its product with a gain, and its clamps.
Corrected(x, H1) ==
    x - (((((x \div 32768) * (x \div 32768)) \div 128) * H1) \div 16)
Uncorrected(cal, v, g, r) == HumidityRaw(cal, v, r) * g
Clamped(z) == IF z < 0 THEN 0 ELSE IF z > 419430400 THEN 419430400 ELSE z

\* The correction by H1 does not turn the order around when the product rises by 16384
\* or more, or not at all, and fits 32 bits.
LEMMA CorrectionKeepsOrder ==
    ASSUME NEW x \in Int, NEW y \in Int, x = y \/ x + 16384 <= y,
           -65536 <= x \div 32768, y \div 32768 < 65536,
           NEW H1 \in Int, 0 <= H1, H1 <= 255
    PROVE  /\ Corrected(x, H1) \in Int /\ Corrected(y, H1) \in Int
           /\ Corrected(x, H1) <= Corrected(y, H1)
<1> DEFINE u == x \div 32768
           v == y \div 32768
           k == v - u
           s == u * u
           t == v * v
           f == s \div 128
           g == t \div 128
           p == f * H1
           q == g * H1
<1>1. /\ u \in Int /\ v \in Int /\ k \in Nat
      /\ -65536 <= u /\ v < 65536
      /\ k = 0 \/ (k >= 1 /\ y - x >= 16384 /\ y - x >= 32768 * k - 32767)
  BY SMT
<1> HIDE DEF u, v
<1>2. s \in Int /\ t \in Int /\ t = s + k * (u + v)
  BY <1>1, SMT
<1>3. k \in Nat /\ -131072 <= u + v /\ u + v <= 131072 /\ u + v \in Int
  BY <1>1, SMT
<1>4. k * (u + v) \in Int /\ k * (u + v) <= k * 131072
  BY <1>3, ProductBetween, SMT
<1> HIDE DEF s, t, k
<1>5. f \in Int /\ g \in Int /\ g <= f + 1024 * k
  <2>1. t <= s + 131072 * k
    BY <1>2, <1>3, <1>4, SMT
  <2> QED
    BY <1>2, <1>3, <2>1, SMT
<1> HIDE DEF f, g
<1>6. p \in Int /\ q \in Int /\ q <= p + 261120 * k
  <2> DEFINE z == f + 1024 * k - g
  <2>1. z \in Nat
    BY <1>3, <1>5, SMT
  <2>2. q = p + 1024 * k * H1 - z * H1 /\ p \in Int /\ q \in Int
    BY <1>3, <1>5, SMT
  <2>3. k * H1 <= k * 255 /\ k * H1 \in Int
    BY <1>3, ProductBetween, SMT
  <2> HIDE DEF z
  <2>4. z * H1 \in Nat
    BY <2>1, SMT
  <2>5. 1024 * k * H1 = 1024 * (k * H1)
    BY <1>3, SMT
  <2> HIDE DEF p, q
  <2> QED
    BY <1>3, <2>2, <2>3, <2>4, <2>5, SMT
<1> HIDE DEF p, q
<1>7. p \div 16 \in Int /\ q \div 16 \in Int /\ q \div 16 <= p \div 16 + 16320 * k
  BY <1>3, <1>6, SMT
<1> DEFINE pd == p \div 16
           qd == q \div 16
<1>8. pd \in Int /\ qd \in Int /\ qd <= pd + 16320 * k
  BY <1>7
<1>9. k = 0 => v = u
  BY <1>1 DEF k
<1>10. /\ Corrected(x, H1) = x - pd /\ Corrected(y, H1) = y - qd
       /\ x - pd \in Int /\ y - qd \in Int
  <2>1. x - pd \in Int /\ y - qd \in Int
    <3> HIDE DEF pd, qd
    <3> QED BY <1>8, SMT
  <2> QED
    BY <2>1 DEF Corrected, pd, qd, p, q, f, g, s, t, u, v
<1>11. CASE k = 0
  <2>1. pd = qd
    BY <1>9, <1>11 DEF pd, qd, p, q, f, g, s, t
  <2> HIDE DEF pd, qd
  <2>2. x - pd <= y - qd
    BY <1>8, <2>1, SMT
  <2> QED
    BY <1>10, <2>2
<1>12. CASE k >= 1
  <2> HIDE DEF pd, qd
  <2>1. x - pd <= y - qd
    BY <1>1, <1>3, <1>8, <1>12, SMT
  <2> QED
    BY <1>10, <2>1
<1> QED
  BY <1>3, <1>10, <1>11, <1>12, SMT

\* One product is the other one, or a gain below it.
Below(x, y) == x \in Int /\ y \in Int /\ (x = y \/ x + 16384 <= y)

\* The product of the two factors rises with the raw humidity, by the gain or not at all.
LEMMA ProductRises ==
    ASSUME NEW cal, NEW v \in Int, cal.H4 \in Int, cal.H5 \in Int,
           NEW g \in Int, g >= 16384,
           NEW h \in Nat, NEW k \in Nat, h <= k
    PROVE  Below(Uncorrected(cal, v, g, h), Uncorrected(cal, v, g, k))
<1> DEFINE c == cal.H4 * 1048576
           d == cal.H5 * v
           a == HumidityRaw(cal, v, h)
           b == HumidityRaw(cal, v, k)
           x == a * g
           y == b * g
<1>1. c \in Int /\ d \in Int
  BY SMT
<1>2. /\ a = (h * 16384 - c - d + 16384) \div 32768
      /\ b = (k * 16384 - c - d + 16384) \div 32768
  BY DEF HumidityRaw
<1> HIDE DEF a, b, c, d
<1>3. a \in Int /\ b \in Int /\ a <= b
  BY <1>1, <1>2, SMT
<1> DEFINE n == b - a
           m == g - 16384
<1>4. x \in Int /\ y \in Int /\ y = x + n * g /\ n \in Nat /\ m \in Nat
  BY <1>3, SMT
<1>5. n * g = 16384 * n + n * m
  BY <1>3, SMT
<1> HIDE DEF x, y, n, m
<1>6. n * m \in Nat
  BY <1>4, SMT
<1>7. n = 0 => n * g = 0
  BY SMT
<1>8. x = y \/ x + 16384 <= y
  BY <1>4, <1>5, <1>6, <1>7, SMT
<1> QED
  BY <1>4, <1>8 DEF Below, Uncorrected, x, y, a, b

\* At t the gain is large enough, and 32 bits are for the products at lo and hi.
Fits(cal, t, lo, hi) ==
    LET v == TFine(cal, t) - 76800
        g == HumidityGain(cal, v)
    IN  /\ g >= 16384
        /\ Uncorrected(cal, v, g, lo) \div 32768 >= -65536
        /\ Uncorrected(cal, v, g, hi) \div 32768 < 65536

\* The humidity rises with its raw value between lo and hi, where 32 bits are enough.
LEMMA HumidityRises ==
    ASSUME NEW i \in Images, NEW t \in Int, NEW lo \in Nat, NEW hi \in Nat,
           NEW h \in Nat, NEW k \in Nat, lo <= h, h <= k, k <= hi,
           Fits(Calibration(i), t, lo, hi)
    PROVE  HumidityQ22(Calibration(i), t, h) <= HumidityQ22(Calibration(i), t, k)
<1> DEFINE cal == Calibration(i)
           H1 == cal.H1
           v == TFine(cal, t) - 76800
           g == HumidityGain(cal, v)
           xl == Uncorrected(cal, v, g, lo)
           x == Uncorrected(cal, v, g, h)
           y == Uncorrected(cal, v, g, k)
           yh == Uncorrected(cal, v, g, hi)
           cx == Corrected(x, H1)
           cy == Corrected(y, H1)
<1>1. /\ cal.T1 \in Int /\ cal.T2 \in Int /\ cal.T3 \in Int
      /\ cal.H1 \in Int /\ cal.H2 \in Int /\ cal.H3 \in Int
      /\ cal.H4 \in Int /\ cal.H5 \in Int /\ cal.H6 \in Int
  BY CalibrationTypes, SMT
<1>2. H1 \in Int /\ 0 <= H1 /\ H1 <= 255
  BY ImagesAssumption, SMT DEF Calibration
<1>3. g >= 16384 /\ xl \div 32768 >= -65536 /\ yh \div 32768 < 65536
  BY DEF Fits
<1>4. HumidityQ22(cal, t, h) = Clamped(cx) /\ HumidityQ22(cal, t, k) = Clamped(cy)
  BY DEF HumidityQ22, Uncorrected, Corrected, Clamped
<1> HIDE DEF cal
<1>5. v \in Int /\ g \in Int
  <2>1. v \in Int
    BY <1>1, SMT DEF TFine
  <2> HIDE DEF v
  <2> QED
    BY <1>1, <2>1, SMT DEF HumidityGain, GainBase
<1> HIDE DEF v, g
<1>6. Below(xl, x) /\ Below(x, y) /\ Below(y, yh)
  <2>1. cal.H4 \in Int /\ cal.H5 \in Int
    BY <1>1
  <2>2. \A p \in Nat, q \in Nat :
          p <= q => Below(Uncorrected(cal, v, g, p), Uncorrected(cal, v, g, q))
    BY <1>3, <1>5, <2>1, ProductRises
  <2> QED
    BY <2>2
<1> HIDE DEF xl, x, y, yh, H1
<1>7. -65536 <= x \div 32768 /\ y \div 32768 < 65536
  BY <1>3, <1>6, SMT DEF Below
<1>8. cx \in Int /\ cy \in Int /\ cx <= cy
  BY <1>2, <1>6, <1>7, CorrectionKeepsOrder DEF Below
<1> HIDE DEF cx, cy
<1>9. Clamped(cx) <= Clamped(cy)
  BY <1>8, SMT DEF Clamped
<1> QED
  BY <1>4, <1>9 DEF cal

-----------------------------------------------------------------------------
(* Alerts                                                                   *)

\* There are eight alerts, and no name is longer than 13.
LEMMA EightNames ==
    /\ Alerts = 1 .. 8
    /\ \A k \in 1 .. 8 : NameLength[k] \in Nat /\ NameLength[k] <= 13
<1>1. DOMAIN NameLength = 1 .. 8
  BY DEF NameLength
<1>2. /\ NameLength[1] = 9 /\ NameLength[2] = 8 /\ NameLength[3] = 13 /\ NameLength[4] = 12
      /\ NameLength[5] = 8 /\ NameLength[6] = 8 /\ NameLength[7] = 8 /\ NameLength[8] = 11
  BY DEF NameLength
<1>3. \A k \in 1 .. 8 : NameLength[k] \in Nat /\ NameLength[k] <= 13
  BY <1>2
<1> QED
  BY <1>1, <1>3 DEF Alerts

\* Before alert k is tested, those below it that are in the mask are listed, at no more
\* than 16 characters each.
ListedBelow(acc, mask_, k) ==
    /\ acc.pos \in Nat /\ acc.pos <= 16 * (k - 1)
    /\ acc.listed \subseteq 1 .. 8
    /\ \A n \in 1 .. 8 : n \in acc.listed <=> n \in mask_ /\ n < k

\* Testing an alert keeps that: there is always room for one more name.
LEMMA TestedKeeps ==
    ASSUME NEW m \in SUBSET (1 .. 8), NEW k \in 1 .. 8, NEW acc, ListedBelow(acc, m, k)
    PROVE  ListedBelow(Tested(acc, m, k), m, k + 1)
<1>1. /\ acc.pos \in Nat /\ acc.pos <= 16 * (k - 1) /\ acc.listed \subseteq 1 .. 8
      /\ \A n \in 1 .. 8 : n \in acc.listed <=> n \in m /\ n < k
  BY DEF ListedBelow
<1>2. NameLength[k] \in Nat /\ NameLength[k] <= 13
  BY EightNames
<1>3. HasRoom(acc.pos, k)
  BY <1>1, <1>2 DEF HasRoom
<1>4. CASE k \in m
  <2>1. Tested(acc, m, k) = Appended(acc, k)
    BY <1>3, <1>4 DEF Tested
  <2>2. /\ Appended(acc, k).listed \subseteq 1 .. 8
        /\ \A n \in 1 .. 8 : n \in Appended(acc, k).listed <=> n \in m /\ n < k + 1
    <3>1. Appended(acc, k).listed = acc.listed \cup {k}
      BY DEF Appended
    <3>2. \A n \in 1 .. 8 : n < k + 1 <=> n < k \/ n = k
      OBVIOUS
    <3> QED
      BY <1>1, <1>4, <3>1, <3>2
  <2>3. Appended(acc, k).pos \in Nat /\ Appended(acc, k).pos <= 16 * ((k + 1) - 1)
    BY <1>1, <1>2 DEF Appended
  <2> QED
    BY <2>1, <2>2, <2>3 DEF ListedBelow
<1>5. CASE k \notin m
  <2>1. Tested(acc, m, k) = acc
    BY <1>5 DEF Tested
  <2>2. \A n \in 1 .. 8 : n \in m /\ n < k <=> n \in m /\ n < k + 1
    BY <1>5
  <2> QED
    BY <1>1, <2>1, <2>2 DEF ListedBelow
<1> QED
  BY <1>4, <1>5

\* The whole list: every alert of the mask, in at most 128 characters.
LEMMA ListingComplete ==
    ASSUME NEW m \in SUBSET (1 .. 8)
    PROVE  /\ Listing(m).listed = m
           /\ Listing(m).pos \in Nat /\ Listing(m).pos <= 128
<1> DEFINE l1 == [pos |-> 0, listed |-> {}]
           l2 == Tested(l1, m, 1)
           l3 == Tested(l2, m, 2)
           l4 == Tested(l3, m, 3)
           l5 == Tested(l4, m, 4)
           l6 == Tested(l5, m, 5)
           l7 == Tested(l6, m, 6)
           l8 == Tested(l7, m, 7)
           l9 == Tested(l8, m, 8)
<1>1. ListedBelow(l1, m, 1)
  BY DEF ListedBelow
<1>2. Listing(m) = l9
  BY DEF Listing, FirstHalf
<1> HIDE DEF l1
<1>3. ListedBelow(l2, m, 2)
  BY <1>1, TestedKeeps
<1> HIDE DEF l2
<1>4. ListedBelow(l3, m, 3)
  BY <1>3, TestedKeeps
<1> HIDE DEF l3
<1>5. ListedBelow(l4, m, 4)
  BY <1>4, TestedKeeps
<1> HIDE DEF l4
<1>6. ListedBelow(l5, m, 5)
  BY <1>5, TestedKeeps
<1> HIDE DEF l5
<1>7. ListedBelow(l6, m, 6)
  BY <1>6, TestedKeeps
<1> HIDE DEF l6
<1>8. ListedBelow(l7, m, 7)
  BY <1>7, TestedKeeps
<1> HIDE DEF l7
<1>9. ListedBelow(l8, m, 8)
  BY <1>8, TestedKeeps
<1> HIDE DEF l8
<1>10. ListedBelow(l9, m, 9)
  BY <1>9, TestedKeeps
<1> HIDE DEF l9
<1>11. /\ l9.pos \in Nat /\ l9.pos <= 128
       /\ l9.listed \subseteq 1 .. 8 /\ \A n \in 1 .. 8 : n \in l9.listed <=> n \in m
  BY <1>10 DEF ListedBelow
<1>12. l9.listed = m
  BY <1>11
<1> QED
  BY <1>2, <1>11, <1>12

-----------------------------------------------------------------------------
(* The bench                                                                *)

\* What is on the bench is what Init put there, its raw value has not risen past its
\* last one, no more bits are flipped than there may be.
BenchInv ==
    /\ part \in Analog \cup BmeParts \cup {"frame", "alerts"}
    /\ part \in Analog \cup BmeParts =>
          raw \in Nat /\ (raw = Sweep[part].first \/ raw <= Sweep[part].last)
    /\ part \in BmeParts => (\E i \in Images : img = {i}) /\ adc_t \in Nat
    /\ part = "frame" => \E f \in Frames : frame = {f}
    /\ flips \in SUBSET Places /\ IsFiniteSet(flips) /\ Cardinality(flips) <= MaxFlips
    /\ mask \in SUBSET Alerts

\* The bench starts in its invariant.
LEMMA InitBench == Init => BenchInv
<1> SUFFICES ASSUME Init PROVE BenchInv
  OBVIOUS
<1>1. IsFiniteSet({}) /\ Cardinality({}) = 0 /\ MaxFlips \in 0 .. 3
  BY FS_EmptySet, FramesAssumption
<1>2. flips = {} /\ mask = {}
  BY DEF Init
<1>3. flips \in SUBSET Places /\ IsFiniteSet(flips) /\ Cardinality(flips) <= MaxFlips
  BY <1>1, <1>2
<1>4. \A p \in Analog \cup BmeParts : Sweep[p].first \in Nat /\ Sweep[p].last \in Nat
  BY SweepAssumption
<1>5. CASE part \in Analog /\ raw = Sweep[part].first
  BY <1>2, <1>3, <1>4, <1>5 DEF BenchInv, Analog, BmeParts
<1>6. CASE /\ part \in BmeParts /\ raw = Sweep[part].first
           /\ img \in {{i} : i \in Images}
           /\ adc_t \in IF part = "hum" THEN {Sweep["temp"].first, Sweep["temp"].last} ELSE {0}
  <2>1. \E i \in Images : img = {i}
    BY <1>6
  <2>2. adc_t \in Nat
    BY <1>4, <1>6 DEF BmeParts
  <2> QED
    BY <1>2, <1>3, <1>4, <1>6, <2>1, <2>2 DEF BenchInv, BmeParts
<1>7. CASE part = "frame" /\ frame \in {{f} : f \in Frames}
  BY <1>2, <1>3, <1>7 DEF BenchInv, Analog, BmeParts
<1>8. CASE part = "alerts"
  BY <1>2, <1>3, <1>8 DEF BenchInv, Analog, BmeParts
<1> QED
  BY <1>5, <1>6, <1>7, <1>8 DEF Init

\* No step leaves the invariant.
LEMMA NextBench == BenchInv /\ [Next]_vars => BenchInv'
<1> SUFFICES ASSUME BenchInv, [Next]_vars PROVE BenchInv'
  OBVIOUS
<1>1. CASE Rise
  <2>1. /\ part' = part /\ raw' = raw + Sweep[part].step /\ raw' <= Sweep[part].last
        /\ img' = img /\ adc_t' = adc_t /\ frame' = frame /\ flips' = flips /\ mask' = mask
        /\ part \in Analog \cup BmeParts
    BY <1>1 DEF Rise
  <2>2. Sweep[part].step \in Nat /\ raw \in Nat
    BY <2>1, SweepAssumption DEF BenchInv
  <2>3. raw' \in Nat
    BY <2>1, <2>2
  <2> QED
    BY <2>1, <2>3 DEF BenchInv
<1>2. CASE Flip
  <2>1. PICK k \in 1 .. 9, b \in Byte : flips' = flips \cup {<<k, b>>}
    BY <1>2 DEF Flip
  <2> DEFINE p == <<k, b>>
  <2>2. p \in Places /\ flips' = flips \cup {p}
    BY <2>1 DEF Places
  <2> HIDE DEF p
  <2>3. IsFiniteSet(flips) /\ Cardinality(flips) < MaxFlips /\ flips \in SUBSET Places
    BY <1>2 DEF Flip, BenchInv
  <2>4. /\ IsFiniteSet(flips \cup {p})
        /\ Cardinality(flips \cup {p}) =
              IF p \in flips THEN Cardinality(flips) ELSE Cardinality(flips) + 1
    BY <2>3, FS_AddElement
  <2>5. Cardinality(flips) \in Nat /\ MaxFlips \in Nat
    BY <2>3, FS_CardinalityType, FramesAssumption
  <2>6. Cardinality(flips \cup {p}) <= MaxFlips
    BY <2>3, <2>4, <2>5
  <2>7. flips' \in SUBSET Places /\ IsFiniteSet(flips') /\ Cardinality(flips') <= MaxFlips
    BY <2>2, <2>3, <2>4, <2>6
  <2> QED
    BY <1>2, <2>7 DEF Flip, BenchInv
<1>3. CASE Raise
  BY <1>3 DEF Raise, BenchInv
<1>4. CASE UNCHANGED vars
  BY <1>4 DEF vars, BenchInv
<1> QED
  BY <1>1, <1>2, <1>3, <1>4 DEF Next

\* The bench never leaves its invariant, on which every result below rests.
THEOREM BenchInvariant == Spec => []BenchInv
BY InitBench, NextBench, PTL DEF Spec

\* A frame the SCD41 sent is taken when it arrives as it was sent and refused with up to
\* three bits flipped, wherever they are; a bus stuck low or high is never taken, not
\* with three bits flipped either: the check of scd41_read, for every frame with checksums.
THEOREM FramesRefused == Spec => []CorruptionRefused
<1>1. BenchInv => CorruptionRefused
  <2> SUFFICES ASSUME BenchInv, part = "frame"
               PROVE  ScdAccepted(WithFlips(Sent, flips)) <=> flips = {} /\ Sent \notin Stuck
    BY DEF CorruptionRefused
  <2>1. PICK f \in Frames : frame = {f}
    BY DEF BenchInv
  <2>2. Sent = f
    BY <2>1 DEF Sent
  <2>3. Frame(f) /\ (f \in Stuck \/ ScdAccepted(f))
    BY FramesAssumption DEF Frame
  <2>4. flips \in SUBSET Places /\ IsFiniteSet(flips) /\ Cardinality(flips) <= 3
    <3>1. Cardinality(flips) <= MaxFlips /\ MaxFlips \in 0 .. 3 /\ Cardinality(flips) \in Nat
      BY FramesAssumption, FS_CardinalityType DEF BenchInv
    <3> QED
      BY <3>1 DEF BenchInv
  <2> HIDE DEF Sent
  <2> QED
    BY <2>2, <2>3, <2>4, FlipsRefused
<1> QED
  BY <1>1, BenchInvariant, PTL

\* No alert of a mask is left out of the message, and the message is published, for every
\* mask: agrinet_mqtt_build_alert_json and app_gateway_publish_alert.
THEOREM AlertsNamed == Spec => []AlertsComplete
<1>1. BenchInv => AlertsComplete
  <2> SUFFICES ASSUME BenchInv PROVE AlertsComplete
    OBVIOUS
  <2>1. mask \in SUBSET (1 .. 8)
    BY EightNames DEF BenchInv
  <2>2. Listing(mask).listed = mask /\ Listing(mask).pos \in Nat /\ Listing(mask).pos <= 128
    BY <2>1, ListingComplete
  <2> QED
    BY <2>2 DEF AlertsComplete, AlertPublished, AlertJsonLength
<1> QED
  BY <1>1, BenchInvariant, PTL

\* What the firmware makes of the raw value, part by part.
LEMMA ReadingOf ==
    ASSUME NEW r
    PROVE  /\ part = "soil" => Reading(r) = Moisture(r)
           /\ part = "lux" => Reading(r) = Lux(r)
           /\ part = "scdTemp" => Reading(r) = ScdTemperature(r)
           /\ part = "temp" => Reading(r) = Temperature(Cal, r)
           /\ part = "hum" => Reading(r) = HumidityQ22(Cal, adc_t, r)
           /\ part = "batteryCal" => Reading(r) = BatteryPct(PinMillivolts(0, TRUE, r))
           /\ part = "batteryRaw" => Reading(r) = BatteryPct(PinMillivolts(r, FALSE, 0))
BY DEF Reading

\* The coefficients are those of the image on the bench.
LEMMA CalOf ==
    ASSUME BenchInv, part \in BmeParts
    PROVE  \E i \in Images : Cal = Calibration(i)
<1>1. PICK i \in Images : img = {i}
  BY DEF BenchInv
<1>2. (CHOOSE j \in img : TRUE) = i
  BY <1>1
<1> QED
  BY <1>2 DEF Cal

\* Light and SCD41 temperature come with 16 bits.
LEMMA SixteenBits ==
    ASSUME BenchInv, part \in {"lux", "scdTemp"}
    PROVE  raw \in Nat /\ raw < 65536
<1>1. part \in Analog
  BY DEF Analog
<1>2. /\ Sweep[part].first \in Nat /\ Sweep[part].last \in Nat
      /\ Sweep[part].first <= Sweep[part].last /\ Sweep[part].last < 65536
  BY <1>1, SweepAssumption, SMT
<1> QED
  BY <1>1, <1>2, SMT DEF BenchInv

\* Light, soil moisture and battery are in the ranges docs/MQTT_API.md gives them, for
\* every raw value.
THEOREM ReadingsRanged == Spec => []ReadingsInRange
<1>1. BenchInv => ReadingsInRange
  <2> SUFFICES ASSUME BenchInv, part \in {"lux", "soil", "batteryCal", "batteryRaw"}
               PROVE  Within(Reading(raw), Declared[part])
    BY DEF ReadingsInRange, Declared
  <2>1. raw \in Nat
    BY DEF BenchInv, Analog
  <2>2. CASE part = "soil"
    <3>1. 0 <= Moisture(raw) /\ Moisture(raw) <= 10000
      BY <2>1, MoistureFalls, SMT
    <3> QED
      BY <2>2, <3>1, ReadingOf, SMT DEF Within, Declared
  <2>3. CASE part = "lux"
    <3>1. raw < 65536
      BY <2>3, SixteenBits
    <3>2. 0 <= Lux(raw) /\ Lux(raw) <= 65534
      BY <2>1, <3>1, LuxRises, SMT
    <3> QED
      BY <2>3, <3>2, ReadingOf, SMT DEF Within, Declared
  <2>4. CASE part = "batteryCal"
    <3>1. Reading(raw) = BatteryPct(raw)
      BY <2>4 DEF Reading, PinMillivolts
    <3>2. 0 <= BatteryPct(raw) /\ BatteryPct(raw) <= 100
      BY <2>1, BatteryRises, SMT
    <3> QED
      BY <2>4, <3>1, <3>2, SMT DEF Within, Declared
  <2>5. CASE part = "batteryRaw"
    <3> DEFINE mv == (raw * 1100) \div 4095
    <3>1. Reading(raw) = BatteryPct(mv)
      BY <2>5, SMT DEF Reading, PinMillivolts
    <3>2. mv \in Nat
      BY <2>1, SMT
    <3> HIDE DEF mv
    <3>3. 0 <= BatteryPct(mv) /\ BatteryPct(mv) <= 100
      BY <3>2, BatteryRises, SMT
    <3> QED
      BY <2>5, <3>1, <3>3, SMT DEF Within, Declared
  <2> QED
    BY <2>2, <2>3, <2>4, <2>5
<1> QED
  BY <1>1, BenchInvariant, PTL

\* A BME280 whose coefficients could not be read is read as 0 degrees and 0 per cent for
\* every raw value and whatever the rest of its registers holds.
THEOREM UncalibratedIsZero == Spec => []MissedCalibration
<1>1. BenchInv => MissedCalibration
  <2> SUFFICES ASSUME BenchInv PROVE MissedCalibration
    OBVIOUS
  <2>1. ASSUME part \in BmeParts
        PROVE  raw \in Nat /\ adc_t \in Nat /\ \E i \in Images : Cal = Calibration(i)
    BY <2>1, CalOf DEF BenchInv
  <2>2. ASSUME part = "temp", Cal.T1 = 0
        PROVE  Reading(raw) = 0
    <3>1. raw \in Nat /\ \E i \in Images : Cal = Calibration(i)
      BY <2>1, <2>2 DEF BmeParts
    <3>2. Temperature(Cal, raw) = 0
      BY <2>2, <3>1, NoTemperature
    <3> QED
      BY <2>2, <3>2, ReadingOf
  <2>3. ASSUME part = "hum", Cal.H2 = 0
        PROVE  Reading(raw) = 0
    <3>1. raw \in Nat /\ adc_t \in Nat /\ \E i \in Images : Cal = Calibration(i)
      BY <2>1, <2>3 DEF BmeParts
    <3>2. HumidityQ22(Cal, adc_t, raw) = 0
      BY <2>3, <3>1, HumidityClamped
    <3> QED
      BY <2>3, <3>2, ReadingOf
  <2> QED
    BY <2>2, <2>3 DEF MissedCalibration
<1> QED
  BY <1>1, BenchInvariant, PTL

\* No rounding, clamp or cast of the analog conversions turns the order of two raw
\* values around, for every raw value and every step between them.
THEOREM OrderPreserved == Spec => OrderKept
<1>1. BenchInv /\ BenchInv' /\ [Next]_vars =>
        (raw' > raw /\ part \in Analog =>
           IF part = "soil" THEN Reading(raw') <= Reading(raw) ELSE Reading(raw') >= Reading(raw))
  <2> SUFFICES ASSUME BenchInv, BenchInv', [Next]_vars, raw' > raw, part \in Analog
               PROVE  IF part = "soil" THEN Reading(raw') <= Reading(raw)
                                       ELSE Reading(raw') >= Reading(raw)
    OBVIOUS
  <2>1. part' = part
    BY DEF Next, Rise, Flip, Raise, vars
  <2> DEFINE a == raw
             b == raw'
  <2>2. a \in Nat /\ b \in Nat /\ a < b
    BY <2>1 DEF BenchInv
  <2>3. part \in {"lux", "scdTemp"} => b < 65536
    <3>1. \A p \in {"lux", "scdTemp"} :
            /\ Sweep[p].first \in Nat /\ Sweep[p].last \in Nat
            /\ Sweep[p].first < 65536 /\ Sweep[p].last < 65536
      BY SweepAssumption, SMT DEF Analog
    <3>2. b = Sweep[part].first \/ b <= Sweep[part].last
      BY <2>1 DEF BenchInv
    <3> HIDE DEF b
    <3> QED
      BY <2>2, <3>1, <3>2, SMT
  <2> HIDE DEF a, b
  <2>4. CASE part = "soil"
    BY <2>2, <2>4, MoistureFalls, ReadingOf, SMT DEF a, b
  <2>5. CASE part = "lux"
    BY <2>2, <2>3, <2>5, LuxRises, ReadingOf, SMT DEF a, b
  <2>6. CASE part = "scdTemp"
    BY <2>2, <2>3, <2>6, ScdRises, ReadingOf, SMT DEF a, b
  <2>7. CASE part = "batteryCal"
    <3>1. Reading(a) = BatteryPct(a) /\ Reading(b) = BatteryPct(b)
      BY <2>7 DEF Reading, PinMillivolts
    <3> QED
      BY <2>2, <2>7, <3>1, BatteryRises, SMT DEF a, b
  <2>8. CASE part = "batteryRaw"
    <3> DEFINE x == (a * 1100) \div 4095
               y == (b * 1100) \div 4095
    <3>1. Reading(a) = BatteryPct(x) /\ Reading(b) = BatteryPct(y)
      BY <2>8, SMT DEF Reading, PinMillivolts
    <3>2. x \in Nat /\ y \in Nat /\ x <= y
      BY <2>2, SMT
    <3> HIDE DEF x, y
    <3> QED
      BY <2>8, <3>1, <3>2, BatteryRises, SMT DEF a, b
  <2> QED
    BY <2>4, <2>5, <2>6, <2>7, <2>8 DEF Analog
<1> QED
  BY <1>1, BenchInvariant, PTL DEF Spec, OrderKept
-----------------------------------------------------------------------------
(* The BME280 on the bench                                                  *)

\* What SensorsAssumption says of the temperature of one sensor.
LEMMA TemperatureRises ==
    ASSUME NEW i \in Images, NEW r \in Nat, NEW s \in Nat,
           Sweep["temp"].first <= r, r <= s, s <= Sweep["temp"].last
    PROVE  Temperature(Calibration(i), r) <= Temperature(Calibration(i), s)
<1> DEFINE cal == Calibration(i)
           lo == Sweep["temp"].first
           hi == Sweep["temp"].last
<1>1. CASE cal.T1 = 0
  <2>1. Temperature(cal, r) = 0 /\ Temperature(cal, s) = 0
    BY <1>1, NoTemperature
  <2> QED
    BY <2>1, SMT
<1>2. CASE cal.T1 # 0
  <2>1. lo \in Nat /\ hi \in Nat /\ hi < 1048576
    BY SweepAssumption, SensorsAssumption DEF BmeParts
  <2>2. /\ cal.T2 >= 16384 /\ -2048 <= cal.T3 /\ cal.T3 <= 2048
        /\ -32768 * 256 <= TFine(cal, lo) * 5 + 128
        /\ TFine(cal, hi) * 5 + 128 < 32768 * 256
    BY <1>2, SensorsAssumption
  <2>3. cal.T1 \in Int /\ cal.T2 \in Int /\ cal.T3 \in Int
    BY CalibrationTypes, SMT
  <2>4. 0 <= cal.T1 /\ cal.T1 <= 65536
    <3>1. \A reg \in (136 .. 141) \cup {161} \cup (225 .. 231) : i[reg] \in 0 .. 255
      BY ImagesAssumption, SMT
    <3>2. i[136] \in 0 .. 255 /\ i[137] \in 0 .. 255
      BY <3>1, SMT
    <3> DEFINE low == i[136]  high == i[137]
    <3>3. cal.T1 = 256 * high + low
      BY SMT DEF Calibration, Word
    <3>4. low \in Int /\ 0 <= low /\ low <= 255 /\ high \in Int /\ 0 <= high /\ high <= 255
      BY <3>2, SMT
    <3> DEFINE T1 == cal.T1
    <3>5. T1 = 256 * high + low
      BY <3>3
    <3> HIDE DEF low, high, T1
    <3>6. 0 <= T1 /\ T1 <= 65536
      BY <3>4, <3>5, SMT
    <3> QED
      BY <3>6 DEF T1
  <2>5. lo <= r /\ s <= hi
    OBVIOUS
  <2> HIDE DEF cal, lo, hi
  <2>6. \A x \in Nat, y \in Nat : x <= y /\ y < 1048576 =>
            TFine(cal, x) \in Int /\ TFine(cal, y) \in Int /\ TFine(cal, x) <= TFine(cal, y)
    BY <2>2, <2>3, <2>4, TFineRises
  <2>7. /\ TFine(cal, lo) \in Int /\ TFine(cal, r) \in Int
        /\ TFine(cal, s) \in Int /\ TFine(cal, hi) \in Int
        /\ TFine(cal, lo) <= TFine(cal, r) /\ TFine(cal, r) <= TFine(cal, s)
        /\ TFine(cal, s) <= TFine(cal, hi)
    BY <2>1, <2>5, <2>6, SMT
  <2>8. -32768 * 256 <= TFine(cal, r) * 5 + 128 /\ TFine(cal, s) * 5 + 128 < 32768 * 256
    BY <2>2, <2>7, SMT
  <2> QED
    BY <2>7, <2>8, DegreesKept DEF cal
<1> QED
  BY <1>1, <1>2

\* What SensorsAssumption says of the humidity of one sensor, without coefficients or
\* with them.
LEMMA HumidityKept ==
    ASSUME NEW i \in Images, NEW r \in Nat, NEW s \in Nat,
           Sweep["hum"].first <= r, r <= s, s <= Sweep["hum"].last,
           NEW t \in {Sweep["temp"].first, Sweep["temp"].last}
    PROVE  HumidityQ22(Calibration(i), t, r) <= HumidityQ22(Calibration(i), t, s)
<1> DEFINE cal == Calibration(i)
           lo == Sweep["hum"].first
           hi == Sweep["hum"].last
<1>1. lo \in Nat /\ hi \in Nat /\ t \in Nat
  BY SweepAssumption DEF BmeParts
<1>2. CASE cal.H2 = 0
  <2>1. HumidityQ22(cal, t, r) = 0 /\ HumidityQ22(cal, t, s) = 0
    BY <1>1, <1>2, HumidityClamped
  <2> QED
    BY <2>1, SMT
<1>3. CASE cal.H2 # 0
  <2>1. Fits(cal, t, lo, hi)
    BY <1>3, SensorsAssumption DEF Fits, Uncorrected
  <2>2. lo <= r /\ s <= hi /\ t \in Int
    BY <1>1
  <2> HIDE DEF lo, hi
  <2> QED
    BY <1>1, <2>1, <2>2, HumidityRises
<1> QED
  BY <1>2, <1>3

\* The raw value has not fallen, and the humidity is measured at one of two temperatures.
SweepInv ==
    /\ part \in BmeParts => Sweep[part].first <= raw
    /\ part = "hum" => adc_t \in {Sweep["temp"].first, Sweep["temp"].last}

\* The sweep never leaves its invariant.
LEMMA SweepInvariant == Spec => [](BenchInv /\ SweepInv)
<1>1. Init => SweepInv
  <2>1. \A p \in BmeParts : Sweep[p].first \in Nat
    BY SweepAssumption
  <2> QED
    BY <2>1 DEF Init, SweepInv, Analog, BmeParts
<1>2. BenchInv /\ SweepInv /\ [Next]_vars => SweepInv'
  <2> SUFFICES ASSUME BenchInv, SweepInv, [Next]_vars PROVE SweepInv'
    OBVIOUS
  <2>1. CASE Rise
    <3>1. part' = part /\ raw' = raw + Sweep[part].step /\ adc_t' = adc_t
      BY <2>1 DEF Rise
    <3>2. part \in BmeParts =>
            raw \in Nat /\ Sweep[part].first \in Nat /\ Sweep[part].step \in Nat
      BY SweepAssumption DEF BenchInv
    <3>3. part \in BmeParts => Sweep[part].first <= raw'
      BY <3>1, <3>2 DEF SweepInv
    <3> QED
      BY <3>1, <3>3 DEF SweepInv
  <2>2. CASE UNCHANGED <<part, raw, adc_t>>
    BY <2>2 DEF SweepInv
  <2> QED
    BY <2>1, <2>2 DEF Next, Flip, Raise, vars
<1> QED
  BY <1>1, <1>2, BenchInvariant, PTL DEF Spec

\* A raw value of the BME280 on the bench is within its sweep.
LEMMA WithinSweep ==
    ASSUME BenchInv, SweepInv, part \in BmeParts
    PROVE  raw \in Nat /\ Sweep[part].first <= raw /\ raw <= Sweep[part].last
<1>1. Sweep[part].first <= Sweep[part].last
  BY SensorsAssumption DEF BmeParts
<1> QED
  BY <1>1 DEF BenchInv, SweepInv

\* The two terms of the temperature, one of which may fall, and the correction of the
\* humidity never turn the order of two raw values around.
THEOREM BmeOrderPreserved == Spec => BmeOrderKept
<1>1. /\ BenchInv /\ SweepInv /\ (BenchInv /\ SweepInv)' /\ [Next]_vars
      => (raw' > raw /\ part \in BmeParts => Reading(raw') >= Reading(raw))
  <2> SUFFICES ASSUME BenchInv, SweepInv, BenchInv', SweepInv', [Next]_vars,
                      raw' > raw, part \in BmeParts
               PROVE  Reading(raw') >= Reading(raw)
    OBVIOUS
  <2>1. part' = part
    BY DEF Next, Rise, Flip, Raise, vars
  <2>2. PICK i \in Images : Cal = Calibration(i)
    BY CalOf
  <2> DEFINE a == raw
             b == raw'
  <2>3. /\ a \in Nat /\ b \in Nat /\ a <= b
        /\ Sweep[part].first <= a /\ b <= Sweep[part].last
    <3>1. a \in Nat /\ Sweep[part].first <= a
      BY WithinSweep
    <3>2. b \in Nat /\ b <= Sweep[part].last
      <4>1. Sweep[part].first <= Sweep[part].last
        BY SensorsAssumption DEF BmeParts
      <4> QED
        BY <2>1, <4>1 DEF BenchInv, SweepInv
    <3> QED
      BY <3>1, <3>2
  <2> HIDE DEF a, b
  <2>4. CASE part = "temp"
    <3>1. Temperature(Cal, a) <= Temperature(Cal, b)
      BY <2>2, <2>3, <2>4, TemperatureRises
    <3> QED
      BY <2>4, <3>1, ReadingOf DEF a, b
  <2>5. CASE part = "hum"
    <3>1. adc_t \in {Sweep["temp"].first, Sweep["temp"].last}
      BY <2>5 DEF SweepInv
    <3>2. HumidityQ22(Cal, adc_t, a) <= HumidityQ22(Cal, adc_t, b)
      BY <2>2, <2>3, <2>5, <3>1, HumidityKept
    <3> QED
      BY <2>5, <3>2, ReadingOf DEF a, b
  <2> QED
    BY <2>4, <2>5 DEF BmeParts
<1> QED
  BY <1>1, SweepInvariant, PTL DEF Spec, BmeOrderKept
==============================================================================
