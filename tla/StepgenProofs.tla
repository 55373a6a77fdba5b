--------------------------- MODULE StepgenProofs ---------------------------
(***************************************************************************)
(* Proofs about the step generators of the base thread, for every number   *)
(* of joints, every width of the words and every step unit.                *)
(*                                                                         *)
(* The invariant joins the two properties: a step is seen as a change of   *)
(* one bit only because the value added is at most one step unit, that is  *)
(* because the frequency is one that was commanded; and the frequency is   *)
(* commanded because the bytes of an enabled joint are those of the last   *)
(* packet (CommandWhole).                                                  *)
(***************************************************************************)
EXTENDS Stepgen, TLAPS

CommandWhole ==
    /\ \A j \in jointEnable :
         /\ freqCmd[2 * j] = packet[j] % Radix
         /\ freqCmd[2 * j + 1] = (packet[j] % Word) \div Radix
    /\ n \in 1..EnableCell => jointEnable = {}

IInv == TypeOK /\ CommandWhole /\ CountIsWholePart

-----------------------------------------------------------------------------
(***************************************************************************)
(* Division.                                                               *)
(***************************************************************************)
LEMMA Distribute ==
  ASSUME NEW u \in Int, NEW a \in Int, NEW b \in Int
  PROVE  u * (a + b) = u * a + u * b
  BY SMT

LEMMA DivMod ==
  ASSUME NEW x \in Int, NEW u \in Nat \ {0}
  PROVE  /\ x \div u \in Int /\ x % u \in 0..u - 1
         /\ x = u * (x \div u) + (x % u)
  BY SMT

LEMMA DivUnique ==
  ASSUME NEW q \in Int, NEW u \in Nat \ {0}, NEW r \in 0..u - 1
  PROVE  (u * q + r) \div u = q /\ (u * q + r) % u = r
  BY SMT

LEMMA DivBetween ==
  ASSUME NEW q \in Int, NEW u \in Nat \ {0}, NEW x \in Int,
         u * q <= x, x < u * q + u
  PROVE  x \div u = q
  BY SMT

(* The low half of a number is that of its two's complement.               *)
LEMMA ModOfSum ==
  ASSUME NEW r \in Nat \ {0}, NEW k \in Int, NEW y \in Int
  PROVE  ((r * r) * k + y) % r = y % r
  <1>1. y \div r \in Int /\ y % r \in 0..r - 1 /\ y = r * (y \div r) + (y % r)
    BY DivMod
  <1>2. (r * r) * k = r * (r * k) /\ r * k \in Int
    BY SMT
  <1>3. PICK z \in Int, q \in Int, i \in 0..r - 1 :
          /\ z + q \in Int /\ z = r * k /\ q = y \div r /\ i = y % r
    BY <1>1, <1>2
  <1>4. r * (z + q) = r * z + r * q
    BY Distribute
  <1>5. (r * r) * k + y = r * (z + q) + i
    BY <1>1, <1>2, <1>3, <1>4
  <1>6. (r * (z + q) + i) % r = i
    <2>1. \A t \in Int : (r * t + i) % r = i
      BY <1>3, DivUnique
    <2> QED
      BY <1>3, <2>1, Zenon
  <1> QED
    BY <1>3, <1>5, <1>6

LEMMA ModOfMod ==
  ASSUME NEW x \in Int, NEW r \in Nat \ {0}
  PROVE  (x % (r * r)) % r = x % r
  <1>1. PICK w \in Nat \ {0} : w = r * r
    BY SMT
  <1>2. PICK k \in Int, y \in Int : y = x % w /\ x = w * k + y
    <2>1. /\ x \div w \in Int /\ x % w \in 0..w - 1
          /\ x = w * (x \div w) + (x % w)
      BY DivMod
    <2>2. 0..w - 1 \subseteq Int
      OBVIOUS
    <2>3. x % w \in Int
      BY <2>1, <2>2, Zenon
    <2> QED
      BY <2>1, <2>3, Zenon
  <1>3. (w * k + y) % r = y % r
    BY <1>1, ModOfSum
  <1> QED
    BY <1>1, <1>2, <1>3

-----------------------------------------------------------------------------
(***************************************************************************)
(* One value added to an accumulator of m units (m is even), which wraps.  *)
(***************************************************************************)

(* Adding at most one unit changes the whole part by at most one.          *)
LEMMA AtMostOne ==
  ASSUME NEW u \in Nat \ {0}, NEW a \in Int, NEW d \in -u..u
  PROVE  LET p == a \div u   t == (a + d) \div u
         IN  t = p \/ (d > 0 /\ t = p + 1) \/ (d <= 0 /\ t = p - 1)
  <1>1. /\ a \div u \in Int /\ a % u \in 0..u - 1
        /\ a = u * (a \div u) + (a % u)
    BY DivMod
  <1>2. PICK p \in Int, r \in 0..u - 1 : p = a \div u /\ a = u * p + r
    BY <1>1, Zenon
  <1>3. /\ u * p \in Int
        /\ u * (p + 1) = u * p + u /\ u * (p - 1) = u * p - u
    BY <1>2, SMT
  <1>4. CASE r + d < 0
    <2>1. u * (p - 1) <= a + d /\ a + d < u * (p - 1) + u
      BY <1>2, <1>3, <1>4
    <2>2. (a + d) \div u = p - 1
      BY <2>1, <1>2, DivBetween
    <2> QED
      BY <2>2, <1>2, <1>4
  <1>5. CASE r + d >= 0 /\ r + d < u
    <2>1. u * p <= a + d /\ a + d < u * p + u
      BY <1>2, <1>3, <1>5
    <2>2. (a + d) \div u = p
      BY <2>1, <1>2, DivBetween
    <2> QED
      BY <2>2, <1>2
  <1>6. CASE r + d >= u
    <2>1. u * (p + 1) <= a + d /\ a + d < u * (p + 1) + u
      BY <1>2, <1>3, <1>6
    <2>2. (a + d) \div u = p + 1
      BY <2>1, <1>2, DivBetween
    <2> QED
      BY <2>2, <1>2, <1>6
  <1> QED
    BY <1>2, <1>4, <1>5, <1>6

(* The whole part of what wraps is the whole part, wrapped.                *)
LEMMA WrapWhole ==
  ASSUME NEW u \in Nat \ {0}, NEW m \in Nat \ {0},
         NEW a \in 0..(m * u) - 1, NEW d \in -u..u
  PROVE  /\ a \div u \in 0..m - 1
         /\ (a + d) \div u \in -1..m
         /\ (a + d) % (m * u) \in 0..(m * u) - 1
         /\ ((a + d) % (m * u)) \div u = ((a + d) \div u) % m
  <1>w. PICK w \in Nat \ {0} : w = m * u
    BY SMT
  <1>1. /\ a \div u \in Int /\ a % u \in 0..u - 1
        /\ a = u * (a \div u) + (a % u)
    BY <1>w, DivMod
  <1>2. a \div u \in 0..m - 1
    <2>1. PICK p \in Int, r \in 0..u - 1 : p = a \div u /\ a = u * p + r
      BY <1>1, Zenon
    <2>2. p >= 0
      <3>1. p <= -1 => u * p <= -u
        BY <2>1, SMT
      <3> QED
        BY <2>1, <3>1
    <2>3. p < m
      <3>1. p >= m => u * p >= m * u
        BY <2>1, SMT
      <3> QED
        BY <1>w, <2>1, <3>1
    <2> QED
      BY <2>1, <2>2, <2>3
  <1>3. (a + d) \div u \in -1..m
    <2>1. a \in Int
      BY <1>w
    <2>2. LET p == a \div u   t == (a + d) \div u
          IN  t = p \/ (d > 0 /\ t = p + 1) \/ (d <= 0 /\ t = p - 1)
      BY <2>1, AtMostOne
    <2> QED
      BY <1>2, <2>2
  <1>4. (a + d) % w \in 0..w - 1
    BY <1>w, DivMod
  <1>5. PICK t \in -1..m, v \in 0..u - 1 :
          t = (a + d) \div u /\ a + d = u * t + v
    <2>1. PICK s \in Int : s = a + d
      BY <1>w
    <2>2. s % u \in 0..u - 1 /\ s = u * (s \div u) + (s % u)
      BY DivMod
    <2> QED
      BY <1>3, <2>1, <2>2, Zenon
  <1>6. PICK x \in 0..m - 1, k \in -1..1 : x = t % m /\ t = m * k + x
    <2>1. CASE t = -1
      BY <2>1, SMT
    <2>2. CASE t = m
      BY <2>2, SMT
    <2>3. CASE t \in 0..m - 1
      BY <2>3, SMT
    <2> QED
      BY <2>1, <2>2, <2>3
  <1>7. u * x + v \in 0..w - 1
    <2>1. u * x + u <= m * u /\ u * x >= 0
      BY <1>6, SMT
    <2> QED
      BY <2>1, <1>w, <1>5, <1>6
  <1>8. a + d = w * k + (u * x + v)
    <2>1. u * t = u * (m * k) + u * x
      BY <1>6, Distribute
    <2>2. u * (m * k) = (m * u) * k
      BY <1>6, SMT
    <2> QED
      BY <1>w, <1>5, <2>1, <2>2
  <1>9. (a + d) % w = u * x + v
    <2>1. (w * k + (u * x + v)) % w = u * x + v
      BY <1>7, DivUnique
    <2> QED
      BY <1>8, <2>1, Zenon
  <1>10. (u * x + v) \div u = x
    <2>1. \A z \in Int : (u * z + v) \div u = z
      BY <1>5, DivUnique
    <2>2. x \in Int
      BY <1>6
    <2> QED
      BY <2>1, <2>2, Zenon
  <1> QED
    BY <1>w, <1>2, <1>3, <1>4, <1>5, <1>6, <1>9, <1>10

LEMMA HalfBounded ==
  ASSUME NEW r \in Nat \ {0}, NEW w \in 0..(r * r) - 1
  PROVE  w \div r \in 0..r - 1
  <1>1. \A d \in -r..r : w \div r \in 0..r - 1
    BY WrapWhole, Zenon
  <1>2. 0 \in -r..r
    OBVIOUS
  <1> QED
    BY <1>1, <1>2, Zenon

(* A counter whose modulus is a multiple of m counts modulo m as well.     *)
LEMMA CountSteps ==
  ASSUME NEW k \in Nat \ {0}, NEW m \in Nat \ {0}, k % m = 0,
         NEW c \in 0..k - 1, NEW e \in Int
  PROVE  ((c + e) % k) % m = ((c % m) + e) % m
  <1>1. PICK h \in Int : k = m * h
    <2>1. PICK h \in Int : h = k \div m /\ k = m * h + (k % m)
      BY DivMod
    <2>2. PICK z \in Int : z = m * h
      BY SMT
    <2>3. k = z
      BY <2>1, <2>2
    <2> QED
      BY <2>2, <2>3, Zenon
  <1>2. PICK x \in Int, y \in 0..m - 1 : y = c % m /\ c = m * x + y
    <2>1. c \in Int
      OBVIOUS
    <2>2. c \div m \in Int /\ c % m \in 0..m - 1 /\ c = m * (c \div m) + (c % m)
      BY <2>1, DivMod
    <2> QED
      BY <2>2, Zenon
  <1>3. PICK v \in 0..m - 1, g \in Int : v = (y + e) % m /\ y + e = m * g + v
    <2>1. PICK z \in Int : z = y + e
      OBVIOUS
    <2>2. z \div m \in Int /\ z % m \in 0..m - 1 /\ z = m * (z \div m) + (z % m)
      BY DivMod
    <2> QED
      BY <2>1, <2>2, Zenon
  <1>4. PICK w \in 0..k - 1, i \in Int : w = (c + e) % k /\ c + e = k * i + w
    <2>1. PICK z \in Int : z = c + e
      OBVIOUS
    <2>2. z \div k \in Int /\ z % k \in 0..k - 1 /\ z = k * (z \div k) + (z % k)
      BY DivMod
    <2> QED
      BY <2>1, <2>2, Zenon
  <1>5. w = m * ((x + g) - h * i) + v
    <2>1. k * i = m * (h * i) /\ h * i \in Int
      BY <1>1, <1>4, SMT
    <2>2. m * (x + g) = m * x + m * g
      BY <1>2, <1>3, Distribute
    <2>3. m * ((x + g) - h * i) = m * (x + g) - m * (h * i)
      BY <1>2, <1>3, <2>1, SMT
    <2>4. PICK sx \in Int, sg \in Int, si \in Int :
            sx = m * x /\ sg = m * g /\ si = m * (h * i)
      BY <2>1
    <2>5. w = ((sx + sg) - si) + v
      <3>1. c + e = (sx + sg) + v
        <4>1. c = sx + y
          BY <1>2, <2>4
        <4>2. y + e = sg + v
          BY <1>3, <2>4
        <4> QED
          BY <4>1, <4>2
      <3>2. c + e = si + w
        BY <1>4, <2>1, <2>4
      <3> QED
        BY <2>4, <3>1, <3>2
    <2>6. m * ((x + g) - h * i) = (sx + sg) - si
      BY <2>2, <2>3, <2>4, Zenon
    <2> QED
      BY <2>5, <2>6, Zenon
  <1>6. w % m = v
    <2>1. \A z \in Int : (m * z + v) % m = v
      BY DivUnique
    <2>2. (x + g) - h * i \in Int
      BY <1>1, <1>2, <1>3, <1>4
    <2> QED
      BY <1>5, <2>1, <2>2, Zenon
  <1> QED
    BY <1>2, <1>3, <1>4, <1>6

-----------------------------------------------------------------------------
(***************************************************************************)
(* The step generator.                                                     *)
(***************************************************************************)
LEMMA Constants ==
  /\ NumJoints \in Nat \ {0} /\ Radix \in Nat \ {0} /\ StepUnit \in Nat \ {0}
  /\ BaseFreq \in Nat \ {0} /\ CountMod \in Nat \ {0}
  /\ Word \in Nat \ {0} /\ Word = Radix * Radix /\ Word = Wraps * StepUnit
  /\ Wraps \in Nat \ {0} /\ Wraps % 2 = 0 /\ CountMod % Wraps = 0
  /\ BaseFreq <= StepUnit /\ 2 * BaseFreq < Word
  /\ 0 \in Frequencies /\ Frequencies \subseteq -BaseFreq..BaseFreq
  <1>1. /\ NumJoints \in Nat \ {0} /\ Radix \in Nat \ {0}
        /\ StepUnit \in Nat \ {0} /\ BaseFreq \in Nat \ {0}
        /\ CountMod \in Nat \ {0}
    BY StepgenAssumption
  <1>2. Word \in Nat \ {0} /\ Word = Radix * Radix
    BY <1>1 DEF Word
  <1>3. Word = Wraps * StepUnit /\ Wraps % 2 = 0 /\ CountMod % Wraps = 0
    BY StepgenAssumption
  <1>4. Wraps \in Int
    <2>1. Word \div StepUnit \in Int
      BY <1>1, <1>2, DivMod
    <2> QED
      BY <2>1 DEF Wraps
  <1>5. Wraps \in Nat \ {0}
    <2>1. \A m \in Int : m <= 0 => m * StepUnit <= 0
      BY <1>1, SMT
    <2> QED
      BY <1>2, <1>3, <1>4, <2>1
  <1> QED
    BY <1>1, <1>2, <1>3, <1>5, StepgenAssumption

(* A frequency within BaseFreq adds at most one step unit.                 *)
LEMMA AddValueBounded ==
  ASSUME NEW f \in -BaseFreq..BaseFreq
  PROVE  AddValue(f) \in -StepUnit..StepUnit
  <1>1. ASSUME NEW b \in Nat \ {0}, NEW u \in Nat \ {0}, NEW g \in 0..b
        PROVE  (g * u) \div b \in 0..u
    <2>1. g * u \in Nat /\ g * u <= b * u
      BY SMT
    <2>2. PICK x \in Nat : x = g * u
      BY <2>1
    <2>3. x \div b \in Int /\ x % b \in 0..b - 1 /\ x = b * (x \div b) + (x % b)
      BY DivMod
    <2>4. PICK q \in Int, r \in 0..b - 1 : q = x \div b /\ x = b * q + r
      BY <2>3, Zenon
    <2>5. q >= 0
      <3>1. q <= -1 => b * q <= -b
        BY <2>4, SMT
      <3> QED
        BY <2>4, <3>1
    <2>6. q <= u
      <3>1. q >= u + 1 => b * q >= b * u + b
        BY <2>4, SMT
      <3> QED
        BY <2>1, <2>2, <2>4, <3>1
    <2> QED
      BY <2>2, <2>4, <2>5, <2>6
  <1>2. CASE f >= 0
    <2>1. (f * StepUnit) \div BaseFreq \in 0..StepUnit
      BY <1>1, <1>2, Constants
    <2> QED
      BY <1>2, <2>1, Constants DEF AddValue
  <1>3. CASE f < 0
    <2>1. -f \in 0..BaseFreq
      BY <1>3, Constants
    <2>2. (-f * StepUnit) \div BaseFreq \in 0..StepUnit
      BY <1>1, <2>1, Constants
    <2> QED
      BY <1>3, <2>2, Constants DEF AddValue
  <1> QED
    BY <1>2, <1>3, Constants

(* The two halves of a frequency make it up again.                         *)
LEMMA EnabledIsPacket ==
  ASSUME TypeOK, CommandWhole, NEW j \in jointEnable
  PROVE  j \in Joints /\ packet[j] \in Frequencies /\ Frequency(j) = packet[j]
  <1>1. j \in Joints /\ packet[j] \in Frequencies
    BY DEF TypeOK
  <1>2. PICK p \in -BaseFreq..BaseFreq : p = packet[j]
    BY <1>1, Constants
  <1>3. freqCmd[2 * j] = p % Radix /\ freqCmd[2 * j + 1] = (p % Word) \div Radix
    BY <1>2 DEF CommandWhole
  <1>p. p \in Int /\ Word \in Nat \ {0} /\ Radix \in Nat \ {0}
    BY Constants
  <1>4. PICK w \in 0..Word - 1 : w = p % Word
    <2>1. p % Word \in 0..Word - 1
      BY <1>p, DivMod
    <2> QED
      BY <2>1, Zenon
  <1>w. w \in Int
    BY <1>p
  <1>5. PICK h \in Int, l \in Int :
          h = w \div Radix /\ l = w % Radix /\ w = Radix * h + l
    <2>1. /\ w \div Radix \in Int /\ w % Radix \in 0..Radix - 1
          /\ w = Radix * (w \div Radix) + (w % Radix)
      BY <1>p, <1>w, DivMod
    <2>2. w % Radix \in Int
      BY <1>p, <2>1
    <2> QED
      BY <2>1, <2>2, Zenon
  <1>6. w % Radix = p % Radix
    <2>1. (p % (Radix * Radix)) % Radix = p % Radix
      BY <1>p, ModOfMod
    <2>2. w = p % (Radix * Radix)
      BY <1>4, Constants
    <2> QED
      BY <2>1, <2>2, Zenon
  <1>8. freqCmd[2 * j] + Radix * freqCmd[2 * j + 1] = w
    <2>1. freqCmd[2 * j] = l /\ freqCmd[2 * j + 1] = h
      BY <1>3, <1>4, <1>5, <1>6, Zenon
    <2>2. l + Radix * h = w
      BY <1>p, <1>5
    <2> QED
      BY <2>1, <2>2, Zenon
  <1>9. IF p >= 0 THEN w = p ELSE w = p + Word
    BY <1>2, <1>4, Constants
  <1> QED
    BY <1>1, <1>2, <1>4, <1>8, <1>9, Constants DEF Frequency

(* The count, modulo the steps after which the accumulator wraps.          *)
LEMMA RawCountSteps ==
  ASSUME NEW c \in 0..CountMod - 1, NEW e \in Int
  PROVE  /\ (c + e) % CountMod \in 0..CountMod - 1
         /\ ((c + e) % CountMod) % Wraps = ((c % Wraps) + e) % Wraps
  <1>1. /\ CountMod \in Nat \ {0} /\ Wraps \in Nat \ {0} /\ CountMod % Wraps = 0
    BY Constants
  <1>2. ((c + e) % CountMod) % Wraps = ((c % Wraps) + e) % Wraps
    BY <1>1, CountSteps, Zenon
  <1>3. PICK z \in Int : z = c + e
    BY <1>1
  <1>4. z % CountMod \in 0..CountMod - 1
    BY <1>1, DivMod
  <1> QED
    BY <1>2, <1>3, <1>4, Zenon

(* One call of makePulses.                                                 *)
LEMMA JointTick ==
  ASSUME IInv, NEW j \in Joints
  PROVE  /\ NextAcc(j) \in 0..Word - 1
         /\ NextCount(j) \in 0..CountMod - 1
         /\ NextCount(j) % Wraps = NextAcc(j) \div StepUnit
  <1>1. /\ acc[j] \in 0..Word - 1 /\ rawCount[j] \in 0..CountMod - 1
        /\ rawCount[j] % Wraps = acc[j] \div StepUnit
    BY DEF IInv, TypeOK, CountIsWholePart
  <1>2. CASE j \notin jointEnable
    BY <1>1, <1>2, Constants DEF NextAcc, NextCount, StepNow
  <1>3. CASE j \in jointEnable
    <2>1. PICK d \in -StepUnit..StepUnit : d = AddValue(Frequency(j))
      <3>1. Frequency(j) \in -BaseFreq..BaseFreq
        BY <1>3, EnabledIsPacket, Constants DEF IInv
      <3> QED
        BY <3>1, AddValueBounded
    <2>2. PICK u \in Nat \ {0}, m \in Nat \ {0}, a \in Int, c \in 0..CountMod - 1 :
            /\ u = StepUnit /\ m = Wraps /\ a = acc[j] /\ c = rawCount[j]
            /\ a \in 0..(m * u) - 1 /\ Word = m * u
      <3>1. rawCount[j] \in 0..CountMod - 1 /\ acc[j] \in 0..(Wraps * StepUnit) - 1
        BY <1>1, Constants, Zenon
      <3>2. acc[j] \in Int
        BY <1>1, Constants
      <3> QED
        BY <3>1, <3>2, Constants, Zenon
    <2>a. d \in -u..u
      BY <2>2, Zenon
    <2>3. PICK p \in 0..m - 1, t \in -1..m :
            /\ p = a \div u /\ t = (a + d) \div u
            /\ NextAcc(j) \in 0..Word - 1
            /\ NextAcc(j) \div u = t % m
      <3>1. /\ a \div u \in 0..m - 1
            /\ (a + d) \div u \in -1..m
            /\ (a + d) % (m * u) \in 0..(m * u) - 1
            /\ ((a + d) % (m * u)) \div u = ((a + d) \div u) % m
        <4>1. \A a1 \in 0..(m * u) - 1, d1 \in -u..u :
                /\ a1 \div u \in 0..m - 1
                /\ (a1 + d1) \div u \in -1..m
                /\ (a1 + d1) % (m * u) \in 0..(m * u) - 1
                /\ ((a1 + d1) % (m * u)) \div u = ((a1 + d1) \div u) % m
          BY WrapWhole, Zenon
        <4> QED
          BY <2>2, <2>a, <4>1, Zenon
      <3>2. NextAcc(j) = (a + d) % (m * u)
        BY <1>3, <2>1, <2>2 DEF NextAcc
      <3> QED
        BY <2>2, <3>1, <3>2, Zenon
    <2>4. t = p \/ (d > 0 /\ t = p + 1) \/ (d <= 0 /\ t = p - 1)
      BY <2>1, <2>2, <2>3, AtMostOne
    <2>5. PICK q \in 0..m - 1 : q = t % m /\ (t # p => q % 2 # p % 2)
      <3>0. m % 2 = 0
        BY <2>2, Constants
      <3>1. CASE t = -1
        BY <3>0, <3>1, <2>4
      <3>2. CASE t = m
        BY <3>0, <3>2, <2>4
      <3>3. CASE t \in 0..m - 1
        BY <3>3, <2>4
      <3> QED
        BY <3>1, <3>2, <3>3
    <2>6. StepNow(acc[j], NextAcc(j)) <=> t # p
      <3>1. t = p => q = p
        BY <2>5
      <3> QED
        BY <2>2, <2>3, <2>5, <3>1 DEF StepNow
    <2>7. NextCount(j) = IF t = p THEN c
                         ELSE IF d > 0 THEN (c + 1) % CountMod
                         ELSE (c - 1) % CountMod
      BY <2>1, <2>2, <2>6 DEF NextCount
    <2>8. c % m = p /\ CountMod % m = 0 /\ CountMod \in Nat \ {0}
      BY <1>1, <2>2, <2>3, Constants
    <2>9. NextCount(j) \in 0..CountMod - 1 /\ NextCount(j) % m = q
      <3>0. ASSUME NEW e \in Int
            PROVE  /\ (c + e) % CountMod \in 0..CountMod - 1
                   /\ ((c + e) % CountMod) % m = (p + e) % m
        <4>1. /\ (c + e) % CountMod \in 0..CountMod - 1
              /\ ((c + e) % CountMod) % Wraps = ((c % Wraps) + e) % Wraps
          BY RawCountSteps, Zenon
        <4>2. c % Wraps = p /\ m = Wraps
          BY <2>2, <2>8
        <4> QED
          BY <4>1, <4>2, Zenon
      <3>i. 1 \in Int /\ (-1) \in Int
        OBVIOUS
      <3>u. /\ (c + 1) % CountMod \in 0..CountMod - 1
            /\ ((c + 1) % CountMod) % m = (p + 1) % m
        BY <3>0, <3>i, Zenon
      <3>d. /\ (c + (-1)) % CountMod \in 0..CountMod - 1
            /\ ((c + (-1)) % CountMod) % m = (p + (-1)) % m
        BY <3>0, <3>i, Zenon
      <3>m. c + (-1) = c - 1 /\ p + (-1) = p - 1
        BY <2>8
      <3>1. CASE t = p
        BY <2>5, <2>7, <2>8, <3>1
      <3>2. CASE d > 0 /\ t = p + 1
        BY <2>5, <2>7, <3>2, <3>u
      <3>3. CASE d <= 0 /\ t = p - 1
        BY <2>5, <2>7, <3>3, <3>d, <3>m
      <3> QED
        BY <2>4, <3>1, <3>2, <3>3
    <2> QED
      BY <2>2, <2>3, <2>5, <2>9
  <1> QED
    BY <1>2, <1>3

LEMMA InitInv == Init => IInv
  <1> SUFFICES ASSUME Init PROVE IInv
    OBVIOUS
  <1> USE DEF Init
  <1>1. TypeOK
    <2>1. EnableCell \in Nat
      BY Constants DEF EnableCell
    <2> QED
      BY <2>1, Constants DEF TypeOK
  <1>2. CommandWhole
    BY DEF CommandWhole
  <1>3. CountIsWholePart
    <2>1. 0 % Wraps = 0 /\ 0 \div StepUnit = 0
      BY Constants
    <2> QED
      BY <2>1 DEF CountIsWholePart
  <1> QED
    BY <1>1, <1>2, <1>3 DEF IInv

LEMMA NextInv == IInv /\ [Next]_vars => IInv'
  <1> SUFFICES ASSUME IInv, [Next]_vars PROVE IInv'
    OBVIOUS
  <1>e. EnableCell \in Nat /\ EnableCell = 2 * NumJoints
    BY Constants DEF EnableCell
  <1>j. \A j \in Joints : /\ 2 * j \in 0..EnableCell - 1
                          /\ 2 * j + 1 \in 0..EnableCell - 1
    BY <1>e, Constants DEF Joints
  <1>1. CASE WritePacket
    <2> USE <1>1 DEF WritePacket
    <2>1. \A f \in Frequencies : /\ f % Radix \in 0..Radix - 1
                                 /\ (f % Word) \div Radix \in 0..Radix - 1
      <3> TAKE f \in Frequencies
      <3>1. f \in Int
        BY Constants
      <3>2. f % Radix \in 0..Radix - 1 /\ f % Word \in 0..Word - 1
        BY <3>1, Constants, DivMod
      <3>3. PICK w \in 0..(Radix * Radix) - 1 : w = f % Word
        BY <3>2, Constants, Zenon
      <3>4. w \div Radix \in 0..Radix - 1
        BY <3>3, Constants, HalfBounded
      <3> QED
        BY <3>2, <3>3, <3>4, Zenon
    <2>2. freqCmd' \in [0..EnableCell - 1 -> 0..Radix - 1]
      <3>1. ASSUME NEW c \in 0..EnableCell - 1
            PROVE  Halves(packet'[c \div 2])[1 + (c % 2)] \in 0..Radix - 1
        <4>1. c \div 2 \in Joints /\ c % 2 \in {0, 1}
          BY <1>e, Constants DEF Joints
        <4>2. packet'[c \div 2] \in Frequencies
          BY <4>1
        <4>3. PICK f \in Frequencies : f = packet'[c \div 2]
          BY <4>2
        <4> QED
          BY <4>1, <4>3, <2>1 DEF Halves
      <3> QED
        BY <3>1
    <2>3. TypeOK'
      BY <2>2 DEF IInv, TypeOK
    <2>4. CommandWhole'
      <3>1. ASSUME NEW j \in jointEnable'
            PROVE  /\ freqCmd'[2 * j] = packet'[j] % Radix
                   /\ freqCmd'[2 * j + 1] = (packet'[j] % Word) \div Radix
        <4>1. j \in Joints
          OBVIOUS
        <4>2. /\ (2 * j) \div 2 = j /\ 1 + ((2 * j) % 2) = 1
              /\ (2 * j + 1) \div 2 = j /\ 1 + ((2 * j + 1) % 2) = 2
          BY <4>1, Constants DEF Joints
        <4>3. /\ freqCmd'[2 * j] = Halves(packet'[j])[1]
              /\ freqCmd'[2 * j + 1] = Halves(packet'[j])[2]
          BY <1>j, <4>1, <4>2
        <4> QED
          BY <4>3 DEF Halves
      <3>2. n' = 0
        OBVIOUS
      <3> QED
        BY <3>1, <3>2, <1>e DEF CommandWhole
    <2>5. CountIsWholePart'
      BY DEF IInv, CountIsWholePart
    <2> QED
      BY <2>3, <2>4, <2>5 DEF IInv
  <1>2. CASE BeginReset
    <2>1. TypeOK'
      BY <1>2, <1>e DEF IInv, TypeOK, BeginReset
    <2>2. CommandWhole'
      BY <1>2, <1>e DEF IInv, CommandWhole, BeginReset
    <2>3. CountIsWholePart'
      BY <1>2 DEF IInv, CountIsWholePart, BeginReset
    <2> QED
      BY <2>1, <2>2, <2>3 DEF IInv
  <1>3. CASE ClearByte
    <2>1. n \in 0..EnableCell + 1
      BY DEF IInv, TypeOK
    <2>2. TypeOK'
      <3>1. 0 \in 0..Radix - 1
        BY Constants
      <3> QED
        BY <1>3, <1>e, <2>1, <3>1 DEF IInv, TypeOK, ClearByte, Cleared
    <2>3. jointEnable' = {}
      BY <1>3, <1>e, <2>1 DEF IInv, CommandWhole, ClearByte, Cleared
    <2>4. CommandWhole'
      BY <2>3 DEF CommandWhole
    <2>5. CountIsWholePart'
      BY <1>3 DEF IInv, CountIsWholePart, ClearByte
    <2> QED
      BY <2>2, <2>4, <2>5 DEF IInv
  <1>4. CASE BaseTick
    <2>1. \A j \in Joints : /\ NextAcc(j) \in 0..Word - 1
                            /\ NextCount(j) \in 0..CountMod - 1
                            /\ NextCount(j) % Wraps = NextAcc(j) \div StepUnit
      BY JointTick
    <2>2. TypeOK'
      BY <1>4, <2>1 DEF IInv, TypeOK, BaseTick
    <2>3. CommandWhole'
      BY <1>4 DEF IInv, CommandWhole, BaseTick
    <2>4. CountIsWholePart'
      BY <1>4, <2>1 DEF CountIsWholePart, BaseTick
    <2> QED
      BY <2>2, <2>3, <2>4 DEF IInv
  <1>5. CASE UNCHANGED vars
    BY <1>5 DEF vars, IInv, TypeOK, CommandWhole, CountIsWholePart
  <1> QED
    BY <1>1, <1>2, <1>3, <1>4, <1>5 DEF Next, MainLoop

(* Every behaviour of the step generators satisfies the invariant.         *)
THEOREM Invariance == Spec => []IInv
  BY InitInv, NextInv, PTL DEF Spec

(* The variables keep their types: the accumulator and the count stay      *)
(* within their words, the reset within the buffer.                        *)
THEOREM TypeCorrect == Spec => []TypeOK
  <1>1. IInv => TypeOK
    BY DEF IInv
  <1> QED
    BY <1>1, Invariance, PTL

(* The count is the whole part of what the commands have added up to, for  *)
(* every word, step unit and base frequency (stepgen.cpp:76-105).          *)
THEOREM CountIsWholePartCorrect == Spec => []CountIsWholePart
  <1>1. IInv => CountIsWholePart
    BY DEF IInv
  <1> QED
    BY <1>1, Invariance, PTL

(* No step generator follows a torn or a stale frequency, for any number   *)
(* of joints and wherever the interrupt comes during the reset             *)
(* (remora-rt1052.cpp:633-635).                                            *)
THEOREM EnabledFollowsPacketCorrect == Spec => []EnabledFollowsPacket
  <1>1. IInv => EnabledFollowsPacket
    BY EnabledIsPacket DEF IInv, EnabledFollowsPacket
  <1> QED
    BY <1>1, Invariance, PTL
=============================================================================
