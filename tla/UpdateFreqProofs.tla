-------------------------- MODULE UpdateFreqProofs --------------------------
(***************************************************************************)
(* Proofs about UpdateFreq.                                                *)
(***************************************************************************)
EXTENDS UpdateFreq, TLAPS

(***************************************************************************)
(* The operators.                                                          *)
(***************************************************************************)

(* A clipped number is within its bound, and a number within it is left    *)
(* alone.                                                                  *)
LEMMA ClipBounds ==
    ASSUME NEW x \in Int, NEW bound \in Nat
    PROVE  /\ Clip(x, bound) \in -bound..bound
           /\ x \in -bound..bound => Clip(x, bound) = x
           /\ x < 0 => Clip(x, bound) \in x..0
           /\ x >= 0 => Clip(x, bound) \in 0..x
BY DEF Clip

(* The acceleration limit is a positive number of at most BaseFreq, and    *)
(* writing it back to maxaccel leaves it as it is.                         *)
LEMMA MaxAccelBounds ==
    ASSUME maxaccel \in Int
    PROVE  /\ MaxAccel \in 1..BaseFreq
           /\ MaxAccel \in {maxaccel, BaseFreq}
           /\ maxaccel' = (IF maxaccel <= 0 THEN 0 ELSE MaxAccel)
                => MaxAccel' = MaxAccel
<1>1. /\ MaxAccel \in 1..BaseFreq
      /\ MaxAccel \in {maxaccel, BaseFreq}
  BY UpdateFreqAssumption DEF MaxAccel, Least
<1>2. CASE maxaccel <= 0
  <2>1. MaxAccel = BaseFreq
    BY <1>2 DEF MaxAccel
  <2>2. maxaccel' = 0 => MaxAccel' = BaseFreq
    BY DEF MaxAccel
  <2> QED BY <1>1, <1>2, <2>1, <2>2
<1>3. CASE ~(maxaccel <= 0)
  <2> SUFFICES ASSUME maxaccel' = MaxAccel PROVE MaxAccel' = MaxAccel
    BY <1>1, <1>3
  <2> DEFINE m == MaxAccel
  <2>1. maxaccel' = m /\ m \in 1..BaseFreq
    BY <1>1
  <2> HIDE DEF m
  <2>2. MaxAccel' = m
    BY <2>1, UpdateFreqAssumption DEF MaxAccel, Least
  <2> QED BY <2>2 DEF m
<1> QED BY <1>2, <1>3

(* The new frequency lies between the old one and the one asked for, so it *)
(* is within BaseFreq; and it is at most MaxAccel away from the old one.   *)
LEMMA NewVelBounds ==
    ASSUME TypeOK
    PROVE  /\ NewVel \in Frequencies
           /\ NewVel - freq \in -MaxAccel..MaxAccel
<1> DEFINE asked == IF pos_mode THEN Error + Gain * (command - prev_cmd) ELSE command
<1>1. /\ command \in Int /\ prev_cmd \in Int /\ pos_fb \in Int /\ maxaccel \in Int
      /\ freq \in Int /\ freq \in -BaseFreq..BaseFreq
      /\ Gain \in Nat /\ BaseFreq \in Nat /\ Deadband \in Nat
  BY UpdateFreqAssumption DEF TypeOK, Frequencies
<1>2. Error \in Int
  <2>1. command - pos_fb \in Int
    BY <1>1
  <2>2. Clip(command - pos_fb, Deadband) \in Int
    BY <1>1, <2>1, ClipBounds
  <2> QED BY <2>1, <2>2 DEF Error
<1>3. asked \in Int
  <2>1. Gain * (command - prev_cmd) \in Int
    BY <1>1
  <2> QED BY <1>1, <1>2, <2>1
<1>4. VelCmd \in -BaseFreq..BaseFreq
  BY <1>1, <1>3, ClipBounds DEF VelCmd
<1>5. MaxAccel \in Nat
  BY <1>1, MaxAccelBounds, UpdateFreqAssumption
<1> DEFINE change == Clip(VelCmd - freq, MaxAccel)
<1>6. VelCmd - freq \in Int
  BY <1>1, <1>4
<1>7. /\ change \in -MaxAccel..MaxAccel
      /\ VelCmd - freq < 0 => change \in (VelCmd - freq)..0
      /\ VelCmd - freq >= 0 => change \in 0..(VelCmd - freq)
  BY <1>5, <1>6, ClipBounds
<1>8. NewVel = freq + change
  BY DEF NewVel
<1> HIDE DEF change
<1> QED BY <1>1, <1>4, <1>5, <1>6, <1>7, <1>8 DEF Frequencies

(* What is sent is less than one Hertz nearer to zero.                     *)
LEMMA WholeHertzBounds ==
    ASSUME NEW f \in Int
    PROVE  /\ f >= 0 => WholeHertz(f) \in 0..f /\ f - WholeHertz(f) \in 0..Hertz - 1
           /\ f < 0 => WholeHertz(f) \in f..0 /\ WholeHertz(f) - f \in 0..Hertz - 1
<1>1. Hertz \in Nat \ {0}
  BY UpdateFreqAssumption
<1>2. f % Hertz \in 0..Hertz - 1 /\ (-f) % Hertz \in 0..Hertz - 1
  BY <1>1
<1>3. ASSUME NEW x \in Nat PROVE x % Hertz <= x
  BY <1>1
<1>4. /\ f >= 0 => f % Hertz <= f
      /\ f < 0 => (-f) % Hertz <= -f
  BY <1>3
<1> DEFINE r == f % Hertz
           q == (-f) % Hertz
<1>5. /\ f >= 0 => WholeHertz(f) = f - r
      /\ f < 0 => WholeHertz(f) = f + q
  BY DEF WholeHertz
<1> HIDE DEF r, q
<1>6. r \in 0..Hertz - 1 /\ q \in 0..Hertz - 1 /\ (f >= 0 => r <= f) /\ (f < 0 => q <= -f)
  BY <1>2, <1>4 DEF r, q
<1> QED BY <1>1, <1>5, <1>6

(* Two frequencies that are made whole come farther apart by less than one *)
(* Hertz.                                                                  *)
LEMMA WholeHertzKeeps ==
    ASSUME NEW f \in Frequencies, NEW g \in Frequencies, NEW d \in Nat,
           g - f \in -d..d
    PROVE  WholeHertz(g) - WholeHertz(f) \in -(d + Hertz - 1)..(d + Hertz - 1)
<1>1. f \in Int /\ g \in Int /\ Hertz \in Nat \ {0} /\ BaseFreq \in Nat
  BY UpdateFreqAssumption DEF Frequencies
<1> DEFINE wf == WholeHertz(f)
           wg == WholeHertz(g)
<1>2. /\ f >= 0 => wf \in 0..f /\ f - wf \in 0..Hertz - 1
      /\ f < 0 => wf \in f..0 /\ wf - f \in 0..Hertz - 1
      /\ g >= 0 => wg \in 0..g /\ g - wg \in 0..Hertz - 1
      /\ g < 0 => wg \in g..0 /\ wg - g \in 0..Hertz - 1
  BY <1>1, WholeHertzBounds
<1> HIDE DEF wf, wg
<1>3. wg - wf \in -(d + Hertz - 1)..(d + Hertz - 1)
  BY <1>1, <1>2
<1> QED BY <1>3 DEF wf, wg

-----------------------------------------------------------------------------
(***************************************************************************)
(* Types.                                                                  *)
(***************************************************************************)

(* The commands to the firmware never exceed PRU_base_freq (the limit of   *)
(* remora-eth-3.0.c:534-561 and :655-663), and every variable has its type.*)
THEOREM TypeCorrect == Spec => []TypeOK
<1>1. Init => TypeOK
  <2> SUFFICES ASSUME Init PROVE TypeOK
    OBVIOUS
  <2>1. 0 \in -BaseFreq..BaseFreq /\ 0 \in 0..MaxLosses /\ 0 \in Int
    BY UpdateFreqAssumption
  <2> QED BY <2>1, UpdateFreqAssumption, Zenon DEF Init, TypeOK, Frequencies
<1>2. TypeOK /\ [Next]_vars => TypeOK'
  <2> SUFFICES ASSUME TypeOK, [Next]_vars PROVE TypeOK'
    OBVIOUS
  <2> USE UpdateFreqAssumption
  <2>1. ASSUME Fails
        PROVE  /\ losses' \in 0..MaxLosses /\ position' \in Int
               /\ speed' \in Frequencies /\ following' \in BOOLEAN
    <3>1. PICK n \in 0..Grace : Moves(n * speed)
      BY <2>1 DEF Fails
    <3>2. n * speed \in Int /\ position \in Int
      BY DEF TypeOK, Frequencies
    <3>3. position' \in Int
      BY <3>1, <3>2 DEF Moves
    <3>4. losses' \in 0..MaxLosses /\ 0 \in Frequencies
      BY <2>1 DEF Fails, TypeOK, Frequencies
    <3> QED BY <2>1, <3>3, <3>4 DEF Fails
  <2>2. CASE ReadAnswer
    <3>1. Gain * Count \in Nat \ {0}
      OBVIOUS
    <3>2. position \div (Gain * Count) \in Int
      BY <3>1 DEF TypeOK
    <3>3. Feedback \in Int
      BY <3>2 DEF Feedback
    <3> QED BY <2>2, <3>3 DEF ReadAnswer, TypeOK, pins, firmwareVars
  <2>3. CASE ReadFails
    BY <2>1, <2>3 DEF ReadFails, TypeOK, pins, driverVars
  <2>4. CASE Motion
    BY <2>4 DEF Motion, TypeOK, pins, driverVars, firmwareVars
  <2>5. CASE Update
    <3>1. freq' \in Frequencies
      BY <2>5, NewVelBounds DEF Update
    <3>2. maxaccel' \in Accels \cup {0, 1, BaseFreq}
      BY <2>5, MaxAccelBounds DEF Update, TypeOK
    <3> QED BY <2>5, <3>1, <3>2 DEF Update, TypeOK, firmwareVars
  <2>6. CASE WriteAnswer
    <3>1. speed' \in Frequencies
      <4>1. freq \in Int /\ freq \in -BaseFreq..BaseFreq /\ 0 \in Frequencies
        BY DEF TypeOK, Frequencies
      <4>2. WholeHertz(freq) \in Frequencies
        BY <4>1, WholeHertzBounds DEF Frequencies
      <4> QED BY <2>6, <4>1, <4>2 DEF WriteAnswer
    <3>2. position' \in Int
      BY <2>6, <3>1 DEF WriteAnswer, Moves, TypeOK, Frequencies
    <3> QED BY <2>6, <3>1, <3>2 DEF WriteAnswer, TypeOK, pins, driverVars
  <2>7. CASE WriteFails
    BY <2>1, <2>7 DEF WriteFails, TypeOK, pins, driverVars
  <2>8. CASE UNCHANGED vars
    BY <2>8 DEF vars, TypeOK, pins, driverVars, firmwareVars
  <2> QED BY <2>2, <2>3, <2>4, <2>5, <2>6, <2>7, <2>8 DEF Next
<1> QED BY <1>1, <1>2, PTL DEF Spec

-----------------------------------------------------------------------------
(***************************************************************************)
(* The acceleration.                                                       *)
(***************************************************************************)

(* The firmware is one update behind: it follows the whole Hertz of the    *)
(* frequency of the last write until the next has been computed, which is  *)
(* then within the limit of that frequency.                                *)
OneUpdateBehind ==
    following =>
        IF pc = "write"
          THEN \E f \in Frequencies :
                  speed = WholeHertz(f) /\ freq - f \in -MaxAccel..MaxAccel
          ELSE speed = WholeHertz(freq)

LEMMA OneUpdateBehindInvariant == Spec => []OneUpdateBehind
<1>1. Init => OneUpdateBehind
  BY DEF Init, OneUpdateBehind
<1>2. TypeOK /\ OneUpdateBehind /\ [Next]_vars => OneUpdateBehind'
  <2> SUFFICES ASSUME TypeOK, OneUpdateBehind, [Next]_vars PROVE OneUpdateBehind'
    OBVIOUS
  <2>1. CASE ReadAnswer
    BY <2>1 DEF ReadAnswer, OneUpdateBehind, WholeHertz, firmwareVars
  <2>2. CASE ReadFails \/ WriteFails
    BY <2>2 DEF ReadFails, WriteFails, Fails, OneUpdateBehind
  <2>3. CASE Motion
    BY <2>3 DEF Motion, OneUpdateBehind, WholeHertz, driverVars, firmwareVars
  <2>4. CASE Update
    <3>1. MaxAccel' = MaxAccel
      <4>1. maxaccel \in Int
        BY UpdateFreqAssumption DEF TypeOK
      <4> QED BY <2>4, <4>1, MaxAccelBounds DEF Update
    <3>2. freq' - freq \in -MaxAccel..MaxAccel
      BY <2>4, NewVelBounds DEF Update
    <3>3. following' => freq \in Frequencies /\ speed' = WholeHertz(freq)
                        /\ freq' - freq \in -(MaxAccel')..MaxAccel'
      BY <2>4, <3>1, <3>2 DEF Update, OneUpdateBehind, TypeOK, firmwareVars
    <3> QED BY <2>4, <3>3 DEF Update, OneUpdateBehind, WholeHertz
  <2>5. CASE WriteAnswer
    BY <2>5 DEF WriteAnswer, OneUpdateBehind, WholeHertz, driverVars
  <2>6. CASE UNCHANGED vars
    BY <2>6 DEF vars, OneUpdateBehind, WholeHertz, pins, driverVars, firmwareVars, MaxAccel
  <2> QED BY <2>1, <2>2, <2>3, <2>4, <2>5, <2>6 DEF Next
<1> QED BY <1>1, <1>2, TypeCorrect, PTL DEF Spec

(* From one write to the next, a joint that goes on moving keeps to its    *)
(* acceleration (remora-eth-3.0.c:673), but for less than one Hertz that   *)
(* the conversion to an integer may add (:831).                            *)
THEOREM KeepsAccelerationCorrect == Spec => KeepsAcceleration
<1>1. TypeOK /\ OneUpdateBehind /\ [Next]_vars =>
        [following /\ following' => speed' - speed \in -Change..Change]_vars
  <2> SUFFICES ASSUME TypeOK, OneUpdateBehind, Next, following, following'
               PROVE  speed' - speed \in -Change..Change
    OBVIOUS
  <2>1. MaxAccel \in Nat /\ Change \in Nat /\ speed \in Int
    <3>1. maxaccel \in Int
      BY UpdateFreqAssumption DEF TypeOK
    <3>2. MaxAccel \in 1..BaseFreq
      BY <3>1, MaxAccelBounds
    <3> QED BY <3>2, UpdateFreqAssumption DEF TypeOK, Frequencies, Change
  <2>2. CASE WriteAnswer
    <3>1. PICK f \in Frequencies :
             speed = WholeHertz(f) /\ freq - f \in -MaxAccel..MaxAccel
      BY <2>2 DEF WriteAnswer, OneUpdateBehind
    <3>2. speed' = WholeHertz(freq) /\ freq \in Frequencies
      BY <2>2 DEF WriteAnswer, TypeOK
    <3> QED BY <2>1, <3>1, <3>2, WholeHertzKeeps DEF Change
  <2>3. CASE ReadFails \/ WriteFails
    BY <2>3 DEF ReadFails, WriteFails, Fails
  <2>4. CASE ReadAnswer \/ Motion \/ Update
    <3>1. speed' = speed
      BY <2>4 DEF ReadAnswer, Motion, Update, firmwareVars
    <3> QED BY <2>1, <3>1
  <2> QED BY <2>2, <2>3, <2>4 DEF Next
<1> QED BY <1>1, TypeCorrect, OneUpdateBehindInvariant, PTL DEF Spec, KeepsAcceleration
=============================================================================
