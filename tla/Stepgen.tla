------------------------------ MODULE Stepgen ------------------------------
(***************************************************************************)
(* The step generators of the base thread                                  *)
(* (source/modules/stepgen/stepgen.cpp): direct digital synthesis in the   *)
(* interrupt of a timer.  They read their commands from rxData, which the  *)
(* main loop writes: a packet is copied with the interrupts off, but the   *)
(* reset after a lost connection clears the buffer byte by byte with the   *)
(* interrupts on (source/remora-rt1052.cpp:627-636).                       *)
(*                                                                         *)
(* A 32 bit word in the buffer has two halves here, which is enough to be  *)
(* torn.  An int32_t is a number in 0..Word-1, its two's complement.       *)
(***************************************************************************)
EXTENDS Integers

CONSTANTS
    NumJoints,      \* joints with a step generator in the base thread
    Radix,          \* 2^width of half a word (65536)
    StepUnit,       \* 1 << stepBit, the accumulator units of one step (2^22)
    BaseFreq,       \* frequency of the base thread
    CountMod,       \* 2^width of rawCount
    Frequencies     \* what LinuxCNC commands: it keeps to BaseFreq

Word == Radix * Radix
Wraps == Word \div StepUnit     \* steps after which the accumulator wraps

ASSUME StepgenAssumption ==
    /\ {NumJoints, Radix, StepUnit, BaseFreq, CountMod} \subseteq Nat \ {0}
    /\ Word = Wraps * StepUnit /\ Wraps % 2 = 0
    /\ CountMod % Wraps = 0
    /\ BaseFreq <= StepUnit
    /\ 0 \in Frequencies /\ Frequencies \subseteq -BaseFreq..BaseFreq
    /\ 2 * BaseFreq < Word

VARIABLES
    freqCmd,        \* rxData.jointFreqCmd: half 2*j is the low one of joint j
    jointEnable,    \* rxData.jointEnable, as a set; it follows jointFreqCmd
    n,              \* the bytes that the reset still has to clear
    acc,            \* DDSaccumulator
    rawCount,       \* the count, which is the joint's feedback
    packet          \* ghost: the frequencies of the last packet

vars == <<freqCmd, jointEnable, n, acc, rawCount, packet>>

Joints == 0..NumJoints - 1
EnableCell == 2 * NumJoints
Cells == 0..EnableCell

TypeOK ==
    /\ freqCmd \in [0..EnableCell - 1 -> 0..Radix - 1]
    /\ jointEnable \subseteq Joints
    /\ n \in 0..EnableCell + 1
    /\ acc \in [Joints -> 0..Word - 1]
    /\ rawCount \in [Joints -> 0..CountMod - 1]
    /\ packet \in [Joints -> Frequencies]

(* rawCount is taken to be zero; the constructor does not set it.          *)
Init ==
    /\ freqCmd = [c \in 0..EnableCell - 1 |-> 0]
    /\ jointEnable = {}
    /\ n = 0
    /\ acc = [j \in Joints |-> 0]
    /\ rawCount = [j \in Joints |-> 0]
    /\ packet = [j \in Joints |-> 0]

-----------------------------------------------------------------------------
(***************************************************************************)
(* The main loop.                                                          *)
(***************************************************************************)
Halves(f) == <<f % Radix, (f % Word) \div Radix>>

(* A PRU_WRITE packet.                                                     *)
WritePacket ==
    /\ n = 0
    /\ packet' \in [Joints -> Frequencies]
    /\ jointEnable' \in SUBSET Joints
    /\ freqCmd' = [c \in 0..EnableCell - 1 |->
                     Halves(packet'[c \div 2])[1 + (c % 2)]]
    /\ UNCHANGED <<n, acc, rawCount>>

(* Mutant of BeginReset: it starts one past the end of the buffer.         *)
BeginResetPast ==
    /\ n = 0
    /\ n' = EnableCell + 2
    /\ UNCHANGED <<freqCmd, jointEnable, acc, rawCount, packet>>

(* ST_RESET.                                                               *)
BeginReset ==
    /\ n = 0
    /\ n' = EnableCell + 1
    /\ UNCHANGED <<freqCmd, jointEnable, acc, rawCount, packet>>

(* Mutant of Cleared: the buffer is cleared from its first byte on.        *)
ClearedUp == EnableCell + 1 - n

(* n-- > 0: the last byte is the first.                                    *)
Cleared == n - 1

ClearByte ==
    /\ n > 0
    /\ n' = n - 1
    /\ IF Cleared = EnableCell
         THEN jointEnable' = {} /\ UNCHANGED freqCmd
         ELSE freqCmd' = [freqCmd EXCEPT ![Cleared] = 0] /\ UNCHANGED jointEnable
    /\ UNCHANGED <<acc, rawCount, packet>>

-----------------------------------------------------------------------------
(***************************************************************************)
(* The interrupt of the base thread: makePulses of every joint.  What the  *)
(* float multiplication rounds is left out.                                *)
(***************************************************************************)
Frequency(j) ==
    LET w == freqCmd[2 * j] + Radix * freqCmd[2 * j + 1]
    IN  IF 2 * w < Word THEN w ELSE w - Word

(* Mutant of AddValue: the integers are divided before they are scaled.    *)
AddValueDividedFirst(f) ==
    IF f < 0 THEN -((-f \div BaseFreq) * StepUnit) ELSE (f \div BaseFreq) * StepUnit

AddValue(f) ==
    IF f < 0 THEN -((-f * StepUnit) \div BaseFreq) ELSE (f * StepUnit) \div BaseFreq

NextAcc(j) ==
    IF j \in jointEnable THEN (acc[j] + AddValue(Frequency(j))) % Word ELSE acc[j]

(* Mutant of StepNow: the accumulator wraps where it should step.          *)
StepNowAtWrap(a, b) == (a < Word \div 2) # (b < Word \div 2)

(* The step bit changes.                                                   *)
StepNow(a, b) == (a \div StepUnit) % 2 # (b \div StepUnit) % 2

NextCount(j) ==
    IF ~StepNow(acc[j], NextAcc(j)) THEN rawCount[j]
    ELSE IF AddValue(Frequency(j)) > 0 THEN (rawCount[j] + 1) % CountMod
    ELSE (rawCount[j] - 1) % CountMod

(* Mutant of BaseTick: a joint that is at rest forgets its fraction.       *)
BaseTickForgets ==
    /\ acc' = [j \in Joints |-> IF j \in jointEnable THEN NextAcc(j) ELSE 0]
    /\ rawCount' = [j \in Joints |-> NextCount(j)]
    /\ UNCHANGED <<freqCmd, jointEnable, n, packet>>

BaseTick ==
    /\ acc' = [j \in Joints |-> NextAcc(j)]
    /\ rawCount' = [j \in Joints |-> NextCount(j)]
    /\ UNCHANGED <<freqCmd, jointEnable, n, packet>>

MainLoop == WritePacket \/ BeginReset \/ ClearByte
Next == MainLoop \/ BaseTick

(* The timer never stops, and a reset that has begun goes on.              *)
Spec == Init /\ [][Next]_vars /\ WF_vars(BaseTick) /\ WF_vars(ClearByte)

-----------------------------------------------------------------------------
(***************************************************************************)
(* Properties.                                                             *)
(***************************************************************************)

(* The count that is fed back is the whole part of what the commands have  *)
(* added up to: whatever the frequencies, their sign and the moments at    *)
(* which a joint is disabled or the accumulator wraps, no step is lost     *)
(* and no fraction is forgotten (stepgen.cpp:76-105, where a step is seen  *)
(* only as a change of one bit).                                           *)
CountIsWholePart ==
    \A j \in Joints : rawCount[j] % Wraps = acc[j] \div StepUnit

(* A step generator that is enabled follows a frequency that was           *)
(* commanded for it, also while the reset is clearing the buffer under     *)
(* it: the order in which the bytes are cleared disables the joints before *)
(* it tears their frequencies (remora-rt1052.cpp:633-635).                 *)
EnabledFollowsPacket ==
    \A j \in jointEnable : Frequency(j) = packet[j]

(* However slow, a joint that stays enabled with a command other than zero *)
(* makes steps for ever (stepgen.cpp:77, the truncation to an integer).    *)
SlowJointsStep ==
    \A j \in Joints :
        <>[](j \in jointEnable /\ packet[j] # 0)
            => []<><<rawCount'[j] # rawCount[j]>>_vars
=============================================================================
