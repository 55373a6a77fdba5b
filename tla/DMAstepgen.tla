----------------------------- MODULE DMAstepgen -----------------------------
(***************************************************************************)
(* The step generator of one joint in the DMA thread                       *)
(* (source/modules/DMAstepgen/DMAstepgen.cpp).  Every period, makePulses   *)
(* turns the commanded frequency into toggles of the step and the          *)
(* direction pin in the slots of a buffer.  Time within a period is        *)
(* counted in Counts = Slots * Half; the step that follows another one     *)
(* comes addValue counts later, and prevRemainder carries the time since   *)
(* the last step into the next period.                                     *)
(*                                                                         *)
(* This module is the component: the state of the joint and what           *)
(* makePulses does to it.  StepOutput plays the toggles.                   *)
(***************************************************************************)
EXTENDS Integers, FiniteSets, FiniteSetsExt

CONSTANTS
    Slots,          \* DMA_BUFFER_SIZE: 1000 slots of 1 us
    Half,           \* RESOLUTION / 2: 500 counts per slot
    ServoFreq,      \* PRU_SERVOFREQ: periods per second
    StepLength,     \* the four times of the joint, in slots
    StepSpace,
    DirHold,
    DirSetup,
    StepPosMod,     \* 2^width of stepPos (int16_t: 65536)
    CountMod,       \* 2^width of rawCount (int32_t)
    PowerUpFlags    \* what isStepping and dirChange may hold at first: the
                    \* constructor leaves them uninitialised

ASSUME StepgenAssumption ==
    /\ {Slots, Half, ServoFreq, StepPosMod, CountMod} \subseteq Nat \ {0}
    /\ {StepLength, StepSpace, DirHold, DirSetup} \subseteq Nat
    /\ PowerUpFlags \subseteq BOOLEAN

VARIABLES
    isStepping,     \* the step pin is high at the end of the last fill
    stepLow,        \* where the next fill lowers it
    dirChange,
    prevRemainder,
    rawCount

jointVars == <<isStepping, stepLow, dirChange, prevRemainder, rawCount>>

Counts == Slots * Half

(* The constructor replaces a time of zero by one slot.                    *)
AtLeastOne(n) == IF n = 0 THEN 1 ELSE n
Length == AtLeastOne(StepLength)
Space == AtLeastOne(StepSpace)
Hold == AtLeastOne(DirHold)
SetupTime == AtLeastOne(DirSetup)

MinAddValue == (Length + Space) * Half

JointInit ==
    /\ isStepping \in PowerUpFlags
    /\ dirChange \in PowerUpFlags
    /\ stepLow = 0
    /\ prevRemainder = 0
    /\ rawCount = 0

JointTypeOK ==
    /\ isStepping \in BOOLEAN
    /\ stepLow \in 0..Length - 1
    /\ dirChange \in BOOLEAN
    /\ prevRemainder \in Nat
    /\ rawCount \in 0..CountMod - 1

-----------------------------------------------------------------------------
(***************************************************************************)
(* makePulses for an enabled joint with a frequency command f # 0, when    *)
(* the direction pin reads "pin".  Forwards is TRUE.                       *)
(***************************************************************************)
Magnitude(f) == IF f < 0 THEN -f ELSE f
AddValue(f) == Max({(Counts * ServoFreq) \div Magnitude(f), MinAddValue})
Forwards(f) == f > 0

Turns(f, pin) == dirChange \/ Forwards(f) # pin

(* Mutant of DirPos: the turn does not wait after the unfinished step.     *)
DirPosNoHold ==
    IF isStepping THEN stepLow
    ELSE IF prevRemainder < Hold THEN Hold - prevRemainder
    ELSE 0

(* The slot of the direction toggle.  The comparison is of counts with     *)
(* slots.                                                                  *)
DirPos ==
    IF isStepping THEN stepLow + Hold
    ELSE IF prevRemainder < Hold THEN Hold - prevRemainder
    ELSE 0

(* stepPos is an int16_t.                                                  *)
StepPos(n) == ((n + StepPosMod \div 2) % StepPosMod) - StepPosMod \div 2

(* Mutant of Carried: prevRemainder is not kept within limits.             *)
CarriedNoLimit(f) == prevRemainder

Carried(f) == Min({prevRemainder, AddValue(f)})

StepsThisPeriod(f) == AddValue(f) - Carried(f) <= Counts

(* The time of the first step, after the setup time of a turn.             *)
FirstStep(f, pin) ==
    IF Turns(f, pin)
      THEN Max({AddValue(f) - Carried(f), StepPos((DirPos + SetupTime) * Half)})
      ELSE AddValue(f) - Carried(f)

(* The loop steps as long as addValue fits in what remains of the period.  *)
LastIndex(f, pin) == Max({0, (Counts - FirstStep(f, pin)) \div AddValue(f)})
StepTimes(f, pin) ==
    {FirstStep(f, pin) + k * AddValue(f) : k \in 0..LastIndex(f, pin)}

(* Mutant of HighSlot: the end of the period is not put back.              *)
HighSlotPast(t, turns) ==
    IF turns /\ t \div Half = 0 THEN SetupTime ELSE t \div Half

(* makeStep: a time that is the very end of the period is put back by one, *)
(* and a step in slot 0 of a turn is moved by the setup time.              *)
HighSlot(t, turns) ==
    LET slot == (IF t = Counts THEN t - 1 ELSE t) \div Half
    IN  IF turns /\ slot = 0 THEN SetupTime ELSE slot

Highs(f, pin) ==
    IF StepsThisPeriod(f)
      THEN {HighSlot(t, Turns(f, pin)) : t \in StepTimes(f, pin)}
      ELSE {}

(* Mutant of Toggles: the unfinished step of the last period is left.      *)
TogglesNoFinish(f, pin) ==
    LET turn == IF Turns(f, pin) THEN {DirPos} ELSE {}
        lows == {h + Length : h \in Highs(f, pin)}
        steps == Highs(f, pin) \cup {l \in lows : l < Slots}
    IN  ({"dir"} \X turn) \cup ({"step"} \X steps)

(* Two ORs of a bit into the same slot are one toggle.                     *)
Toggles(f, pin) ==
    LET turn == IF Turns(f, pin) THEN {DirPos} ELSE {}
        finish == IF isStepping THEN {stepLow} ELSE {}
        lows == {h + Length : h \in Highs(f, pin)}
        steps == finish \cup Highs(f, pin) \cup {l \in lows : l < Slots}
    IN  ({"dir"} \X turn) \cup ({"step"} \X steps)

MakePulses(f, pin) ==
    LET times == StepTimes(f, pin)
        lastLow == HighSlot(Max(times), Turns(f, pin)) + Length
    IN  /\ dirChange' = FALSE
        /\ IF StepsThisPeriod(f)
             THEN /\ isStepping' = (lastLow >= Slots)
                  /\ stepLow' = IF lastLow >= Slots THEN lastLow - Slots ELSE 0
                  /\ prevRemainder' = Counts - Max(times)
                  /\ rawCount' = (rawCount + (IF Forwards(f) THEN 1 ELSE -1)
                                               * Cardinality(times)) % CountMod
             ELSE /\ isStepping' = FALSE
                  /\ stepLow' = IF isStepping THEN 0 ELSE stepLow
                  /\ prevRemainder' = Carried(f) + Counts
                  /\ UNCHANGED rawCount

(* makePulses for a disabled joint; it also lowers both pins at once.      *)
Disable ==
    /\ prevRemainder' = 0
    /\ isStepping' = FALSE
    /\ UNCHANGED <<stepLow, dirChange, rawCount>>
=============================================================================
