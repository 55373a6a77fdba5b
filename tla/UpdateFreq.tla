----------------------------- MODULE UpdateFreq -----------------------------
(***************************************************************************)
(* The frequency of one joint in the driver of LinuxCNC (update_freq in    *)
(* LinuxCNC/components/Remora-eth/remora-eth-3.0.c), in the cycle of its   *)
(* servo thread: the feedback is read, LinuxCNC sets its pins, the         *)
(* frequency is computed and written to the firmware.  The joints do not   *)
(* depend on each other.                                                   *)
(*                                                                         *)
(* The unit of time is one period of the servo thread.  Distances are in   *)
(* fractions of a count, of which the firmware reports whole ones only;    *)
(* pos_scale, its sign and its size, cancels out of the limits and of the  *)
(* deadband.  The unit of a frequency is what pgain makes of one unit of   *)
(* distance, so that an error is a frequency, and one unit moves the joint *)
(* by 1/Gain units in a period.  One Hertz is several units: the driver    *)
(* computes fractions of it, and sends whole ones.  With the defaults, a   *)
(* pgain and a deadband of 1, Hertz = Count and Deadband = Count.  ff1gain *)
(* has its default, 1, and maxvel, which the driver never exports, is 0.   *)
(***************************************************************************)
EXTENDS Integers

CONSTANTS
    Gain,           \* periods in which pgain alone would remove an error
    Count,          \* units of distance in one count
    Hertz,          \* units of frequency in one Hz
    BaseFreq,       \* PRU_base_freq, in the unit of a frequency
    Deadband,       \* in units of distance
    Commands,       \* what LinuxCNC may ask for: distances, or frequencies
    Accels,         \* what it may set maxaccel to, per period
    Grace,          \* bound on the periods the firmware moves in an outage
    MaxLosses       \* bound on the transfers that fail

ASSUME UpdateFreqAssumption ==
    /\ Gain \in Nat \ {0} /\ BaseFreq \in Nat \ {0}
    /\ Count \in Nat \ {0} /\ Hertz \in Nat \ {0}
    /\ Deadband \in Nat /\ Grace \in Nat /\ MaxLosses \in Nat
    /\ Commands \subseteq Int /\ 0 \in Commands
    /\ Accels \subseteq Int

VARIABLES
    pc,             \* the next function of the servo thread
    pos_mode,       \* position mode, or velocity mode
    command,        \* the pins of LinuxCNC: pos_cmd or vel_cmd,
    stepperEnable,  \* and enable
    maxaccel,
    standing,       \* ghost: LinuxCNC has made up its mind
    pos_fb,         \* in units of distance, but whole counts
    prev_cmd,
    freq,
    speed,          \* the command the firmware follows
    position,       \* where the joint is, in units of distance times Gain
    following,      \* ghost: it moves on the write of the cycle before
    losses          \* ghost: transfers that have failed

pins == <<command, stepperEnable, maxaccel, standing>>
driverVars == <<pos_mode, pos_fb, prev_cmd, freq>>
firmwareVars == <<speed, position, following>>
vars == <<pc, pins, driverVars, firmwareVars, losses>>

Frequencies == -BaseFreq .. BaseFreq

(* No frequency is beyond what the base thread can step, which the models  *)
(* of the step generators assume of every command.                         *)
TypeOK ==
    /\ pc \in {"read", "motion", "update", "write"}
    /\ pos_mode \in BOOLEAN
    /\ command \in Commands /\ prev_cmd \in Commands
    /\ stepperEnable \in BOOLEAN /\ standing \in BOOLEAN
    /\ maxaccel \in Accels \cup {0, 1, BaseFreq}
    /\ pos_fb \in Int
    /\ freq \in Frequencies /\ speed \in Frequencies
    /\ position \in Int
    /\ following \in BOOLEAN
    /\ losses \in 0..MaxLosses

Init ==
    /\ pc = "read"
    /\ pos_mode \in BOOLEAN
    /\ command = 0 /\ prev_cmd = 0
    /\ stepperEnable = FALSE /\ standing = FALSE
    /\ maxaccel = 1
    /\ pos_fb = 0
    /\ freq = 0
    /\ speed = 0 /\ position = 0 /\ following = FALSE
    /\ losses = 0

-----------------------------------------------------------------------------
(***************************************************************************)
(* The transfers.  One that fails takes 200 ms, in which the firmware      *)
(* stops by its watchdog.  The position is of interest in position mode.   *)
(***************************************************************************)
Moves(distance) ==
    position' = IF pos_mode THEN position + distance ELSE position

Fails ==
    /\ losses < MaxLosses
    /\ losses' = losses + 1
    /\ \E n \in 0..Grace : Moves(n * speed)
    /\ speed' = 0 /\ following' = FALSE

(* The firmware reports the whole counts that the joint has passed.        *)
Feedback == (position \div (Gain * Count)) * Count

ReadAnswer ==
    /\ pc = "read" /\ pc' = "motion"
    /\ pos_fb' = Feedback
    /\ UNCHANGED <<pins, pos_mode, prev_cmd, freq, firmwareVars, losses>>

ReadFails ==
    /\ pc = "read" /\ pc' = "motion"
    /\ Fails
    /\ UNCHANGED <<pins, driverVars>>

(* The frequency, a float, becomes an int32_t: what is below one Hertz is  *)
(* dropped, on both sides of zero.                                         *)
WholeHertz(f) ==
    IF f >= 0 THEN f - (f % Hertz) ELSE f + ((-f) % Hertz)

WriteAnswer ==
    /\ pc = "write" /\ pc' = "read"
    /\ speed' = IF stepperEnable THEN WholeHertz(freq) ELSE 0
    /\ following' = stepperEnable
    /\ Moves(speed')
    /\ UNCHANGED <<pins, driverVars, losses>>

WriteFails ==
    /\ pc = "write" /\ pc' = "read"
    /\ Fails
    /\ UNCHANGED <<pins, driverVars>>

(* LinuxCNC: the motion controller and setp.                               *)
Motion ==
    /\ pc = "motion" /\ pc' = "update"
    /\ IF standing THEN UNCHANGED pins
       ELSE /\ command' \in Commands
            /\ stepperEnable' \in BOOLEAN
            /\ maxaccel' \in Accels \cup {maxaccel}
            /\ standing' \in BOOLEAN
    /\ UNCHANGED <<driverVars, firmwareVars, losses>>

-----------------------------------------------------------------------------
(***************************************************************************)
(* update_freq.                                                            *)
(***************************************************************************)
Least(a, b) == IF a < b THEN a ELSE b
Clip(x, bound) == IF x > bound THEN bound ELSE IF x < -bound THEN -bound ELSE x

(* Mutant of MaxAccel: a maxaccel of zero is taken as it is.               *)
MaxAccelZero == Least(maxaccel, BaseFreq)

(* At most from zero to full speed in one period; zero means no limit.     *)
MaxAccel == IF maxaccel <= 0 THEN BaseFreq ELSE Least(maxaccel, BaseFreq)

(* The error beyond the deadband.                                          *)
Error ==
    LET e == command - pos_fb
    IN  e - Clip(e, Deadband)

(* Mutant of VelCmd: negative frequencies are not limited.                 *)
VelCmdOneSided ==
    LET v == IF pos_mode THEN Error + Gain * (command - prev_cmd) ELSE command
    IN  Least(v, BaseFreq)

VelCmd ==
    Clip(IF pos_mode THEN Error + Gain * (command - prev_cmd) ELSE command,
         BaseFreq)

(* Mutant of NewVel: no limit while slowing down.                          *)
NewVelFastStop ==
    IF VelCmd > freq THEN Least(VelCmd, freq + MaxAccel) ELSE VelCmd

NewVel == freq + Clip(VelCmd - freq, MaxAccel)

(* The test for a disabled joint (:691) looks at the pointer to the pin of *)
(* the first joint, which is never null: the frequency is not set to zero. *)
Update ==
    /\ pc = "update" /\ pc' = "write"
    /\ maxaccel' = IF maxaccel <= 0 THEN 0 ELSE MaxAccel
    /\ prev_cmd' = IF pos_mode THEN command ELSE prev_cmd
    /\ freq' = NewVel
    /\ UNCHANGED <<command, stepperEnable, standing, pos_mode, pos_fb,
                   firmwareVars, losses>>

-----------------------------------------------------------------------------
Next ==
    \/ ReadAnswer \/ ReadFails \/ Motion \/ Update \/ WriteAnswer \/ WriteFails

(* The servo thread is periodic.                                           *)
Spec == Init /\ [][Next]_vars /\ WF_vars(Next)

-----------------------------------------------------------------------------
(***************************************************************************)
(* Properties.                                                             *)
(***************************************************************************)

(* What an enabled joint is told to do from one write to the next keeps to *)
(* the acceleration (remora-eth-3.0.c:673, "calc max change in frequency   *)
(* in one period"), unless a transfer failed or it was disabled in         *)
(* between; sending whole Hertz (:831) may add less than one.              *)
Change == MaxAccel + Hertz - 1

KeepsAcceleration ==
    [][following /\ following' => speed' - speed \in -Change..Change]_vars

(* The machine gets to where it is sent and stays there, whatever went     *)
(* wrong before: at rest, or at the limited velocity in whole Hertz.  A    *)
(* joint at rest may be off by the deadband and by what pgain makes less   *)
(* than one Hertz of (:642, :831), and then its freq is not zero.          *)
Settled ==
    IF pos_mode
      THEN /\ speed = 0
           /\ LET off == Deadband + Hertz - 1
              IN  command - Feedback \in -off..off
      ELSE speed = WholeHertz(Clip(command, BaseFreq))

Settles == <>[](standing /\ stepperEnable) => <>[]Settled
=============================================================================
