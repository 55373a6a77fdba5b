----------------------------- MODULE StepOutput -----------------------------
(***************************************************************************)
(* One joint of the DMA thread and the two pins it drives: DMAstepgen      *)
(* writes toggles into the buffer that DmaThread picks, the channel plays  *)
(* them into GPIO1->DR_TOGGLE, and the step generator reads the direction  *)
(* pin back while the previous buffer is being played.                     *)
(*                                                                         *)
(* The main loop serves a buffer at once here (DmaService has the steps),  *)
(* at a point of the period given by FillSlots.                            *)
(*                                                                         *)
(* A drive is attached to the pins: it counts a step at every rising edge, *)
(* in the direction of the direction pin, and notes the times that it is   *)
(* not given.                                                              *)
(***************************************************************************)
EXTENDS DmaThread, DMAstepgen

CONSTANTS
    Frequencies,    \* the commands of LinuxCNC, in Hz; 0 is one of them
    FillSlots,      \* how many slots of the period may have been played when
                    \* the main loop fills the other buffer
    DisableWhen,    \* "never", "quiet": only when nothing is left to play,
                    \* "any": at any time
    MaxSessions     \* bound on the starts of the thread

ASSUME OutputAssumption ==
    /\ 0 \in Frequencies /\ Frequencies \subseteq Int
    /\ FillSlots \subseteq 0..Slots
    /\ DisableWhen \in {"never", "quiet", "any"}
    /\ MaxSessions \in Nat

VARIABLES
    at,         \* slots of the loaded buffer that have been played
    stepPin,    \* the levels of the pins
    dirPin,
    position,   \* the drive: its position,
    last,       \* the slots of the last edges, relative to the loaded buffer,
    broken,     \* the times that were too short,
    sessions    \* and the starts so far

driveVars == <<at, stepPin, dirPin, position, last, broken, sessions>>
vars == <<dmaVars, jointVars, driveVars>>

Toggle == {"step", "dir"} \X (0..Slots - 1)
Times == {"length", "space", "space - 1", "hold", "setup"}
LongAgo == -(Slots + Length + Space + Hold + SetupTime)

TypeOK ==
    /\ DmaTypeOK(Toggle)
    /\ JointTypeOK
    /\ at \in 0..Slots
    /\ stepPin \in BOOLEAN /\ dirPin \in BOOLEAN
    /\ position \in 0..CountMod - 1
    /\ last \in [{"rise", "fall", "dir"} -> LongAgo..Slots]
    /\ broken \subseteq Times
    /\ sessions \in 0..MaxSessions

Init ==
    /\ DmaInit
    /\ JointInit
    /\ at = 0
    /\ stepPin = FALSE /\ dirPin = FALSE
    /\ position = 0
    /\ last = [e \in {"rise", "fall", "dir"} |-> LongAgo]
    /\ broken = {}
    /\ sessions = 0

-----------------------------------------------------------------------------
(***************************************************************************)
(* What the pins do while the slots from a to b - 1 of a buffer with       *)
(* toggles T are played, from the levels "step" and "dir".                 *)
(***************************************************************************)
At(T, pin, a, b) ==
    {t[2] : t \in {x \in T : x[1] = pin /\ a <= x[2] /\ x[2] < b}}
Odd(S) == Cardinality(S) % 2 = 1
After(level, S) == level # Odd(S)       \* exclusive or

Rises(T, step, a, b) ==
    {s \in At(T, "step", a, b) : ~After(step, At(T, "step", a, s))}
Falls(T, step, a, b) == At(T, "step", a, b) \ Rises(T, step, a, b)

Moves(T, step, dir, a, b) ==
    LET rises == Rises(T, step, a, b)
        up == {s \in rises : After(dir, At(T, "dir", a, s + 1))}
    IN  Cardinality(up) - Cardinality(rises \ up)

(* The drive over the same slots.  Latest is the last slot of an edge of a *)
(* kind before slot s, in this stretch or in the past.                     *)
Latest(S, past, s) == Max({past} \cup {e \in S : e < s})

TooShort(T, a, b) ==
    LET rises == Rises(T, stepPin, a, b)
        falls == Falls(T, stepPin, a, b)
        dirs == At(T, "dir", a, b)
        low(s) == s - Latest(falls, last["fall"], s)
    IN  {w \in Times :
          CASE w = "length" ->
                 \E s \in falls : s - Latest(rises, last["rise"], s) < Length
            [] w = "space" -> \E s \in rises : low(s) < Space
            [] w = "space - 1" -> \E s \in rises : low(s) < Space - 1
            [] w = "setup" ->
                 \E s \in rises : s - Latest(dirs, last["dir"], s + 1) < SetupTime
            [] w = "hold" ->
                 \E s \in dirs :
                    \/ After(stepPin, At(T, "step", a, s + 1))
                    \/ s - Latest(falls, last["fall"], s + 1) < Hold}

(* The loaded buffer is played on up to slot b.                            *)
PlayTo(b) ==
    LET T == buf[tcd]
        edges == [rise |-> Rises(T, stepPin, at, b),
                  fall |-> Falls(T, stepPin, at, b),
                  dir |-> At(T, "dir", at, b)]
        reached == [e \in {"rise", "fall", "dir"} |-> Latest(edges[e], last[e], b)]
    IN  /\ stepPin' = After(stepPin, At(T, "step", at, b))
        /\ dirPin' = After(dirPin, At(T, "dir", at, b))
        /\ position' = (position + Moves(T, stepPin, dirPin, at, b)) % CountMod
        /\ broken' = broken \cup TooShort(T, at, b)
        /\ last' = IF b < Slots THEN reached
                   ELSE [e \in {"rise", "fall", "dir"} |->
                           Max({reached[e] - Slots, LongAgo})]

DirPinAt(b) == After(dirPin, At(buf[tcd], "dir", at, b))

-----------------------------------------------------------------------------
(* The joint's part of a fill for an enabled joint: nothing at all when    *)
(* the command is 0.                                                       *)
Enabled(f, pin) == IF f = 0 THEN UNCHANGED jointVars ELSE MakePulses(f, pin)
Fill(f, pin) == IF f = 0 THEN {} ELSE Toggles(f, pin)

(* ST_RUNNING: the first fill and the start of the channel.                *)
StartRunning(f) ==
    /\ sessions < MaxSessions
    /\ sessions' = sessions + 1
    /\ RunAndStart(Fill(f, dirPin))
    /\ Enabled(f, dirPin)
    /\ at' = 0
    /\ UNCHANGED <<stepPin, dirPin, position, last, broken>>

(* The same for a joint that is disabled.                                  *)
StartDisabled ==
    /\ sessions < MaxSessions
    /\ sessions' = sessions + 1
    /\ RunAndStart({})
    /\ Disable
    /\ stepPin' = FALSE /\ dirPin' = FALSE
    /\ at' = 0
    /\ UNCHANGED <<position, last, broken>>

(* The service of a completed buffer when b slots of the other one have    *)
(* been played: updateBuffers, run, and the flag.                          *)
Serve(f, b) ==
    /\ playing /\ done
    /\ PlayTo(b) /\ at' = b
    /\ Enabled(f, DirPinAt(b))
    /\ active' = Other(tcd)
    /\ buf' = [buf EXCEPT ![Other(tcd)] = Fill(f, DirPinAt(b))]
    /\ done' = FALSE
    /\ UNCHANGED <<playing, tcd, sessions>>

(* The same service for a joint that is disabled: nothing is added to the  *)
(* buffer, and the pins are lowered in the middle of the one that plays.   *)
Lower(b) ==
    /\ stepPin' = FALSE /\ dirPin' = FALSE
    /\ position' = (position + Moves(buf[tcd], stepPin, dirPin, at, b)) % CountMod
    /\ last' = [last EXCEPT !["dir"] = b, !["fall"] = b]
    /\ UNCHANGED broken

ServeDisabled(b) ==
    /\ DisableWhen # "never"
    /\ DisableWhen = "quiet" =>
         At(buf[tcd], "step", at, Slots) \cup At(buf[tcd], "dir", at, Slots) = {}
    /\ playing /\ done
    /\ Lower(b) /\ at' = b
    /\ Disable
    /\ active' = Other(tcd)
    /\ buf' = [buf EXCEPT ![Other(tcd)] = {}]
    /\ done' = FALSE
    /\ UNCHANGED <<playing, tcd, sessions>>

(* The rest of the buffer, and its end.                                    *)
EndBuffer ==
    /\ MajorComplete
    /\ PlayTo(Slots)
    /\ at' = 0
    /\ UNCHANGED <<jointVars, sessions>>

(* ST_RESET when b slots have been played.                                 *)
Abort(b) ==
    /\ b >= at
    /\ PlayTo(b) /\ at' = 0
    /\ StopThread
    /\ UNCHANGED <<jointVars, sessions>>

(* The main loop in ST_IDLE.                                               *)
Idle == ~playing /\ UNCHANGED vars

Next ==
    \/ \E f \in Frequencies : StartRunning(f)
    \/ \E f \in Frequencies, b \in FillSlots : Serve(f, b)
    \/ \E b \in FillSlots : ServeDisabled(b)
    \/ StartDisabled \/ EndBuffer \/ Idle
    \/ \E b \in FillSlots : Abort(b)

Spec == Init /\ [][Next]_vars

-----------------------------------------------------------------------------
(***************************************************************************)
(* Properties.                                                             *)
(***************************************************************************)

(* Everything that is still to be played: the rest of the loaded buffer,   *)
(* then the other one, when it has been filled.                            *)
Rest == {t \in buf[tcd] : t[2] >= at}
Coming == IF done THEN {} ELSE buf[Other(tcd)]
StepAtEnd == After(After(stepPin, At(Rest, "step", 0, Slots)),
                   At(Coming, "step", 0, Slots))
PositionAtEnd ==
    LET step == After(stepPin, At(Rest, "step", 0, Slots))
        dir == After(dirPin, At(Rest, "dir", 0, Slots))
    IN  (position + Moves(Rest, stepPin, dirPin, 0, Slots)
                  + Moves(Coming, step, dir, 0, Slots)) % CountMod

(* The count that is reported as the joint's feedback is the position the  *)
(* drive reaches when everything queued has been played: no step is lost   *)
(* between two buffers, doubled, or made in the wrong direction            *)
(* (DMAstepgen.h:54, "current position raw count").                        *)
CountIsPosition == playing => rawCount = PositionAtEnd

(* The pins are only ever toggled, so the step generator has to know their *)
(* level: the step pin ends up high exactly when isStepping says that the  *)
(* next period has to lower it (DMAstepgen.cpp:260, "ensure the pin is in  *)
(* a know state as we're using DR_TOGGLE").                                *)
StepPinKnown == playing => StepAtEnd = isStepping

(* The diagram of makePulses (:110-123): the drive gets its step length    *)
(* and, but for the slot by which a step at the very end of a period is    *)
(* put back (:222-225), its step space, also across two buffers; the       *)
(* direction pin does not change too early after a step, and no step comes *)
(* too early after it has changed.                                         *)
DriveTimes == broken \cap {"length", "space - 1", "hold", "setup"} = {}
=============================================================================
