-------------------------------- MODULE Link --------------------------------
(***************************************************************************)
(* Both ends of the link in one time: the driver of LinuxCNC (HostLink)    *)
(* and the watchdog of the board (RemoraComms) with the command that the   *)
(* board follows.  A tick is a millisecond, an update of the watchdog and  *)
(* a cycle of the driver; the driver waits for an answer much longer than  *)
(* the watchdog for a request (remora-eth-3.0.c:909-924, RemoraComms.cpp:  *)
(* 22-36).                                                                 *)
(*                                                                         *)
(* Within a tick the network delivers or loses what it was given, and the  *)
(* main loop of the board acts on the watchdog (Firmware has its steps).   *)
(***************************************************************************)
EXTENDS HostLink

CONSTANTS
    DataErrMax, CountMod, PowerUpStatus, MaxSilent,     \* of RemoraComms
    Timeout         \* ticks after which the driver gives an answer up: 200

ASSUME LinkAssumption ==
    /\ DataErrMax \in Nat /\ CountMod \in Nat /\ MaxSilent \in Nat
    /\ DataErrMax + 1 < CountMod /\ DataErrMax < MaxSilent
    /\ PowerUpStatus \subseteq BOOLEAN
    /\ Timeout \in Nat /\ Timeout > 2 * DataErrMax + 2

VARIABLES
    data, up, noDataCount, silent,  \* the watchdog; "up" is its status
    command,        \* rxData of the board
    age,            \* ghost: ticks since it came, up to Timeout
    waited,         \* ticks that the driver has waited for the answer
    cycled          \* the driver has done the cycle of this tick

Board == INSTANCE RemoraComms WITH status <- up

boardVars == <<data, up, noDataCount, silent, command, age>>
timeVars == <<waited, cycled>>
linkVars == <<vars, boardVars, timeVars>>

LinkTypeOK ==
    /\ TypeOK
    /\ Board!CommsTypeOK
    /\ command \in {"zero", "move"}
    /\ age \in 0..Timeout
    /\ waited \in 0..Timeout
    /\ cycled \in BOOLEAN

LinkInit ==
    /\ Init
    /\ Board!CommsInit
    /\ command = "zero" /\ age = 0
    /\ waited = 0 /\ cycled = FALSE

-----------------------------------------------------------------------------
(***************************************************************************)
(* The driver: one cycle per tick, and no longer than Timeout for an       *)
(* answer.                                                                 *)
(***************************************************************************)
Begin ==
    /\ ~cycled
    /\ ReadSkip \/ ReadSend
    /\ waited' = 0
    /\ UNCHANGED <<boardVars, cycled>>

Write ==
    /\ WriteSkip \/ WriteSend
    /\ cycled' = WriteSkip
    /\ waited' = 0
    /\ UNCHANGED boardVars

Answered ==
    /\ ReadAnswer \/ WriteAnswer
    /\ cycled' = (pc = "writeWait")
    /\ UNCHANGED <<boardVars, waited>>

(* Mutant of TimedOut: a time-out in the order of the watchdog's.          *)
TimedOutEarly ==
    /\ waited = DataErrMax
    /\ ReadTimeout \/ WriteTimeout
    /\ cycled' = (pc = "writeWait")
    /\ UNCHANGED <<boardVars, waited>>

TimedOut ==
    /\ waited = Timeout
    /\ ReadTimeout \/ WriteTimeout
    /\ cycled' = (pc = "writeWait")
    /\ UNCHANGED <<boardVars, waited>>

Driver == Begin \/ Write \/ Answered \/ TimedOut

-----------------------------------------------------------------------------
(***************************************************************************)
(* The board and the network.                                              *)
(***************************************************************************)
(* Every request feeds the watchdog; a write brings a command.             *)
Request ==
    /\ Answer
    /\ Board!DataReceived
    /\ IF Head(requests).kind = "ack"
       THEN command' = "move" /\ age' = 0
       ELSE UNCHANGED <<command, age>>
    /\ UNCHANGED timeVars

Around ==
    /\ Arrive \/ Lose \/ Repaired \/ Dies \/ SetPins
    /\ UNCHANGED <<boardVars, timeVars>>

(* Mutant of Acted: the reset keeps the command.                           *)
ActedKeeps == UNCHANGED command

(* The main loop goes on in RUNNING, or by ST_RESET to ST_IDLE.            *)
Acted == command' = IF up' THEN command ELSE "zero"

Waiting == pc \in {"readWait", "writeWait"}

(* The watchdog's update, when all that this tick brings has come.         *)
Tick ==
    /\ InFlight = <<>> /\ socket = <<>>
    /\ IF Waiting THEN waited < Timeout ELSE pc = "read" /\ cycled
    /\ Board!CommsUpdate
    /\ Acted
    /\ age' = IF age < Timeout THEN age + 1 ELSE age
    /\ waited' = IF Waiting THEN waited + 1 ELSE 0
    /\ cycled' = FALSE
    /\ UNCHANGED vars

LinkNext == Driver \/ Request \/ Around \/ Tick

(* Both ends are periodic, and what is not lost arrives.                   *)
LinkSpec ==
    /\ LinkInit /\ [][LinkNext]_linkVars
    /\ WF_linkVars(Driver) /\ WF_linkVars(Tick)
    /\ WF_linkVars(Request) /\ WF_linkVars(Arrive /\ UNCHANGED <<boardVars, timeVars>>)

-----------------------------------------------------------------------------
(***************************************************************************)
(* Properties.                                                             *)
(***************************************************************************)

(* The machine moves on a command that is recent, although reads feed the  *)
(* watchdog as well as writes do (ethernet.cpp:131).  The bound is twice   *)
(* the watchdog's: a driver that was disabled and is reset in time feeds   *)
(* it by one more read, and follows that by a write or by a long wait.     *)
CommandFresh == command = "move" => age <= 2 * DataErrMax + 2

(* When the driver gives an answer up, the board has long stopped by its   *)
(* own watchdog: what it computes next starts from a machine at rest.      *)
FailureStops == [][TimedOut => command = "zero" /\ ~up]_linkVars

(* On a good link the first request brings both ends up for good, and the  *)
(* driver goes on to feed back what the board answers.                     *)
LinkWorks ==
    <>[](net = "good" /\ enable) /\ []<><<ReadSend>>_vars
      => <>[](status /\ up) /\ []<>(fed = "fresh")
=============================================================================
