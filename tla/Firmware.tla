------------------------------ MODULE Firmware ------------------------------
(***************************************************************************)
(* The main loop of the firmware (source/remora-rt1052.cpp) with the parts *)
(* it drives: the communication watchdog, the DMA thread, the network      *)
(* handler it polls, and the two timer threads that interrupt it.          *)
(*                                                                         *)
(* One iteration is the switch over the state, EthernetTasks, and the      *)
(* service of the DMA thread.  The servo interrupt and the end of a DMA    *)
(* buffer may come between any two of these steps.  The commands of        *)
(* LinuxCNC are abstracted to whether they make anything move.             *)
(***************************************************************************)
EXTENDS DmaThread, RemoraComms

CONSTANTS
    HasDMAthread,   \* the configuration has a module in the DMA thread
    MaxLag          \* servo updates during one iteration of the main loop

ASSUME FirmwareAssumption ==
    /\ HasDMAthread \in BOOLEAN
    /\ MaxLag \in Nat \ {0}

(* The main loop looks at the status at least once per time-out of the     *)
(* watchdog (6 ms).  If it did not, a status that comes and goes could     *)
(* pass it by in IDLE, and the command that came with it would stay.       *)
ASSUME LagAssumption == MaxLag <= DataErrMax + 1

VARIABLES
    state,              \* currentState
    pc,                 \* where the iteration is
    threadsRunning,
    DMAthreadRunning,
    rxData,             \* "zero": every command is 0, every joint disabled
    linkUp,             \* the network delivers packets
    lag                 \* servo updates since the switch of this iteration

loopVars == <<state, pc, threadsRunning, DMAthreadRunning, rxData, linkUp, lag>>
vars == <<dmaVars, commsVars, loopVars>>

States == {"SETUP", "START", "IDLE", "RUNNING", "RESET"}
Commands == {"zero", "move"}

TypeOK ==
    /\ DmaTypeOK({"pulse"})
    /\ CommsTypeOK
    /\ state \in States
    /\ pc \in {"switch", "ethernet", "poll", "update", "run", "clear"}
    /\ threadsRunning \in BOOLEAN
    /\ DMAthreadRunning \in BOOLEAN
    /\ rxData \in Commands
    /\ linkUp \in BOOLEAN
    /\ lag \in 0..MaxLag

Init ==
    /\ DmaInit
    /\ CommsInit
    /\ state = "SETUP"
    /\ pc = "switch"
    /\ threadsRunning = FALSE
    /\ DMAthreadRunning = FALSE
    /\ rxData = "zero"
    /\ linkUp = TRUE
    /\ lag = 0

(* What the step generators of the DMA thread add for the present command. *)
Pulses == IF rxData = "move" THEN {"pulse"} ELSE {}

-----------------------------------------------------------------------------
(***************************************************************************)
(* The switch.                                                             *)
(***************************************************************************)
Case(s) ==
    /\ pc = "switch" /\ state = s
    /\ pc' = "ethernet"
    /\ lag' = 0
    /\ UNCHANGED <<commsVars, linkUp>>

Setup ==
    /\ Case("SETUP")
    /\ state' = "START"
    /\ UNCHANGED <<dmaVars, threadsRunning, DMAthreadRunning, rxData>>

Start ==
    /\ Case("START")
    /\ state' = "IDLE"
    /\ threadsRunning' = TRUE
    /\ UNCHANGED <<dmaVars, DMAthreadRunning, rxData>>

(* Mutant of Idle: it does not wait for data.                              *)
IdleNoWait ==
    /\ Case("IDLE")
    /\ state' = "RUNNING"
    /\ UNCHANGED <<dmaVars, threadsRunning, DMAthreadRunning, rxData>>

Idle ==
    /\ Case("IDLE")
    /\ state' = IF status THEN "RUNNING" ELSE "IDLE"
    /\ UNCHANGED <<dmaVars, threadsRunning, DMAthreadRunning, rxData>>

Running ==
    /\ Case("RUNNING")
    /\ IF HasDMAthread /\ ~DMAthreadRunning
         THEN RunAndStart(Pulses) /\ DMAthreadRunning' = TRUE
         ELSE UNCHANGED <<dmaVars, DMAthreadRunning>>
    /\ state' = IF status THEN "RUNNING" ELSE "RESET"
    /\ UNCHANGED <<threadsRunning, rxData>>

(* Mutants of Reset: the commands stay, the channel goes on, and the flag  *)
(* of the DMA thread stays set.                                            *)
ResetKeepsData ==
    /\ Case("RESET")
    /\ IF DMAthreadRunning
         THEN StopThread /\ DMAthreadRunning' = FALSE
         ELSE UNCHANGED <<dmaVars, DMAthreadRunning>>
    /\ state' = "IDLE"
    /\ UNCHANGED <<threadsRunning, rxData>>
ResetKeepsPlaying ==
    /\ Case("RESET")
    /\ rxData' = "zero"
    /\ state' = "IDLE"
    /\ UNCHANGED <<dmaVars, threadsRunning, DMAthreadRunning>>
ResetKeepsFlag ==
    /\ Case("RESET")
    /\ rxData' = "zero"
    /\ IF playing THEN StopThread ELSE UNCHANGED dmaVars
    /\ state' = "IDLE"
    /\ UNCHANGED <<threadsRunning, DMAthreadRunning>>

Reset ==
    /\ Case("RESET")
    /\ rxData' = "zero"
    /\ IF DMAthreadRunning
         THEN StopThread /\ DMAthreadRunning' = FALSE
         ELSE UNCHANGED <<dmaVars, DMAthreadRunning>>
    /\ state' = "IDLE"
    /\ UNCHANGED threadsRunning

(***************************************************************************)
(* EthernetTasks handles at most one packet, which exists from the end of  *)
(* SETUP on, when udpServer_init has run.                                  *)
(***************************************************************************)
NoPacket ==
    /\ pc = "ethernet" /\ pc' = "poll"
    /\ UNCHANGED <<dmaVars, commsVars, state, threadsRunning, DMAthreadRunning,
                   rxData, linkUp, lag>>

ReadPacket ==
    /\ pc = "ethernet" /\ pc' = "poll"
    /\ linkUp
    /\ DataReceived
    /\ UNCHANGED <<dmaVars, state, threadsRunning, DMAthreadRunning,
                   rxData, linkUp, lag>>

(* The copy into rxData is made with the interrupts off.                   *)
WritePacket ==
    /\ pc = "ethernet" /\ pc' = "poll"
    /\ linkUp
    /\ DataReceived
    /\ rxData' \in Commands
    /\ UNCHANGED <<dmaVars, state, threadsRunning, DMAthreadRunning, linkUp, lag>>

(***************************************************************************)
(* The service of the DMA thread.                                          *)
(***************************************************************************)
Service(from, to) ==
    /\ pc = from /\ pc' = to
    /\ UNCHANGED <<commsVars, state, threadsRunning, DMAthreadRunning, rxData,
                   linkUp, lag>>

TestDone ==
    /\ Service("poll", IF done THEN "update" ELSE "switch")
    /\ UNCHANGED dmaVars

Update == Service("update", "run") /\ UpdateBuffers
RunModules == Service("run", "clear") /\ Run(Pulses)
Clear == Service("clear", "switch") /\ ClearDone

-----------------------------------------------------------------------------
(***************************************************************************)
(* The interrupts and the network.                                         *)
(***************************************************************************)
ServoTick ==
    /\ threadsRunning
    /\ lag < MaxLag
    /\ lag' = lag + 1
    /\ CommsUpdate
    /\ UNCHANGED <<dmaVars, state, pc, threadsRunning, DMAthreadRunning, rxData,
                   linkUp>>

BufferEnd == MajorComplete /\ UNCHANGED <<commsVars, loopVars>>

LinkDown ==
    /\ linkUp /\ linkUp' = FALSE
    /\ UNCHANGED <<dmaVars, commsVars, state, pc, threadsRunning,
                   DMAthreadRunning, rxData, lag>>

MainLoop ==
    \/ Setup \/ Start \/ Idle \/ Running \/ Reset
    \/ NoPacket \/ ReadPacket \/ WritePacket
    \/ TestDone \/ Update \/ RunModules \/ Clear

Next == MainLoop \/ ServoTick \/ BufferEnd \/ LinkDown

(* The main loop never blocks and the timers never stop.                   *)
Spec == Init /\ [][Next]_vars /\ WF_vars(MainLoop) /\ WF_vars(ServoTick)

-----------------------------------------------------------------------------
(***************************************************************************)
(* Properties.                                                             *)
(***************************************************************************)

(* The base thread's step generators follow rxData whatever the state of   *)
(* the main loop; the DMA thread plays its buffers.                        *)
Stopped == rxData = "zero" /\ ~playing

(* The longest a machine goes on after the last packet: the watchdog       *)
(* notices after DataErrMax + 1 updates, the main loop sees it in RUNNING  *)
(* and acts on it in RESET, each up to one iteration later, also when the  *)
(* status came and went while it was on its way from IDLE (:569-645).      *)
StopsInTime == silent > DataErrMax + 2 * MaxLag /\ ~data => Stopped

(* The main loop enters RUNNING only on data that is at most DataErrMax    *)
(* updates old (:577, "wait for data before changing to running state").   *)
RunsOnData ==
    [][state # "RUNNING" /\ state' = "RUNNING" => silent <= DataErrMax]_vars

(* When the network dies for good, everything stops for good: no stale     *)
(* command stays in rxData and the DMA thread is not started again.        *)
SilenceStops == <>[](~linkUp) => <>[]Stopped

(* As long as the watchdog is content the DMA thread is kept running.      *)
DataRuns == <>[]status => <>[](state = "RUNNING" /\ playing)
=============================================================================
