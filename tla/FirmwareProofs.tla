--------------------------- MODULE FirmwareProofs ---------------------------
(***************************************************************************)
(* Proofs about the watchdog, the main loop and the DMA thread, for every  *)
(* watchdog limit and every MaxLag that LagAssumption allows, and every    *)
(* bound on the fills and the sessions of the thread.                      *)
(*                                                                         *)
(* StopsInTime is not inductive: how old the last data may be depends on   *)
(* the state of the main loop and on how many updates the present          *)
(* iteration has seen, and a packet that the watchdog has not noticed yet  *)
(* excuses a command in START and IDLE.  Nor is InOrder: it needs to know  *)
(* what the buffer that is not being played holds, which depends on how    *)
(* far the main loop is in serving the last completion.                    *)
(***************************************************************************)
EXTENDS Firmware, DmaService, TLAPS

-----------------------------------------------------------------------------
(***************************************************************************)
(* The watchdog, for every DataErrMax and every counter width that can     *)
(* count past it, when the status starts as FALSE.  While the status is    *)
(* true the counter is the age of the last data; while it is false the     *)
(* counter runs on and means nothing.                                      *)
(***************************************************************************)
CommsInv ==
    /\ CommsTypeOK
    /\ status => noDataCount = silent /\ silent <= DataErrMax
    /\ ~status => silent > DataErrMax

LEMMA CommsInitInv == ASSUME PowerUpStatus = {FALSE} PROVE CommsInit => CommsInv
  <1> SUFFICES ASSUME PowerUpStatus = {FALSE}, CommsInit PROVE CommsInv
    OBVIOUS
  <1>1. status = FALSE /\ data = FALSE /\ noDataCount = 0 /\ silent = MaxSilent
    BY DEF CommsInit
  <1>2. /\ 0 \in 0..DataErrMax
        /\ MaxSilent \in 0..MaxSilent
        /\ MaxSilent > DataErrMax
    BY CommsAssumption
  <1> QED
    BY <1>1, <1>2 DEF CommsInv, CommsTypeOK

(* The counter never reaches the width of its type, so nothing wraps.      *)
LEMMA MissedRange ==
  ASSUME CommsInv
  PROVE  Missed = IF data THEN 0 ELSE noDataCount + 1
  <1>1. noDataCount + 1 \in 0..CountMod - 1 /\ CountMod \in Nat \ {0}
    BY CommsAssumption DEF CommsInv, CommsTypeOK
  <1>2. (noDataCount + 1) % CountMod = noDataCount + 1
    BY <1>1
  <1> QED
    BY <1>2 DEF Missed

LEMMA CommsUpdateInv == CommsInv /\ CommsUpdate => CommsInv'
  <1> SUFFICES ASSUME CommsInv, CommsUpdate PROVE CommsInv'
    OBVIOUS
  <1>1. Missed = IF data THEN 0 ELSE noDataCount + 1
    BY MissedRange
  <1> HIDE DEF Missed
  <1>t. /\ silent \in Nat /\ silent <= MaxSilent
        /\ noDataCount \in Nat /\ noDataCount <= DataErrMax
        /\ DataErrMax \in Nat /\ MaxSilent \in Nat /\ DataErrMax < MaxSilent
    BY CommsAssumption DEF CommsInv, CommsTypeOK
  <1>d. data' = FALSE
    BY DEF CommsUpdate
  <1>n. noDataCount' = IF Missed > DataErrMax THEN 0 ELSE Missed
    BY DEF CommsUpdate
  <1>2. CASE data
    <2>1. Missed = 0
      BY <1>1, <1>2
    <2>2. ~(Missed > DataErrMax)
      BY <2>1, <1>t
    <2>3. status' = TRUE /\ silent' = 0
      BY <1>2, <2>2, Zenon DEF CommsUpdate
    <2>4. noDataCount' = 0
      BY <1>n, <2>1, <2>2, Zenon
    <2>5. 0 \in 0..DataErrMax /\ 0 \in 0..MaxSilent /\ 0 <= DataErrMax
      BY <1>t
    <2> QED
      BY <1>d, <2>3, <2>4, <2>5 DEF CommsInv, CommsTypeOK
  <1>3. CASE ~data
    <2>1. silent' = IF silent < MaxSilent THEN silent + 1 ELSE silent
      BY <1>3, Zenon DEF CommsUpdate
    <2>2. noDataCount' \in 0..DataErrMax /\ silent' \in 0..MaxSilent
      BY <1>1, <1>3, <1>t, <1>n, <2>1
    <2>3. CASE status
      <3>1. Missed = silent + 1 /\ silent <= DataErrMax /\ silent' = silent + 1
        BY <1>1, <1>3, <1>t, <2>1, <2>3 DEF CommsInv
      <3>2. CASE Missed > DataErrMax
        <4>1. status' = FALSE
          BY <3>2, Zenon DEF CommsUpdate
        <4>2. silent' > DataErrMax
          BY <3>1, <3>2
        <4> QED
          BY <4>1, <4>2, <1>d, <2>2 DEF CommsInv, CommsTypeOK
      <3>3. CASE ~(Missed > DataErrMax)
        <4>1. status' = TRUE
          BY <1>3, <2>3, <3>3, Zenon DEF CommsUpdate, CommsInv, CommsTypeOK
        <4>2. noDataCount' = silent' /\ silent' <= DataErrMax
          BY <1>n, <1>t, <3>1, <3>3
        <4> QED
          BY <4>1, <4>2, <1>d, <2>2 DEF CommsInv, CommsTypeOK
      <3> QED
        BY <3>2, <3>3
    <2>4. CASE ~status
      <3>1. status' = FALSE
        BY <1>3, <2>4, Zenon DEF CommsUpdate, CommsInv, CommsTypeOK
      <3>2. silent' > DataErrMax
        BY <2>1, <2>4, <1>t DEF CommsInv
      <3> QED
        BY <3>1, <3>2, <1>d, <2>2 DEF CommsInv, CommsTypeOK
    <2> QED
      BY <2>3, <2>4
  <1> QED
    BY <1>2, <1>3

LEMMA DataReceivedInv == CommsInv /\ DataReceived => CommsInv'
  BY DEF CommsInv, CommsTypeOK, DataReceived

LEMMA CommsSame == CommsInv /\ UNCHANGED commsVars => CommsInv'
  BY DEF CommsInv, CommsTypeOK, commsVars

LEMMA CommsInvMeans == CommsInv => StatusMeansData
  BY CommsAssumption DEF CommsInv, CommsTypeOK, StatusMeansData

(* The status tells exactly whether the last data is at most DataErrMax    *)
(* updates old.                                                            *)
THEOREM StatusMeansDataCorrect ==
  ASSUME PowerUpStatus = {FALSE} PROVE CommsSpec => []StatusMeansData
  <1>1. CommsInv /\ [CommsUpdate \/ DataReceived]_commsVars => CommsInv'
    BY CommsUpdateInv, DataReceivedInv, CommsSame
  <1> QED
    BY <1>1, CommsInitInv, CommsInvMeans, PTL DEF CommsSpec

-----------------------------------------------------------------------------
(***************************************************************************)
(* The main loop.                                                          *)
(***************************************************************************)

(* The age of the last data in each state.                                 *)
Age ==
    /\ state = "SETUP" => rxData = "zero" /\ pc = "switch"
    /\ state \in {"SETUP", "START"} => ~threadsRunning
    /\ state = "START" => rxData = "zero" \/ data
    /\ state = "IDLE" => rxData = "zero" \/ data \/ silent < lag
    /\ state = "RUNNING" => silent <= DataErrMax + lag
    /\ state = "RESET" => silent <= DataErrMax + MaxLag + lag

(* The DMA thread runs in RUNNING and until RESET has stopped it.          *)
DmaStates ==
    /\ playing <=> DMAthreadRunning
    /\ playing => state \in {"RUNNING", "RESET"}

IInv == TypeOK /\ CommsInv /\ Age /\ DmaStates

LEMMA Constants ==
  /\ DataErrMax \in Nat /\ MaxLag \in Nat /\ MaxSilent \in Nat
  /\ MaxLag >= 1 /\ MaxLag <= DataErrMax + 1
  BY FirmwareAssumption, LagAssumption, CommsAssumption

LEMMA TypeInit == ASSUME PowerUpStatus = {FALSE} PROVE Init => TypeOK
  <1> SUFFICES ASSUME Init, PowerUpStatus = {FALSE} PROVE TypeOK
    OBVIOUS
  <1>1. DmaTypeOK({"pulse"})
    <2>1. [b \in Buffers |-> {}] \in [Buffers -> SUBSET {"pulse"}]
      OBVIOUS
    <2> QED
      BY <2>1 DEF Init, DmaInit, DmaTypeOK, Buffers
  <1>2. CommsTypeOK
    BY CommsInitInv DEF Init, CommsInv
  <1>3. 0 \in 0..MaxLag
    BY Constants
  <1>4. /\ state = "SETUP" /\ pc = "switch" /\ rxData = "zero" /\ lag = 0
        /\ threadsRunning = FALSE /\ DMAthreadRunning = FALSE /\ linkUp = TRUE
    BY DEF Init
  <1> QED
    BY <1>1, <1>2, <1>3, <1>4 DEF TypeOK, States, Commands

(* What the operations of the DMA thread do to its types.                  *)
LEMMA DmaTypes ==
  ASSUME DmaTypeOK({"pulse"}),
         \/ UNCHANGED dmaVars \/ MajorComplete \/ UpdateBuffers \/ Run(Pulses)
         \/ ClearDone \/ RunAndStart(Pulses) \/ StopThread
  PROVE  DmaTypeOK({"pulse"})'
  <1> USE DEF DmaTypeOK, Buffers, Other
  <1>p. Pulses \subseteq {"pulse"}
    BY DEF Pulses
  <1>1. CASE UNCHANGED dmaVars
    BY <1>1 DEF dmaVars
  <1>2. CASE MajorComplete
    BY <1>2 DEF MajorComplete
  <1>3. CASE UpdateBuffers
    BY <1>3 DEF UpdateBuffers
  <1>4. CASE Run(Pulses)
    BY <1>4, <1>p DEF Run
  <1>5. CASE ClearDone
    BY <1>5 DEF ClearDone
  <1>6. CASE RunAndStart(Pulses)
    BY <1>6, <1>p DEF RunAndStart
  <1>7. CASE StopThread
    BY <1>7 DEF StopThread
  <1> QED
    BY <1>1, <1>2, <1>3, <1>4, <1>5, <1>6, <1>7

(* Every step does to the DMA thread one of its operations ...             *)
LEMMA DmaOps ==
  ASSUME [Next]_vars
  PROVE  \/ UNCHANGED dmaVars \/ MajorComplete \/ UpdateBuffers \/ Run(Pulses)
         \/ ClearDone \/ RunAndStart(Pulses) \/ StopThread
  BY DEF Next, MainLoop, vars, Setup, Start, Idle, Running, Reset, NoPacket,
     ReadPacket, WritePacket, TestDone, Update, RunModules, Clear, ServoTick,
     BufferEnd, LinkDown, dmaVars

(* ... and to the watchdog one of its operations.                          *)
LEMMA CommsOps ==
  ASSUME [Next]_vars
  PROVE  UNCHANGED commsVars \/ CommsUpdate \/ DataReceived
  BY DEF Next, MainLoop, vars, Setup, Start, Idle, Running, Reset, Case,
     NoPacket, ReadPacket, WritePacket, Service, TestDone, Update, RunModules,
     Clear, ServoTick, BufferEnd, LinkDown

LEMMA CommsStep == CommsInv /\ [Next]_vars => CommsInv'
  BY CommsOps, CommsUpdateInv, DataReceivedInv, CommsSame

LEMMA TypeStep == TypeOK /\ CommsInv /\ [Next]_vars => TypeOK'
  <1> SUFFICES ASSUME TypeOK, CommsInv, [Next]_vars PROVE TypeOK'
    OBVIOUS
  <1>1. DmaTypeOK({"pulse"})' /\ CommsTypeOK'
    BY DmaOps, DmaTypes, CommsStep DEF TypeOK, CommsInv
  <1>2. /\ state' \in States /\ threadsRunning' \in BOOLEAN
        /\ DMAthreadRunning' \in BOOLEAN /\ rxData' \in Commands
        /\ linkUp' \in BOOLEAN /\ lag' \in 0..MaxLag
        /\ pc' \in {"switch", "ethernet", "poll", "update", "run", "clear"}
    <2>z. 0 \in 0..MaxLag /\ (lag \in 0..MaxLag /\ lag < MaxLag
                                 => lag + 1 \in 0..MaxLag)
      BY Constants
    <2> USE <2>z DEF TypeOK, States, Commands
    <2>1. CASE Setup \/ Start \/ Idle
      BY <2>1 DEF Setup, Start, Idle, Case
    <2>2. CASE Running
      BY <2>2 DEF Running, Case
    <2>3. CASE Reset
      BY <2>3 DEF Reset, Case
    <2>4. CASE NoPacket \/ ReadPacket \/ WritePacket
      BY <2>4 DEF NoPacket, ReadPacket, WritePacket
    <2>5. CASE TestDone \/ Update \/ RunModules \/ Clear
      BY <2>5 DEF TestDone, Update, RunModules, Clear, Service
    <2>6. CASE ServoTick
      BY <2>6 DEF ServoTick
    <2>7. CASE BufferEnd \/ LinkDown \/ UNCHANGED vars
      BY <2>7 DEF BufferEnd, LinkDown, vars, loopVars
    <2> QED
      BY <2>1, <2>2, <2>3, <2>4, <2>5, <2>6, <2>7 DEF Next, MainLoop
  <1> QED
    BY <1>1, <1>2 DEF TypeOK

LEMMA DmaStatesStep == TypeOK /\ DmaStates /\ [Next]_vars => DmaStates'
  <1> SUFFICES ASSUME TypeOK, DmaStates, [Next]_vars PROVE DmaStates'
    OBVIOUS
  <1> USE DEF TypeOK, DmaStates, dmaVars
  <1>1. CASE Setup \/ Start \/ Idle
    BY <1>1 DEF Setup, Start, Idle, Case
  <1>2. CASE Running
    BY <1>2 DEF Running, Case, RunAndStart
  <1>3. CASE Reset
    BY <1>3 DEF Reset, Case, StopThread
  <1>4. CASE NoPacket \/ ReadPacket \/ WritePacket \/ ServoTick \/ LinkDown
    BY <1>4 DEF NoPacket, ReadPacket, WritePacket, ServoTick, LinkDown
  <1>5. CASE TestDone \/ Update \/ RunModules \/ Clear \/ BufferEnd
    BY <1>5 DEF TestDone, Update, RunModules, Clear, BufferEnd, Service,
       UpdateBuffers, Run, ClearDone, MajorComplete, loopVars
  <1>6. CASE UNCHANGED vars
    BY <1>6 DEF vars, loopVars
  <1> QED
    BY <1>1, <1>2, <1>3, <1>4, <1>5, <1>6 DEF Next, MainLoop

LEMMA AgeStep == IInv /\ [Next]_vars => Age'
  <1> SUFFICES ASSUME IInv, [Next]_vars PROVE Age'
    OBVIOUS
  <1>t. silent \in Nat /\ lag \in Nat /\ lag <= MaxLag
    BY Constants DEF IInv, TypeOK, CommsTypeOK
  <1> USE <1>t, Constants DEF IInv, Age, commsVars
  <1>1. CASE Setup
    BY <1>1 DEF Setup, Case
  <1>2. CASE Start
    BY <1>2 DEF Start, Case
  <1>3. CASE Idle
    BY <1>3 DEF Idle, Case, CommsInv
  <1>4. CASE Running
    BY <1>4 DEF Running, Case, CommsInv
  <1>5. CASE Reset
    BY <1>5 DEF Reset, Case
  <1>6. CASE NoPacket \/ ReadPacket \/ WritePacket
    BY <1>6 DEF NoPacket, ReadPacket, WritePacket, DataReceived
  <1>7. CASE TestDone \/ Update \/ RunModules \/ Clear
    BY <1>7 DEF TestDone, Update, RunModules, Clear, Service
  <1>8. CASE ServoTick
    <2>1. lag' = lag + 1 /\ UNCHANGED <<state, pc, threadsRunning, rxData>>
      BY <1>8 DEF ServoTick
    <2>2. threadsRunning
      BY <1>8 DEF ServoTick
    <2>3. IF data THEN silent' = 0 ELSE silent' = silent \/ silent' = silent + 1
      BY <1>8 DEF ServoTick, CommsUpdate
    <2> QED
      BY <2>1, <2>2, <2>3
  <1>9. CASE BufferEnd \/ LinkDown \/ UNCHANGED vars
    BY <1>9 DEF BufferEnd, LinkDown, vars, loopVars
  <1> QED
    BY <1>1, <1>2, <1>3, <1>4, <1>5, <1>6, <1>7, <1>8, <1>9 DEF Next, MainLoop

LEMMA InitIInv == ASSUME PowerUpStatus = {FALSE} PROVE Init => IInv
  <1>1. Init => Age /\ DmaStates
    BY DEF Init, DmaInit, Age, DmaStates
  <1> QED
    BY <1>1, TypeInit, CommsInitInv DEF Init, IInv

LEMMA Invariant == ASSUME PowerUpStatus = {FALSE} PROVE Spec => []IInv
  <1>1. IInv /\ [Next]_vars => IInv'
    BY TypeStep, CommsStep, AgeStep, DmaStatesStep DEF IInv
  <1> QED
    BY <1>1, InitIInv, PTL DEF Spec

(* The variables of the main loop and its parts keep their types.          *)
THEOREM TypeCorrect == ASSUME PowerUpStatus = {FALSE} PROVE Spec => []TypeOK
  <1>1. IInv => TypeOK
    BY DEF IInv
  <1> QED
    BY <1>1, Invariant, PTL

(* Nothing moves once the last data is older than the watchdog's limit and *)
(* two iterations of the main loop, for every limit.                       *)
THEOREM StopsInTimeCorrect ==
  ASSUME PowerUpStatus = {FALSE} PROVE Spec => []StopsInTime
  <1>1. ASSUME IInv, silent > DataErrMax + 2 * MaxLag, ~data PROVE Stopped
    <2>1. silent \in Nat /\ lag \in Nat /\ lag <= MaxLag
      BY <1>1, Constants DEF IInv, TypeOK, CommsTypeOK
    <2>2. state \notin {"RUNNING", "RESET"}
      BY <1>1, <2>1, Constants DEF IInv, Age
    <2>3. rxData = "zero"
      BY <1>1, <2>1, <2>2, Constants DEF IInv, Age, TypeOK, States
    <2> QED
      BY <1>1, <2>2, <2>3 DEF IInv, DmaStates, Stopped
  <1>2. IInv => StopsInTime
    BY <1>1 DEF StopsInTime
  <1> QED
    BY <1>2, Invariant, PTL

(* The main loop enters RUNNING only on fresh data.                        *)
THEOREM RunsOnDataCorrect ==
  ASSUME PowerUpStatus = {FALSE} PROVE Spec => RunsOnData
  <1>1. ASSUME IInv, [Next]_vars, state # "RUNNING", state' = "RUNNING"
        PROVE  silent <= DataErrMax
    <2>1. Idle
      BY <1>1 DEF Next, MainLoop, vars, loopVars, Setup, Start, Running, Reset,
         Case, NoPacket, ReadPacket, WritePacket, Service, TestDone, Update,
         RunModules, Clear, ServoTick, BufferEnd, LinkDown
    <2> QED
      BY <1>1, <2>1 DEF Idle, IInv, CommsInv
  <1>2. IInv /\ [Next]_vars
          => [state # "RUNNING" /\ state' = "RUNNING" => silent <= DataErrMax]_vars
    BY <1>1
  <1> QED
    BY <1>2, Invariant, PTL DEF Spec, RunsOnData
-----------------------------------------------------------------------------
(***************************************************************************)
(* The buffers, under the whole main loop.                                 *)
(***************************************************************************)

(* The service runs on a completion only, and between updateBuffers and    *)
(* run the active buffer is the one that is not being played.              *)
Apart ==
    /\ DmaTypeOK({"pulse"})
    /\ pc \in {"update", "run", "clear"} => done
    /\ pc = "run" => active = Other(tcd)

LEMMA ApartInit == Init => Apart
  <1>1. [b \in Buffers |-> {}] \in [Buffers -> SUBSET {"pulse"}]
    OBVIOUS
  <1> QED
    BY <1>1 DEF Init, DmaInit, DmaTypeOK, Buffers, Apart

LEMMA ApartStep == ASSUME Prompt PROVE Apart /\ [Next]_vars => Apart'
  <1> SUFFICES ASSUME Apart, [Next]_vars PROVE Apart'
    OBVIOUS
  <1>1. DmaTypeOK({"pulse"})'
    BY DmaOps, DmaTypes DEF Apart
  <1>2. /\ (pc \in {"update", "run", "clear"} => done)'
        /\ (pc = "run" => active = Other(tcd))'
    <2> USE Prompt DEF Apart, Other
    <2>1. CASE Setup \/ Start \/ Idle \/ Running \/ Reset
      BY <2>1 DEF Setup, Start, Idle, Running, Reset, Case
    <2>2. CASE NoPacket \/ ReadPacket \/ WritePacket
      BY <2>2 DEF NoPacket, ReadPacket, WritePacket
    <2>3. CASE TestDone \/ Update \/ RunModules \/ Clear
      BY <2>3 DEF TestDone, Update, RunModules, Clear, Service, UpdateBuffers,
         Run, ClearDone, dmaVars
    <2>4. CASE BufferEnd
      BY <2>4 DEF BufferEnd, MajorComplete, loopVars
    <2>5. CASE ServoTick \/ LinkDown \/ UNCHANGED vars
      BY <2>5 DEF ServoTick, LinkDown, vars, loopVars, dmaVars
    <2> QED
      BY <2>1, <2>2, <2>3, <2>4, <2>5 DEF Next, MainLoop
  <1> QED
    BY <1>1, <1>2 DEF Apart

(* A step of the main loop that writes a buffer leaves the one that is     *)
(* being played alone.                                                     *)
LEMMA ApartStable ==
  ASSUME Apart, [Next]_vars, playing, tcd' = tcd
  PROVE  buf'[tcd] = buf[tcd]
  <1> USE DEF Apart, DmaTypeOK, Buffers, Other
  <1>1. CASE Update
    BY <1>1 DEF Update, UpdateBuffers
  <1>2. CASE RunModules
    BY <1>2 DEF RunModules, Service, Run
  <1>3. CASE Running
    BY <1>3 DEF Running, RunAndStart, dmaVars
  <1>4. CASE Reset
    BY <1>4 DEF Reset, StopThread, dmaVars
  <1>5. CASE Setup \/ Start \/ Idle \/ NoPacket \/ ReadPacket \/ WritePacket
    BY <1>5 DEF Setup, Start, Idle, NoPacket, ReadPacket, WritePacket, dmaVars
  <1>6. CASE TestDone \/ Clear \/ ServoTick \/ BufferEnd \/ LinkDown
    BY <1>6 DEF TestDone, Clear, ClearDone, ServoTick, BufferEnd,
       MajorComplete, LinkDown, dmaVars
  <1>7. CASE UNCHANGED vars
    BY <1>7 DEF vars, dmaVars
  <1> QED
    BY <1>1, <1>2, <1>3, <1>4, <1>5, <1>6, <1>7 DEF Next, MainLoop

(* Under the whole main loop, with its states, packets and interrupts, a   *)
(* start, a stop or a service never writes the buffer the channel reads,   *)
(* as long as the completions are served in time.                          *)
THEOREM BuffersApartCorrect == ASSUME Prompt PROVE Spec => PlayingBufferStable
  <1>1. Apart /\ [Next]_vars
           => [playing /\ playing' /\ tcd' = tcd => buf'[tcd] = buf[tcd]]_dmaVars
    BY ApartStable
  <1> QED
    BY <1>1, ApartInit, ApartStep, PTL DEF Spec, PlayingBufferStable

-----------------------------------------------------------------------------
(***************************************************************************)
(* The DMA thread by itself (DmaService), with its fills numbered.         *)
(***************************************************************************)

(* The other buffer has been filled for the next period.                   *)
Ready == ~(done /\ stage # "clear")

(* The service only runs on a completion, and a session starts served.     *)
Serving ==
    /\ stage \in {"update", "run", "clear"} => done
    /\ stage = "switch" /\ ~playing => ~done

(* Between updateBuffers and run the active buffer is empty, and while the *)
(* main loop keeps up it is the one that is not being played.              *)
Cleared ==
    stage = "run" => buf[active] = {} /\ (onTime >= 1 => active = Other(tcd))

(* One fill per period, and one ahead when the completion has been served. *)
Counting ==
    playing /\ onTime >= 1 => fills = base + onTime - (IF Ready THEN 0 ELSE 1)

(* What the next period will play.                                         *)
NextPeriod ==
    playing /\ onTime >= 1 /\ Ready => buf[Other(tcd)] = {base + onTime}

(* A fill has the number of a fill made.                                   *)
Numbered == \A b \in Buffers : \A n \in buf[b] : n <= fills

ServiceIInv ==
    /\ ServiceTypeOK /\ Serving /\ Cleared /\ Counting /\ NextPeriod /\ InOrder
    /\ Numbered /\ NotMerged

LEMMA ServiceInitIInv == ServiceInit => ServiceIInv
  <1>1. ASSUME ServiceInit PROVE ServiceTypeOK
    <2>1. [b \in Buffers |-> {}] \in [Buffers -> SUBSET Fills]
      OBVIOUS
    <2>2. DmaTypeOK(Fills)
      BY <1>1, <2>1 DEF ServiceInit, DmaInit, DmaTypeOK, Buffers
    <2> QED
      BY <1>1, <2>2, BoundsAssumption DEF ServiceInit, ServiceTypeOK
  <1>2. ServiceInit => Serving /\ Cleared /\ Counting /\ NextPeriod /\ InOrder
    BY DEF ServiceInit, DmaInit, Serving, Cleared, Counting, NextPeriod, InOrder
  <1>3. ServiceInit => Numbered /\ NotMerged
    BY DEF ServiceInit, DmaInit, Numbered, NotMerged, Buffers
  <1> QED
    BY <1>1, <1>2, <1>3 DEF ServiceIInv

(* The state of the thread stays in its types, Prompt or not.              *)
LEMMA ServiceTypeStep == ServiceTypeOK /\ [ServiceNext]_serviceVars => ServiceTypeOK'
  <1> SUFFICES ASSUME ServiceTypeOK, [ServiceNext]_serviceVars PROVE ServiceTypeOK'
    OBVIOUS
  <1> USE BoundsAssumption DEF ServiceTypeOK, DmaTypeOK, Buffers, Fills, Other
  <1>1. CASE BeginSession
    BY <1>1 DEF BeginSession, RunAndStart
  <1>2. CASE EndSession
    BY <1>2 DEF EndSession, StopThread, ghosts
  <1>3. CASE Pass
    BY <1>3 DEF Pass, dmaVars, ghosts
  <1>4. CASE ServiceTest
    BY <1>4 DEF ServiceTest, dmaVars, ghosts
  <1>5. CASE ServiceUpdate
    BY <1>5 DEF ServiceUpdate, UpdateBuffers, ghosts
  <1>6. CASE ServiceRun
    BY <1>6 DEF ServiceRun, Run
  <1>7. CASE ServiceClear
    BY <1>7 DEF ServiceClear, ClearDone, ghosts
  <1>8. CASE Complete
    BY <1>8 DEF Complete, MajorComplete
  <1>9. CASE UNCHANGED serviceVars
    BY <1>9 DEF serviceVars, dmaVars, ghosts
  <1> QED
    BY <1>1, <1>2, <1>3, <1>4, <1>5, <1>6, <1>7, <1>8, <1>9
       DEF ServiceNext, ServiceLoop

(* The DMA thread's variables keep their types in every behaviour.         *)
THEOREM ServiceTypeCorrect == ServiceSpec => []ServiceTypeOK
  <1>1. ServiceInit => ServiceTypeOK
    BY ServiceInitIInv DEF ServiceIInv
  <1> QED
    BY <1>1, ServiceTypeStep, PTL DEF ServiceSpec

(* Where the main loop is and what the buffers hold while it keeps up.     *)
LEMMA ServiceStepOrder ==
  ServiceIInv /\ [ServiceNext]_serviceVars
    => (Serving /\ Cleared /\ Counting /\ NextPeriod /\ InOrder)'
  <1> SUFFICES ASSUME ServiceIInv, [ServiceNext]_serviceVars
               PROVE  (Serving /\ Cleared /\ Counting /\ NextPeriod /\ InOrder)'
    OBVIOUS
  <1>t. ServiceTypeOK /\ ServiceTypeOK'
    BY ServiceTypeStep DEF ServiceIInv
  <1> USE <1>t
      DEF ServiceIInv, Serving, Cleared, Counting, NextPeriod, InOrder, Ready,
          ServiceTypeOK, DmaTypeOK, Buffers, Other
  <1>1. CASE BeginSession
    BY <1>1 DEF BeginSession, RunAndStart
  <1>2. CASE EndSession
    BY <1>2 DEF EndSession, StopThread, ghosts
  <1>3. CASE Pass
    BY <1>3 DEF Pass, dmaVars, ghosts
  <1>4. CASE ServiceTest
    BY <1>4 DEF ServiceTest, dmaVars, ghosts
  <1>5. CASE ServiceUpdate
    BY <1>5 DEF ServiceUpdate, UpdateBuffers, ghosts
  <1>6. CASE ServiceRun
    BY <1>6 DEF ServiceRun, Run
  <1>7. CASE ServiceClear
    BY <1>7 DEF ServiceClear, ClearDone, ghosts
  <1>8. CASE Complete
    BY <1>8 DEF Complete, MajorComplete
  <1>9. CASE UNCHANGED serviceVars
    BY <1>9 DEF serviceVars, dmaVars, ghosts
  <1> QED
    BY <1>1, <1>2, <1>3, <1>4, <1>5, <1>6, <1>7, <1>8, <1>9
       DEF ServiceNext, ServiceLoop

(* A fill has a number above all others and goes to a buffer that is empty *)
(* or, at a start, holds nothing of the session.                           *)
LEMMA ServiceStepMerged ==
  ServiceIInv /\ [ServiceNext]_serviceVars => (Numbered /\ NotMerged)'
  <1> SUFFICES ASSUME ServiceIInv, [ServiceNext]_serviceVars
               PROVE  (Numbered /\ NotMerged)'
    OBVIOUS
  <1>t. ServiceTypeOK /\ ServiceTypeOK'
    BY ServiceTypeStep DEF ServiceIInv
  <1> USE <1>t
      DEF ServiceIInv, Numbered, NotMerged, ServiceTypeOK, DmaTypeOK, Buffers, Fills
  <1>1. CASE BeginSession
    BY <1>1 DEF BeginSession, RunAndStart
  <1>2. CASE ServiceUpdate
    BY <1>2 DEF ServiceUpdate, UpdateBuffers, Other, ghosts
  <1>3. CASE ServiceRun
    BY <1>3 DEF ServiceRun, Run, Cleared
  <1>4. CASE \/ EndSession \/ Pass \/ ServiceTest \/ ServiceClear \/ Complete
             \/ UNCHANGED serviceVars
    <2>1. UNCHANGED <<buf, fills, born>>
      BY <1>4 DEF EndSession, StopThread, Pass, ServiceTest, ServiceClear,
         ClearDone, Complete, MajorComplete, serviceVars, dmaVars, ghosts
    <2> QED
      BY <2>1
  <1> QED
    BY <1>1, <1>2, <1>3, <1>4 DEF ServiceNext, ServiceLoop

LEMMA ServiceStepIInv == ServiceIInv /\ [ServiceNext]_serviceVars => ServiceIInv'
  BY ServiceTypeStep, ServiceStepOrder, ServiceStepMerged DEF ServiceIInv

LEMMA ServiceInvariant == ServiceSpec => []ServiceIInv
  BY ServiceInitIInv, ServiceStepIInv, PTL DEF ServiceSpec

(* While the main loop keeps up, every period plays exactly the fill made  *)
(* for it, for every number of fills and restarts, and after two ends in   *)
(* time also when it has been late before.                                 *)
THEOREM InOrderCorrect == ServiceSpec => []InOrder
  <1>1. ServiceIInv => InOrder
    BY DEF ServiceIInv
  <1> QED
    BY <1>1, ServiceInvariant, PTL

(* However late the main loop is, two fills are never merged.              *)
THEOREM NotMergedCorrect == ServiceSpec => []NotMerged
  <1>1. ServiceIInv => NotMerged
    BY DEF ServiceIInv
  <1> QED
    BY <1>1, ServiceInvariant, PTL

-----------------------------------------------------------------------------
(***************************************************************************)
(* The refinement.                                                         *)
(***************************************************************************)

(* Whatever the buffers hold is a set of fills.                            *)
LEMMA HeldFills ==
  ASSUME ServiceTypeOK'
  PROVE  Current' \in SUBSET Fills /\ Queued' \in SUBSET Fills
  <1>1. tcd' \in {0, 1} /\ buf' \in [{0, 1} -> SUBSET Fills]
    BY DEF ServiceTypeOK, DmaTypeOK, Buffers
  <1>2. Other(tcd)' \in {0, 1}
    <2>1. tcd' = 0 \/ tcd' = 1
      BY <1>1, Zenon
    <2> QED
      BY ONLY <2>1 DEF Other
  <1>3. \A b \in {0, 1} : buf'[b] \in SUBSET Fills
    BY <1>1, Zenon
  <1>4. buf'[tcd'] \in SUBSET Fills /\ buf'[Other(tcd)'] \in SUBSET Fills
    BY <1>1, <1>2, <1>3, Zenon
  <1>5. {} \in SUBSET Fills
    OBVIOUS
  <1> QED
    BY <1>4, <1>5, Zenon DEF Current, Queued, ReadyFor

LEMMA StreamInit == ServiceInit => Stream!Init
  BY DEF ServiceInit, DmaInit, Stream!Init, Current, Queued, Late

(* Start and Stop begin and end a session; an end in time advances it and  *)
(* a late one makes it slip, as does a fill until the next end in time;    *)
(* any other fill is accepted, and the other steps are not visible.        *)
LEMMA StreamStep ==
  ASSUME ServiceIInv, ServiceIInv', [ServiceNext]_serviceVars
  PROVE  [Stream!Next]_(Stream!vars)
  <1> USE DEF Stream!vars, Current, Queued, Late, ReadyFor, Buffers, Other
  <1>t. ServiceTypeOK /\ ServiceTypeOK'
    BY DEF ServiceIInv
  <1> USE <1>t DEF ServiceTypeOK, DmaTypeOK
  <1>1. ASSUME BeginSession PROVE Stream!Start
    <2>1. playing' /\ ~playing /\ Late'
      BY <1>1 DEF BeginSession, RunAndStart
    <2>2. Current' \in SUBSET Fills /\ Queued' \in SUBSET Fills
      BY HeldFills
    <2> QED
      BY <2>1, <2>2 DEF Stream!Start
  <1>2. ASSUME EndSession PROVE Stream!Stop
    BY <1>2 DEF EndSession, StopThread, Stream!Stop
  <1>3. ASSUME Complete PROVE Stream!Advance \/ Stream!Slip
    <2>1. CASE ~done
      BY <1>3, <2>1
         DEF Complete, MajorComplete, Stream!Advance, ServiceIInv, Serving
    <2>2. CASE done
      <3>1. playing /\ playing' /\ Late'
        BY <1>3, <2>2 DEF Complete, MajorComplete
      <3>2. Current' \in SUBSET Fills /\ Queued' \in SUBSET Fills
        BY HeldFills
      <3> QED
        BY <3>1, <3>2 DEF Stream!Slip
    <2> QED
      BY <2>1, <2>2
  <1>4. ASSUME ServiceRun PROVE [Stream!Next]_(Stream!vars)
    <2>1. done /\ stage = "run" /\ buf[active] = {}
      BY <1>4 DEF ServiceRun, ServiceIInv, Serving, Cleared
    <2>2. CASE playing /\ onTime >= 1
      <3>1. active = Other(tcd)
        BY <2>1, <2>2 DEF ServiceIInv, Cleared
      <3>2. Queued = {} /\ Queued' = {fills + 1}
        BY <1>4, <2>1, <2>2, <3>1 DEF ServiceRun, Run
      <3>3. UNCHANGED <<playing, Late, Current>>
        BY <1>4, <2>1, <3>1 DEF ServiceRun, Run
      <3>4. fills + 1 \in Fills
        BY <1>4, BoundsAssumption DEF ServiceRun, Fills
      <3> QED
        BY <2>2, <3>2, <3>3, <3>4 DEF Stream!Accept, Stream!Next
    <2>3. CASE playing /\ onTime = 0
      <3>1. playing' /\ Late'
        BY <1>4, <2>3 DEF ServiceRun, Run
      <3>2. Current' \in SUBSET Fills /\ Queued' \in SUBSET Fills
        BY HeldFills
      <3> QED
        BY <2>3, <3>1, <3>2, <1>4 DEF Stream!Slip, Stream!Next, ServiceRun, Run
    <2>4. CASE ~playing
      BY <1>4, <2>4 DEF ServiceRun, Run
    <2>5. onTime = 0 \/ onTime >= 1
      OBVIOUS
    <2> QED
      BY ONLY <2>2, <2>3, <2>4, <2>5
  <1>5. ASSUME ServiceUpdate PROVE UNCHANGED Stream!vars
    BY <1>5 DEF ServiceUpdate, UpdateBuffers, ServiceIInv, Serving, ghosts
  <1>6. ASSUME ServiceClear PROVE UNCHANGED Stream!vars
    BY <1>6 DEF ServiceClear, ClearDone, ghosts
  <1>7. ASSUME Pass \/ ServiceTest \/ UNCHANGED serviceVars
        PROVE  UNCHANGED Stream!vars
    BY <1>7 DEF Pass, ServiceTest, serviceVars, dmaVars, ServiceIInv, Serving, ghosts
  <1> QED
    BY <1>1, <1>2, <1>3, <1>4, <1>5, <1>6, <1>7
       DEF ServiceNext, ServiceLoop, Stream!Next

(* The main loop with its double buffer, its descriptors and its flag is   *)
(* an implementation of the pulse stream, whether or not it keeps up.      *)
THEOREM StreamRefinement == ServiceSpec => IsStream
  <1>1. ServiceIInv /\ ServiceIInv' /\ [ServiceNext]_serviceVars
          => [Stream!Next]_(Stream!vars)
    BY StreamStep
  <1> QED
    BY <1>1, StreamInit, ServiceInvariant, PTL
       DEF ServiceSpec, IsStream, Stream!Spec
=============================================================================
