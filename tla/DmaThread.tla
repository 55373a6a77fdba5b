----------------------------- MODULE DmaThread -----------------------------
(***************************************************************************)
(* The DMA thread of the firmware (source/thread/dma.cpp): an eDMA channel *)
(* that copies one of two buffers, slot by slot, into GPIO1->DR_TOGGLE     *)
(* and, at the end of a buffer, loads the other descriptor by itself and   *)
(* raises an interrupt.  This module is the component: its state and its   *)
(* operations.  DmaService, Firmware and StepOutput call the operations in *)
(* the order in which the main loop does.                                  *)
(*                                                                         *)
(* What a buffer holds is a set: the modules of the thread OR their bits   *)
(* into its slots, so adding pulses is set union, and the memset to zero   *)
(* is the empty set.  What the elements are is up to the module that uses  *)
(* this one.                                                               *)
(***************************************************************************)
EXTENDS Naturals

CONSTANT
    Prompt      \* TRUE: the main loop serves a completed buffer before the
                \* next one completes (one buffer lasts 1 ms)

ASSUME PromptAssumption == Prompt \in BOOLEAN

VARIABLES
    playing,    \* the channel is enabled (EDMA_StartTransfer)
    tcd,        \* the descriptor loaded in the channel = the buffer it plays
    buf,        \* stepgenDMAbuffer_0 and stepgenDMAbuffer_1
    active,     \* stepgenDMAbuffer: the buffer the modules fill
    done        \* DMA::DMAtransferDone

dmaVars == <<playing, tcd, buf, active, done>>

Buffers == {0, 1}
Other(b) == 1 - b

DmaTypeOK(Content) ==
    /\ playing \in BOOLEAN
    /\ tcd \in Buffers
    /\ buf \in [Buffers -> SUBSET Content]
    /\ active \in Buffers
    /\ done \in BOOLEAN

(* The globals are initialised to zero; the constructor of the thread runs *)
(* configDMA, which installs descriptor 0.                                 *)
DmaInit ==
    /\ playing = FALSE
    /\ tcd = 0
    /\ buf = [b \in Buffers |-> {}]
    /\ active = 0
    /\ done = FALSE

(***************************************************************************)
(* The operations.                                                         *)
(***************************************************************************)

(* Mutants of MajorComplete: a descriptor that links to itself, and a      *)
(* second descriptor that does not link back to the first.                 *)
CompleteSame ==
    /\ playing /\ (Prompt => ~done)
    /\ done' = TRUE
    /\ UNCHANGED <<playing, tcd, buf, active>>
CompletePast ==
    /\ playing /\ (Prompt => ~done)
    /\ tcd' = tcd + 1 /\ done' = TRUE
    /\ UNCHANGED <<playing, buf, active>>

(* The end of a buffer: the channel loads the descriptor the old one links *)
(* to (0 -> 1 -> 0) and the interrupt runs EDMA_Callback.                  *)
MajorComplete ==
    /\ playing
    /\ Prompt => ~done
    /\ tcd' = Other(tcd)
    /\ done' = TRUE
    /\ UNCHANGED <<playing, buf, active>>

(* Mutants of UpdateBuffers: it takes the loaded descriptor for the next   *)
(* one, and it does not clear the buffer.                                  *)
UpdateLoaded ==
    /\ active' = tcd
    /\ buf' = [buf EXCEPT ![tcd] = {}]
    /\ UNCHANGED <<playing, tcd, done>>
UpdateNoClear ==
    /\ active' = Other(tcd)
    /\ UNCHANGED <<playing, tcd, buf, done>>

(* updateBuffers: the buffer to fill is the one the loaded descriptor      *)
(* links to; it is cleared.                                                *)
UpdateBuffers ==
    /\ active' = Other(tcd)
    /\ buf' = [buf EXCEPT ![Other(tcd)] = {}]
    /\ UNCHANGED <<playing, tcd, done>>

(* Mutant of Run: it looks up the next buffer again.                       *)
RunNext(pulses) ==
    /\ buf' = [buf EXCEPT ![Other(tcd)] = @ \cup pulses]
    /\ UNCHANGED <<playing, tcd, active, done>>

(* run: the modules of the thread add their pulses to the active buffer.   *)
Run(pulses) ==
    /\ buf' = [buf EXCEPT ![active] = @ \cup pulses]
    /\ UNCHANGED <<playing, tcd, active, done>>

ClearDone ==
    /\ done' = FALSE
    /\ UNCHANGED <<playing, tcd, buf, active>>

(* The first fill and startThread, back to back in ST_RUNNING.  Nothing    *)
(* here or before clears the buffers or chooses the active one.            *)
RunAndStart(pulses) ==
    /\ ~playing
    /\ buf' = [buf EXCEPT ![active] = @ \cup pulses]
    /\ playing' = TRUE
    /\ UNCHANGED <<tcd, active, done>>

(* stopThread: abort the transfer, reset the controller and configure it   *)
(* again, which installs descriptor 0.  The buffers, stepgenDMAbuffer and  *)
(* the done flag stay as they are.                                         *)
StopThread ==
    /\ playing
    /\ playing' = FALSE
    /\ tcd' = 0
    /\ UNCHANGED <<buf, active, done>>

(* The buffer the channel is reading never changes under it: updateBuffers *)
(* and run, which pick the buffer at different moments and from different  *)
(* state (the loaded descriptor, stepgenDMAbuffer), only ever write the    *)
(* one that is not being played (dma.cpp:78-92).                           *)
PlayingBufferStable ==
    [][playing /\ playing' /\ tcd' = tcd => buf'[tcd] = buf[tcd]]_dmaVars
=============================================================================
