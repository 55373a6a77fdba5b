----------------------------- MODULE DmaService -----------------------------
(***************************************************************************)
(* The DMA thread as the main loop drives it (source/remora-rt1052.cpp):   *)
(* at most one start or stop in the switch of an iteration, then the test  *)
(* of DMAtransferDone and, when it is set, updateBuffers, run and the      *)
(* reset of the flag, as three steps, since a buffer may end between them. *)
(* That happens when the main loop is late, by a whole period; one end is  *)
(* then lost to the main loop, because the flag is reset last, and the     *)
(* fill may go to the buffer that has just begun to play.                  *)
(*                                                                         *)
(* Every fill gets a number, so that a period that is lost, repeated,      *)
(* merged with another or played out of order can be told from the rest.   *)
(***************************************************************************)
EXTENDS DmaThread

CONSTANTS
    MaxFills,       \* bound on the fills of a behaviour
    MaxSessions     \* bound on the starts of the thread

ASSUME BoundsAssumption == MaxFills \in Nat /\ MaxSessions \in Nat

VARIABLES
    stage,      \* where the main loop is
    fills,      \* number of the last fill
    born,       \* number of the last fill before the current session
    onTime,     \* ends of this session since the last one that was late
    base,       \* number of the last fill at the first of them
    sessions    \* starts so far

ghosts == <<fills, born, onTime, base, sessions>>
serviceVars == <<dmaVars, stage, ghosts>>

Fills == 1..MaxFills

ServiceTypeOK ==
    /\ DmaTypeOK(Fills)
    /\ stage \in {"switch", "poll", "update", "run", "clear"}
    /\ fills \in 0..MaxFills
    /\ born \in 0..fills
    /\ onTime \in Nat
    /\ base \in 0..fills
    /\ sessions \in 0..MaxSessions

ServiceInit ==
    /\ DmaInit
    /\ stage = "switch"
    /\ fills = 0 /\ born = 0 /\ onTime = 0 /\ base = 0 /\ sessions = 0

(* ST_RUNNING with the thread stopped.  The numbers of the bound leave room *)
(* for the fill that a completion before it asks for.                      *)
BeginSession ==
    /\ stage = "switch"
    /\ sessions < MaxSessions /\ fills < MaxFills
    /\ RunAndStart({fills + 1})
    /\ fills' = fills + 1
    /\ born' = fills
    /\ onTime' = 0 /\ base' = base
    /\ sessions' = sessions + 1
    /\ stage' = "poll"

(* ST_RESET with the thread running.                                       *)
EndSession ==
    /\ stage = "switch"
    /\ StopThread
    /\ stage' = "poll"
    /\ UNCHANGED ghosts

(* Any other pass through the switch.                                      *)
Pass ==
    /\ stage = "switch"
    /\ stage' = "poll"
    /\ UNCHANGED <<dmaVars, ghosts>>

ServiceTest ==
    /\ stage = "poll"
    /\ stage' = IF done THEN "update" ELSE "switch"
    /\ UNCHANGED <<dmaVars, ghosts>>

ServiceUpdate ==
    /\ stage = "update"
    /\ UpdateBuffers
    /\ stage' = "run"
    /\ UNCHANGED ghosts

ServiceRun ==
    /\ stage = "run"
    /\ fills < MaxFills
    /\ Run({fills + 1})
    /\ fills' = fills + 1
    /\ stage' = "clear"
    /\ UNCHANGED <<born, onTime, base, sessions>>

ServiceClear ==
    /\ stage = "clear"
    /\ ClearDone
    /\ stage' = "switch"
    /\ UNCHANGED ghosts

ServiceLoop ==
    \/ BeginSession \/ EndSession \/ Pass
    \/ ServiceTest \/ ServiceUpdate \/ ServiceRun \/ ServiceClear

(* The interrupt, at any point of the main loop.  The end is late when the *)
(* flag is still set from the one before: it may come before the test, or  *)
(* between the steps of the service.  MaxFills ends the behaviour here:    *)
(* the fill that answers a completion is always possible.                  *)
Complete ==
    /\ fills < MaxFills
    /\ MajorComplete
    /\ onTime' = IF done THEN 0 ELSE onTime + 1
    /\ base' = IF onTime = 0 THEN fills ELSE base
    /\ UNCHANGED <<stage, fills, born, sessions>>

ServiceNext == ServiceLoop \/ Complete

ServiceSpec == ServiceInit /\ [][ServiceNext]_serviceVars

(***************************************************************************)
(* Properties.                                                             *)
(***************************************************************************)

(* While the main loop keeps up, the periods play the fills one by one:    *)
(* from the second end in time on, each plays exactly the fill made in the *)
(* period before (remora-rt1052.cpp:655-660).  No fill is lost, repeated,  *)
(* merged with another one or overtaken, whatever earlier sessions left in *)
(* the buffers, whichever of the two was active, and whatever a late       *)
(* service has upset: two ends in time put it right.                       *)
InOrder == playing /\ onTime >= 2 => buf[tcd] = {base + onTime - 1}

(* However late the main loop is, no buffer ever holds two fills of the    *)
(* session: their pulses would be ORed into the same slots.  The fill goes *)
(* to the buffer that was cleared for it, also when that one has begun to  *)
(* play meanwhile (dma.cpp:78-92, remora-rt1052.cpp:657-658).              *)
NotMerged ==
    \A b \in Buffers : \A m, n \in buf[b] : m > born /\ n > born => m = n

(* The refinement: what is playing, and what is ready for the next period. *)
(* The other buffer is ready unless its completion is still to be served.  *)
ReadyFor(next) == IF done /\ stage # "clear" THEN {} ELSE buf[next]

Current == IF playing THEN buf[tcd] ELSE {}
Queued == IF playing THEN ReadyFor(Other(tcd)) ELSE {}
Late == playing /\ onTime = 0

Stream == INSTANCE PulseStream WITH
    Pulses <- Fills,
    on <- playing, late <- Late, current <- Current, queued <- Queued

(* Every session is a pulse stream: whatever the buffers held when it      *)
(* began, each later fill (remora-rt1052.cpp:655-660) is played whole, in  *)
(* the period after the one in which it was made, and never again, but for *)
(* the periods after a late end, up to the next that is in time.           *)
IsStream == Stream!Spec
=============================================================================
