---------------------------- MODULE RemoraComms ----------------------------
(***************************************************************************)
(* The communication watchdog (source/modules/comms/RemoraComms.cpp).  The *)
(* network handler raises "data" for every good packet; update, which the  *)
(* 1 kHz servo thread calls, turns it into "status" and drops the status   *)
(* after more than DATA_ERR_MAX calls in a row without data.               *)
(***************************************************************************)
EXTENDS Naturals

CONSTANTS
    DataErrMax,     \* DATA_ERR_MAX
    CountMod,       \* 2^width of noDataCount (uint8_t: 256)
    PowerUpStatus,  \* what status may hold before the first update: the
                    \* constructor leaves the members uninitialised
    MaxSilent       \* where the ghost "silent" saturates

ASSUME CommsAssumption ==
    /\ DataErrMax \in Nat /\ CountMod \in Nat /\ MaxSilent \in Nat
    /\ DataErrMax + 1 < CountMod
    /\ DataErrMax < MaxSilent
    /\ PowerUpStatus \subseteq BOOLEAN

VARIABLES
    data,           \* a packet arrived since the last update
    status,         \* the link is up
    noDataCount,    \* updates without data
    silent          \* ghost: updates since the last one that saw data;
                    \* MaxSilent when there was none

commsVars == <<data, status, noDataCount, silent>>

CommsTypeOK ==
    /\ data \in BOOLEAN
    /\ status \in BOOLEAN
    /\ noDataCount \in 0..DataErrMax
    /\ silent \in 0..MaxSilent

CommsInit ==
    /\ data = FALSE
    /\ status \in PowerUpStatus
    /\ noDataCount = 0
    /\ silent = MaxSilent

(* Mutant of Missed: data does not reset the counter.                      *)
MissedSticky == IF data THEN noDataCount ELSE (noDataCount + 1) % CountMod

(* update, in the servo thread's interrupt.                                *)
Missed == IF data THEN 0 ELSE (noDataCount + 1) % CountMod

(* Mutant of CommsUpdate: the time-out does not restart the counter.       *)
UpdateNoRestart ==
    /\ noDataCount' = Missed
    /\ status' = IF Missed > DataErrMax THEN FALSE
                 ELSE IF data THEN TRUE ELSE status
    /\ data' = FALSE
    /\ silent' = IF data THEN 0
                 ELSE IF silent < MaxSilent THEN silent + 1 ELSE silent

CommsUpdate ==
    /\ noDataCount' = IF Missed > DataErrMax THEN 0 ELSE Missed
    /\ status' = IF Missed > DataErrMax THEN FALSE
                 ELSE IF data THEN TRUE ELSE status
    /\ data' = FALSE
    /\ silent' = IF data THEN 0
                 ELSE IF silent < MaxSilent THEN silent + 1 ELSE silent

(* dataReceived, in the network handler.                                   *)
DataReceived ==
    /\ data' = TRUE
    /\ UNCHANGED <<status, noDataCount, silent>>

CommsSpec == CommsInit /\ [][CommsUpdate \/ DataReceived]_commsVars

(* The status says exactly whether the last data is at most DATA_ERR_MAX   *)
(* updates old: it is never dropped early, never kept longer, and never    *)
(* true before the first packet (remora-rt1052.cpp:577, "wait for data     *)
(* before changing to running state").                                     *)
StatusMeansData == status <=> silent <= DataErrMax
=============================================================================
