---------------------------- MODULE PulseStream ----------------------------
(***************************************************************************)
(* What the DMA thread promises to the step generators, without buffers,   *)
(* descriptors and flags: while it is on, the pulses of one period are     *)
(* played, the pulses accepted meanwhile are played in the next period,    *)
(* and nothing accepted is lost, repeated, merged or overwritten.  The     *)
(* promise is suspended by a period that ends before the service of the    *)
(* one before has ended, and is back with the next one that does not.      *)
(***************************************************************************)
CONSTANT Pulses     \* the pulses of one period

VARIABLES
    on,         \* pulses are being played
    late,       \* no period has ended in time since the start, or since
                \* the last one that did not
    current,    \* what this period plays
    queued      \* what the next period will play

vars == <<on, late, current, queued>>

Init == on = FALSE /\ late = FALSE /\ current = {} /\ queued = {}

(* A session begins with whatever its first two periods hold.              *)
Start ==
    /\ ~on
    /\ on' = TRUE /\ late' = TRUE
    /\ current' \in SUBSET Pulses
    /\ queued' \in SUBSET Pulses

Accept(p) ==
    /\ on
    /\ queued = {}
    /\ queued' = {p}
    /\ UNCHANGED <<on, late, current>>

(* A period ends in time.                                                  *)
Advance ==
    /\ on
    /\ late' = FALSE
    /\ current' = queued
    /\ queued' = {}
    /\ UNCHANGED on

(* A period ends late, or what it has upset is put in order.               *)
Slip ==
    /\ on
    /\ late' = TRUE
    /\ current' \in SUBSET Pulses
    /\ queued' \in SUBSET Pulses
    /\ UNCHANGED on

Stop ==
    /\ on
    /\ on' = FALSE /\ late' = FALSE /\ current' = {} /\ queued' = {}

Next == Start \/ Advance \/ Slip \/ Stop \/ \E p \in Pulses : Accept(p)

Spec == Init /\ [][Next]_vars
=============================================================================
