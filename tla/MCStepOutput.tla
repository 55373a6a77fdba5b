---------------------------- MODULE MCStepOutput ----------------------------
(***************************************************************************)
(* Values for the constants of StepOutput.                                 *)
(***************************************************************************)
EXTENDS StepOutput

(* Forwards and backwards at the highest frequency, at a middle one and at *)
(* one that steps less than once per period, and a stop.                   *)
SmallFrequencies == {-20, -3, -1, 0, 1, 3, 20}
LateFills == {3, 6}

(* Real sizes.  The main loop takes 100 us to clear the buffer.            *)
RealFrequencies == {-20000, 0, 20000}
FullSpeed == {0, -500000}
RealFills == {100}
=============================================================================
