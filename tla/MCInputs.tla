------------------------------ MODULE MCInputs ------------------------------
(* Values for the constants of Inputs: a little more than one revolution.  *)
EXTENDS Inputs

SmallPositions == 0..4
SmallMoves == -2..2
=============================================================================
