----------------------------- MODULE MCStepgen -----------------------------
(* An instance of Stepgen for TLC: frequencies of both signs, with and     *)
(* without a fraction of the step unit, and one that tears visibly.        *)
EXTENDS Stepgen

SmallFrequencies == {-3, 0, 1}
=============================================================================
