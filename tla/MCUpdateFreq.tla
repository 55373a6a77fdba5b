---------------------------- MODULE MCUpdateFreq ----------------------------
(* An instance of UpdateFreq for TLC.                                      *)
EXTENDS UpdateFreq

MCCommands == {-7, 0, 3}        \* one beyond the limit, one that is no
                                \* whole number of counts or of Hertz
MCAccels == {0, 1, 7}           \* no limit, half a Hertz, more than BaseFreq
=============================================================================
