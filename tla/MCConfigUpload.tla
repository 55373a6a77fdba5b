--------------------------- MODULE MCConfigUpload ---------------------------
(* Two files of two blocks; the last block of "full" is full, so that an   *)
(* empty one follows.  They take one and two pages of the storage area.    *)
EXTENDS ConfigUpload

MCFiles == {"short", "full"}
MCBlocks == [f \in MCFiles |-> 2]
(* One block more than the two sectors that are erased hold.              *)
MCLongBlocks == [f \in MCFiles |-> 3]

MCPages == [f \in MCFiles |-> IF f = "full" THEN 2 ELSE 1]
=============================================================================
