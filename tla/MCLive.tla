------------------------------- MODULE MCLive --------------------------------
(***************************************************************************)
(* LiveScheduler for TLC: sessions and workers are interchangeable in the  *)
(* runs that check safety only.                                            *)
(***************************************************************************)
EXTENDS LiveProperties
LOCAL INSTANCE TLC

Symmetry == Permutations(Sessions) \cup Permutations(Workers)
=============================================================================
