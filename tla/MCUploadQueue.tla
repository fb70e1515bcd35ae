---------------------------- MODULE MCUploadQueue ----------------------------
(* Instances of UploadQueue for TLC. *)
EXTENDS UploadQueue, TLC

MCSymmetry == Permutations(Producers) \cup Permutations(Workers)
=============================================================================
