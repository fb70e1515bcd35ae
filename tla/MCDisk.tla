------------------------------- MODULE MCDisk -------------------------------
(* Instances of Disk for TLC. *)
EXTENDS Disk, TLC

CONSTANTS k1, k2, p1, p2

\* Each key in a directory of its own.
MCDirOf == (k1 :> 1) @@ (k2 :> 2)

\* All keys, and the keys of one front-end.
MCGroups == {{k1, k2}, {k1}}

MCSymmetry == Permutations(Procs)
=============================================================================
