----------------------------- MODULE MCDiskIndex -----------------------------
(* An instance of DiskIndex for TLC. *)
EXTENDS DiskIndex, TLC

CONSTANTS k1, k2, k3

\* Two keys share a front-end.
MCFrontendOf == (k1 :> 1) @@ (k2 :> 1) @@ (k3 :> 2)

=============================================================================
