-------------------------------- MODULE MCGC --------------------------------
(* Instances of GC for TLC. *)
EXTENDS GC, TLC

CONSTANTS k1, k2, k3

\* One front-end, of two keys, is capped at 60% of the budget.
MCFrontends == {{k1, k2}}
MCBudgets == {k1, k2} :> 60

Setting(h, l, wired, sweeps, volumes) ==
    [High |-> h, Low |-> l, Wired |-> wired, Sweeps |-> sweeps, Volumes |-> volumes]

\* Low and narrow watermarks, each with Puts that notify and no ticker, and
\* with the ticker alone on a volume that is resized, as the binaries run.
MCConfigs ==
    UNION {{Setting(w[1], w[2], TRUE, FALSE, {5}), Setting(w[1], w[2], FALSE, TRUE, {5, 9})} :
             w \in {<<50, 30>>, <<100, 90>>}}
=============================================================================
