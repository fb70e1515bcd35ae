------------------------------ MODULE MCServer -------------------------------
(* Instances of Server for TLC.                                            *)
EXTENDS Server

CONSTANTS c1, c2, k1, p1, p2

Setting(tiers, max, immutable, ops) ==
    [tiers |-> tiers, limit |-> max, Immutable |-> immutable, ops |-> ops,
     sourceFails |-> FALSE,
     tierFails |-> FALSE, full |-> FALSE, probes |-> FALSE, leaves |-> FALSE,
     stops |-> FALSE, stalls |-> FALSE, breaks |-> FALSE, flips |-> FALSE, wipes |-> FALSE]

\* Streams of every kind over a disk that fails; a disk alone that refuses,
\* behind a narrow gate; a drain with clients that stall; bodies that cannot
\* be read; listeners that fail; wipes during a drain;
\* probes, and probes that are abandoned.
MCConfigs == {
    [Setting(2, 2, TRUE, {"put", "get", "stat"}) EXCEPT !.tierFails = TRUE, !.full = TRUE],
    [Setting(1, 1, TRUE, {"put", "get"}) EXCEPT !.full = TRUE],
    [Setting(2, 1, FALSE, {"put"}) EXCEPT !.stops = TRUE, !.stalls = TRUE],
    [Setting(1, 2, TRUE, {"put"}) EXCEPT !.sourceFails = TRUE],
    [Setting(2, 1, FALSE, {"stat"}) EXCEPT !.stops = TRUE, !.breaks = TRUE],
    [Setting(2, 1, FALSE, {}) EXCEPT !.stops = TRUE, !.wipes = TRUE],
    [Setting(2, 1, TRUE, {}) EXCEPT !.probes = TRUE, !.flips = TRUE],
    [Setting(2, 1, TRUE, {}) EXCEPT !.probes = TRUE, !.leaves = TRUE]}

\* Bodies that clients cannot read to the end.
BrokenSources == {[Setting(2, 2, TRUE, {"put"}) EXCEPT !.sourceFails = TRUE]}
=============================================================================
