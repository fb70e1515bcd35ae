------------------------------- MODULE MCChain -------------------------------
(* Instances of Chain for TLC.                                             *)
EXTENDS Chain, TLC

CONSTANTS c1, c2, v1, v2

Setting(immutable, behind, ops, faults, evicts) ==
    [Immutable |-> immutable, WriteBehind |-> behind, Ops |-> ops,
     Faults |-> faults, Evicts |-> evicts]

AllOps == {"get", "put", "stat", "delete"}

\* Everything fails; uploads wait in a queue; nothing fails and the front
\* tier evicts.
MCConfigs == {
    Setting(FALSE, FALSE, AllOps, {"get", "put", "delete"}, {0}),
    Setting(FALSE, TRUE, AllOps, {"get", "full"}, {0}),
    Setting(TRUE, FALSE, {"get", "put"}, {}, {0})}
=============================================================================
