------------------------------- MODULE MCAdmin -------------------------------
(* Instances of Admin for TLC.                                             *)
EXTENDS Admin

CONSTANTS a1, a2, c1, c2

Setting(ops, traffic, faults, evicts) ==
    [ops |-> ops, traffic |-> traffic, faults |-> faults, cold |-> FALSE, evicts |-> evicts,
     tiers |-> 2, admins |-> Admins, MaxCalls |-> 1, disk |-> {1, 2}, bucket |-> Keys]

\* Wipes that race each other and evictions; wipes beside clients; stores and
\* volumes that fail; a start-up walk; listings; a disk alone.
MCConfigs == {
    Setting({"WipeBucket", "WipeDisk", "WipeKey"}, {}, {}, TRUE),
    [Setting({"WipeBucket"}, {"put", "get"}, {}, FALSE) EXCEPT !.admins = {a1}, !.MaxCalls = 3],
    [Setting({"WipeBucket"}, {"put"}, {"bucket", "refuse"}, FALSE) EXCEPT !.admins = {a1}, !.MaxCalls = 2],
    Setting({"WipeBucket", "WipeDisk", "WipeKey"}, {}, {"unlink"}, TRUE),
    [Setting({"WipeBucket", "WipeKey"}, {"get"}, {}, FALSE)
        EXCEPT !.cold = TRUE, !.admins = {a1}, !.MaxCalls = 2],
    Setting({"List", "WipeKey"}, {"put"}, {}, TRUE),
    [Setting({"WipeBucket", "WipeDisk", "WipeKey"}, {"put", "get"}, {}, FALSE)
        EXCEPT !.tiers = 1, !.bucket = {}]}
=============================================================================
