------------------------------- MODULE MCGoMod -------------------------------
(* Instances of GoMod for TLC.                                             *)
EXTENDS GoMod

CONSTANTS r1, r2

Name(root, file, ext) == [root |-> root, file |-> file, ext |-> ext]
List == Name("module", "list", "none")

Setting(name, fails, evicts, tierFails, old) ==
    [name |-> name, fails |-> fails,
     evicts |-> evicts, tierFails |-> tierFails, legacy |-> old]

\* A list over everything that can go wrong, and beside objects of the legacy
\* layout; a branch; a version's file; a record of the checksum database.
MCConfigs == {
    Setting(List, TRUE, TRUE, TRUE, FALSE),
    Setting(List, TRUE, TRUE, FALSE, TRUE),
    Setting(Name("module", "branch", "info"), FALSE, FALSE, FALSE, FALSE),
    Setting(Name("module", "version", "zip"), TRUE, TRUE, FALSE, FALSE),
    Setting(Name("sumdb", "other", "none"), TRUE, FALSE, FALSE, FALSE)}
=============================================================================
