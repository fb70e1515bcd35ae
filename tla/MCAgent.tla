------------------------------- MODULE MCAgent -------------------------------
(* Instances of Agent for TLC.                                             *)
EXTENDS Agent

CONSTANTS r1, r2, w1, a1, o1

Deployment(asked, there, fails, disk, evicts, warm, max) ==
    [asked |-> asked, there |-> there, fails |-> fails, disk |-> disk,
     evicts |-> evicts, warm |-> warm, puts |-> max]

\* A server that fails; a bucket that works, on a fresh machine; a bucket
\* whose objects come and go; a machine with a bad disk and nothing behind;
\* gets alone, with a bad disk and a bucket that fails.  The last is asked
\* for a server too, which is not there.
MCConfigs == {
    Deployment({"remote"}, {"remote"}, TRUE, FALSE, FALSE, FALSE, 1),
    Deployment({"bucket"}, {"bucket"}, FALSE, FALSE, FALSE, FALSE, 2),
    Deployment({"bucket"}, {"bucket"}, FALSE, FALSE, TRUE, FALSE, 1),
    Deployment({}, {}, FALSE, TRUE, FALSE, TRUE, 2),
    Deployment(BackEnds, {"bucket"}, TRUE, TRUE, FALSE, FALSE, 0)}
=============================================================================
