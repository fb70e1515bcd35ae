------------------------------ MODULE MCBucket ------------------------------
(***************************************************************************)
(* Instances of Bucket for TLC.  Two callers and one key.  A body of two   *)
(* bytes or more is staged in a file; a time of 3 is odd, so that a unit   *)
(* coarser than a nanosecond loses it.                                     *)
(***************************************************************************)
EXTENDS Bucket, TLC

MCTypes == {"", "text", "long", "octets"}
MCLong == {"long"}

Object(t, type, immutable, len, whole) ==
    [meta |-> [Size |-> 0, ModTime |-> t, ContentType |-> type,
               Immutable |-> immutable],
     len |-> len, whole |-> whole]

Setting(a, b, start, spelling, front, faults) ==
    [puts |-> ("a" :> a @@ "b" :> b), start |-> start, spelling |-> spelling,
     front |-> front, faults |-> faults]

\* Behind the disk tier of a server, two builds derive the same object.
Server ==
    Setting(Object(3, "text", TRUE, 1, TRUE), Object(5, "", TRUE, 1, TRUE),
            Absent, "own", TRUE, FALSE)

\* The same with mutable objects, one put without a time, and an object
\* already in the bucket that something else has written.
Warmed ==
    Setting(Object(0, "text", FALSE, 1, TRUE),
            Object(3, "long", FALSE, 1, TRUE),
            Foreign, "sent", TRUE, FALSE)

\* Without a tier in front: a store that fails, files that cannot be staged,
\* a body whose reader fails.
Failing ==
    Setting(Object(3, "", TRUE, 2, TRUE), Object(5, "text", TRUE, 2, FALSE),
            Absent, "sent", FALSE, TRUE)

Racing ==
    Setting(Object(3, "", TRUE, 1, TRUE), Object(5, "", TRUE, 2, TRUE),
            Absent, "own", FALSE, TRUE)

\* A short body whose reader fails.
Short ==
    Setting(Object(3, "", TRUE, 1, FALSE), Object(5, "", FALSE, 1, TRUE),
            Absent, "own", FALSE, FALSE)

MCConfigs == {Server, Warmed, Failing, Racing, Short}
=============================================================================
