------------------------------- MODULE Breaker -------------------------------
(***************************************************************************)
(* The circuit breaker around a tier that is reached over the network      *)
(* (agent/breaker/breaker.go): its state and its two critical sections,    *)
(* allow and record, between which the tier is called without the lock.    *)
(* Agent composes them with the calls that go through a breaker.           *)
(*                                                                         *)
(* Time is relative: left is how far openUntil is ahead of the clock, so   *)
(* that a trip sets it to Window and every tick brings it closer.          *)
(***************************************************************************)
EXTENDS Naturals

CONSTANTS
    Threshold,   \* failures in a row that open the circuit
    Window       \* ticks for which it stays open

ASSUME BreakerAssumption == Threshold \in Nat \ {0} /\ Window \in Nat \ {0}

VARIABLES
    consecutive, \* failures since the last healthy answer, trip or window
    tripped,     \* openUntil is not the zero time
    left         \* ticks until openUntil; 0 once it has passed

breakerVars == <<consecutive, tripped, left>>

BreakerTypeOK ==
    /\ consecutive \in 0 .. Threshold - 1
    /\ tripped \in BOOLEAN
    /\ left \in 0 .. Window

BreakerInit == consecutive = 0 /\ tripped = FALSE /\ left = 0

\* The window lasts.
Open == tripped /\ left > 0

\* allow answers true.  The first call after the window closes the circuit
\* and forgets the failures recorded meanwhile.
allow ==
    /\ ~Open
    /\ tripped' = FALSE
    /\ consecutive' = IF tripped THEN 0 ELSE consecutive
    /\ UNCHANGED left

\* Seeded fault: a call that is turned away starts the window again.
bypassExtends ==
    /\ Open
    /\ left' = Window
    /\ UNCHANGED <<consecutive, tripped>>

\* allow answers false, and the tier is not called.
bypass == Open /\ UNCHANGED breakerVars

\* record, with whether the answer was healthy: success, a miss, ErrExists.
\* Anything else counts, also while the window lasts: a call that was let in
\* before can make the window longer.
record(healthy) ==
    LET trips == ~healthy /\ consecutive + 1 >= Threshold IN
    /\ consecutive' = IF healthy \/ trips THEN 0 ELSE consecutive + 1
    /\ tripped' = (tripped \/ trips)
    /\ left' = IF trips THEN Window ELSE left

Tick == Open /\ left' = left - 1 /\ UNCHANGED <<consecutive, tripped>>
=============================================================================
