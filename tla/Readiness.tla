------------------------------ MODULE Readiness ------------------------------
(***************************************************************************)
(* The readiness answer of a server (server/server.go, readiness): probes  *)
(* that arrive together share one run of the checks, and its result is     *)
(* believed for a while.  Server composes it with the rest.                *)
(*                                                                         *)
(* Time is relative: the answer has an age, a run has time left, and each  *)
(* dependency has a time since it last went up or down.  Computing takes   *)
(* no time, checks do.                                                     *)
(***************************************************************************)
EXTENDS Naturals, FiniteSets

CONSTANTS
    Probes,      \* probes that may be under way at once
    TTL,         \* ticks for which an answer is believed
    Budget,      \* ticks a run of the checks may take
    Nobody

ASSUME ReadinessAssumption ==
    TTL \in Nat \ {0} /\ Budget \in Nat \ {0} /\ Nobody \notin Probes

Deps == {"disk", "bucket"}

VARIABLES
    rd,          \* the answer's age, its error, and the probe that runs checks
    probe,       \* each probe, the checks it made and its answer
    dep          \* what is checked: whether it works, and since when

readyVars == <<rd, probe, dep>>

\* The longest time for which the state of a dependency can go unnoticed.
Lag == TTL + Budget - 1

NoProbe == [pc |-> "idle", left |-> 0, answer |-> "none", found |-> [d \in Deps |-> "todo"]]

Probing(p, pc) == probe[p].pc = pc

Says(err) == IF err THEN "not ready" ELSE "ready"

Answered(p, err) == [NoProbe EXCEPT !.answer = Says(err)]

\* A probe arrives.
ProbeBegin(p) ==
    /\ Probing(p, "idle")
    /\ probe' = [probe EXCEPT ![p] = [NoProbe EXCEPT !.pc = "check"]]
    /\ UNCHANGED <<rd, dep>>

\* Seeded fault: that nothing has been checked yet is not seen.
checkUnset(p) ==
    /\ Probing(p, "check")
    /\ IF rd.age < TTL \/ rd.inflight = Nobody
       THEN probe' = [probe EXCEPT ![p] = Answered(p, rd.err)] /\ UNCHANGED rd
       ELSE probe' = [probe EXCEPT ![p].pc = "wait"] /\ UNCHANGED rd
    /\ UNCHANGED dep

\* readiness.check: the answer at hand, another probe's run, or its own.
check(p) ==
    /\ Probing(p, "check")
    /\ IF rd.age < TTL
       THEN probe' = [probe EXCEPT ![p] = Answered(p, rd.err)] /\ UNCHANGED rd
       ELSE IF rd.inflight # Nobody
       THEN probe' = [probe EXCEPT ![p].pc = "wait"] /\ UNCHANGED rd
       ELSE /\ probe' = [probe EXCEPT ![p].pc = "run", ![p].left = Budget]
            /\ rd' = [rd EXCEPT !.inflight = p]
    /\ UNCHANGED dep

\* A file can be created in the directory, closed and removed; the store
\* answers a listing of one key, also of an empty bucket.
checkWritable == dep["disk"].up
Reachable == dep["bucket"].up

works(d) == IF d = "disk" THEN checkWritable ELSE Reachable

\* readiness.run: the checks go side by side, each in its own time.
run(p, d) ==
    /\ Probing(p, "run") /\ probe[p].found[d] = "todo"
    /\ probe' = [probe EXCEPT ![p].found[d] = IF works(d) THEN "ok" ELSE "bad"]
    /\ UNCHANGED <<rd, dep>>

\* The probe's own context is cancelled: only the bucket check looks at it.
ProbeGone(p) ==
    /\ Probing(p, "run") /\ probe[p].found["bucket"] = "todo"
    /\ probe' = [probe EXCEPT ![p].found["bucket"] = "bad"]
    /\ UNCHANGED <<rd, dep>>

Complete(p) == Probing(p, "run") /\ \A d \in Deps : probe[p].found[d] # "todo"
Failed(p) == \E d \in Deps : probe[p].found[d] = "bad"

\* The result is published and the others are released.
Publish(p) ==
    /\ Complete(p)
    /\ rd' = [age |-> 0, err |-> Failed(p), inflight |-> Nobody]
    /\ probe' = [q \in Probes |-> IF q = p THEN Answered(p, Failed(p))
                                  ELSE IF Probing(q, "wait") THEN [probe[q] EXCEPT !.pc = "woken"]
                                  ELSE probe[q]]
    /\ UNCHANGED dep

\* They take the error that is there when they get the lock.
Woken(p) ==
    /\ Probing(p, "woken")
    /\ probe' = [probe EXCEPT ![p] = Answered(p, rd.err)]
    /\ UNCHANGED <<rd, dep>>

\* A dependency goes down or comes back.
Flip(d) ==
    /\ dep' = [dep EXCEPT ![d] = [up |-> ~dep[d].up, since |-> 0]]
    /\ UNCHANGED <<rd, probe>>

ReadyTick ==
    /\ \A p \in Probes : ~Probing(p, "woken") /\ ~Complete(p) /\ (Probing(p, "run") => probe[p].left > 0)
    /\ rd' = [rd EXCEPT !.age = IF @ < TTL THEN @ + 1 ELSE TTL]
    /\ probe' = [p \in Probes |-> IF Probing(p, "run") THEN [probe[p] EXCEPT !.left = @ - 1] ELSE probe[p]]
    /\ dep' = [d \in Deps |-> [dep[d] EXCEPT !.since = IF @ <= Lag THEN @ + 1 ELSE @]]

ProbeStep(p) == check(p) \/ (\E d \in Deps : run(p, d)) \/ Publish(p) \/ Woken(p)

ReadyInit ==
    /\ rd = [age |-> TTL, err |-> FALSE, inflight |-> Nobody]
    /\ probe = [p \in Probes |-> NoProbe]
    /\ dep \in [Deps -> [up : BOOLEAN, since : {Lag + 1}]]
=============================================================================
