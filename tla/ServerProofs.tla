---------------------------- MODULE ServerProofs -----------------------------
(***************************************************************************)
(* Theorems about the server's readiness answer, its streams and its       *)
(* drain, for any number of probes, calls and keys, any sizes, limits and  *)
(* times, and any settings.                                                *)
(***************************************************************************)
EXTENDS Server, TLAPS

-----------------------------------------------------------------------------
(* The readiness answer: the inductive invariant.                          *)

ProbeFields == {"pc", "left", "answer", "found"}

\* A dependency works, or does not, or did so at most t ago.
Works(d, t) == dep[d].up \/ dep[d].since <= t
Fails(d, t) == ~dep[d].up \/ dep[d].since <= t

DepOK == /\ DOMAIN dep = Deps
         /\ \A d \in Deps : DOMAIN dep[d] = {"up", "since"} /\ dep[d].up \in BOOLEAN /\ dep[d].since \in Nat

\* An answer that is believed was true within the run that found it.
AnswerOK ==
    /\ DOMAIN rd = {"age", "err", "inflight"} /\ rd.age \in Nat /\ rd.err \in BOOLEAN
    /\ rd.age < TTL /\ ~rd.err => \A d \in Deps : Works(d, Budget + rd.age)
    /\ rd.age < TTL /\ rd.err /\ ~cfg.leaves => \E d \in Deps : Fails(d, Budget + rd.age)

\* So was what a run has found so far; and who is released finds an answer of
\* this moment.
ProbeOK(q) ==
    /\ DOMAIN q = ProbeFields /\ q.pc \in {"idle", "check", "wait", "run", "woken"}
    /\ q.left \in Nat /\ q.left <= Budget
    /\ q.found \in [Deps -> {"todo", "ok", "bad"}]
    /\ q.pc # "run" => \A d \in Deps : q.found[d] = "todo"
    /\ q.pc = "run" =>
          \A d \in Deps : /\ q.found[d] = "ok" => Works(d, Budget - q.left)
                          /\ q.found[d] = "bad" /\ ~cfg.leaves => Fails(d, Budget - q.left)
    /\ q.pc = "woken" => rd.age = 0

RInv == DepOK /\ AnswerOK /\ DOMAIN probe = Probes /\ \A p \in Probes : ProbeOK(probe[p])

-----------------------------------------------------------------------------
(* The readiness answer: its steps.                                        *)

\* A step of one probe that leaves answer and dependencies alone.
LEMMA OneProbe ==
    ASSUME RInv, NEW p \in Probes, NEW q, ProbeOK(q), probe' = [probe EXCEPT ![p] = q],
           rd' = rd \/ rd' = [rd EXCEPT !.inflight = p], UNCHANGED <<cfg, dep>>
    PROVE  RInv'
<1>1. /\ DOMAIN rd' = DOMAIN rd /\ rd'.age = rd.age /\ rd'.err = rd.err
  BY DEF RInv, AnswerOK
<1>2. AnswerOK' /\ DepOK'
  BY <1>1 DEF RInv, AnswerOK, DepOK, Works, Fails
<1>3. ASSUME NEW r \in Probes PROVE ProbeOK(probe[r])'
  <2>1. PICK z : z = probe'[r]
    OBVIOUS
  <2>2. ProbeOK(z)
    BY <2>1 DEF RInv
  <2>3. ProbeOK(z)'
    BY <1>1, <2>2 DEF ProbeOK, Works, Fails
  <2> QED
    BY <2>1, <2>3
<1> QED
  BY <1>2, <1>3 DEF RInv

\* A probe that has its answer.
LEMMA AnsweredProbeOK ==
    ASSUME NEW p \in Probes, NEW err
    PROVE  ProbeOK(Answered(p, err)) /\ Answered(p, err).answer = Says(err)
<1> DEFINE z == Answered(p, err)
<1>1. /\ DOMAIN z = ProbeFields /\ z.pc = "idle" /\ z.left = 0 /\ z.answer = Says(err)
      /\ z.found \in [Deps -> {"todo", "ok", "bad"}] /\ \A d \in Deps : z.found[d] = "todo"
  BY DEF Answered, NoProbe, ProbeFields
<1> HIDE DEF z
<1> QED
  BY <1>1, ReadinessAssumption DEF ProbeOK, z

\* The steps of a probe (server.go readiness.check, run).
LEMMA ProbeBeginOK ==
    ASSUME RInv, NEW p \in Probes, ProbeBegin(p), cfg' = cfg
    PROVE  RInv'
<1> DEFINE z == [NoProbe EXCEPT !.pc = "check"]
<1>1. /\ DOMAIN z = ProbeFields /\ z.pc = "check" /\ z.left = 0
      /\ z.found \in [Deps -> {"todo", "ok", "bad"}] /\ \A d \in Deps : z.found[d] = "todo"
  BY DEF NoProbe, ProbeFields
<1>2. probe' = [probe EXCEPT ![p] = z] /\ rd' = rd /\ dep' = dep
  BY DEF ProbeBegin
<1> HIDE DEF z
<1>3. ProbeOK(z)
  BY <1>1, ReadinessAssumption DEF ProbeOK
<1> QED
  BY <1>2, <1>3, OneProbe, Zenon

\* A probe that finds a cached verdict, waits or starts a check (server.go readiness.check).
LEMMA CheckOK ==
    ASSUME RInv, NEW p \in Probes, check(p), cfg' = cfg
    PROVE  RInv'
<1>1. dep' = dep /\ ProbeOK(probe[p]) /\ DOMAIN probe = Probes
  BY DEF check, RInv
<1>2. CASE probe' = [probe EXCEPT ![p] = Answered(p, rd.err)] /\ UNCHANGED rd
  BY <1>1, <1>2, AnsweredProbeOK, OneProbe, Zenon
<1>3. CASE probe' = [probe EXCEPT ![p].pc = "wait"] /\ UNCHANGED rd
  <2> DEFINE z == [probe[p] EXCEPT !.pc = "wait"]
  <2>1. /\ DOMAIN z = ProbeFields /\ z.pc = "wait" /\ z.left = probe[p].left /\ z.found = probe[p].found
    BY <1>1 DEF ProbeOK, ProbeFields
  <2>2. probe' = [probe EXCEPT ![p] = z]
    BY <1>3
  <2> HIDE DEF z
  <2>3. ProbeOK(z)
    BY <1>1, <2>1 DEF ProbeOK, check, Probing
  <2> QED
    BY <1>1, <1>3, <2>2, <2>3, OneProbe, Zenon
<1>4. CASE /\ probe' = [probe EXCEPT ![p].pc = "run", ![p].left = Budget]
           /\ rd' = [rd EXCEPT !.inflight = p]
  <2> DEFINE z == [probe[p] EXCEPT !.pc = "run", !.left = Budget]
  <2>1. /\ DOMAIN z = ProbeFields /\ z.pc = "run" /\ z.left = Budget /\ z.found = probe[p].found
    BY <1>1 DEF ProbeOK, ProbeFields
  <2>2. probe' = [probe EXCEPT ![p] = z]
    BY <1>4, Zenon
  <2> HIDE DEF z
  <2>3. \A d \in Deps : z.found[d] = "todo"
    BY <1>1, <2>1 DEF ProbeOK, check, Probing
  <2>4. ProbeOK(z)
    BY <1>1, <2>1, <2>3, ReadinessAssumption DEF ProbeOK
  <2> QED
    BY <1>1, <1>4, <2>2, <2>4, OneProbe, Zenon
<1> QED
  BY <1>2, <1>3, <1>4 DEF check

\* One check of a run comes back, or is cut short where probes may leave.
LEMMA FindOK ==
    ASSUME RInv, NEW p \in Probes, NEW d \in Deps, NEW f \in {"ok", "bad"}, Probing(p, "run"),
           f = "ok" => dep[d].up,
           f = "bad" => ~dep[d].up \/ cfg.leaves,
           probe' = [probe EXCEPT ![p].found[d] = f], UNCHANGED <<cfg, rd, dep>>
    PROVE  RInv'
<1>1. ProbeOK(probe[p]) /\ DOMAIN probe = Probes /\ probe[p].pc = "run"
  BY DEF RInv, Probing
<1> DEFINE found == [probe[p].found EXCEPT ![d] = f]
           z == [probe[p] EXCEPT !.found = found]
<1>2. /\ found \in [Deps -> {"todo", "ok", "bad"}] /\ found[d] = f
      /\ \A e \in Deps \ {d} : found[e] = probe[p].found[e]
  BY <1>1 DEF ProbeOK
<1>3. probe' = [probe EXCEPT ![p] = z]
  OBVIOUS
<1> HIDE DEF found
<1>4. DOMAIN z = ProbeFields /\ z.pc = "run" /\ z.left = probe[p].left /\ z.found = found
  BY <1>1 DEF ProbeOK, ProbeFields
<1> HIDE DEF z
<1>5. ASSUME NEW e \in Deps
      PROVE  /\ found[e] = "ok" => Works(e, Budget - z.left)
             /\ found[e] = "bad" /\ ~cfg.leaves => Fails(e, Budget - z.left)
  <2>1. CASE e = d
    BY <1>2, <2>1 DEF Works, Fails
  <2>2. CASE e # d
    BY <1>1, <1>2, <1>4, <2>2 DEF ProbeOK
  <2> QED
    BY <2>1, <2>2
<1>6. ProbeOK(z)
  BY <1>1, <1>2, <1>4, <1>5 DEF ProbeOK
<1> QED
  BY <1>3, <1>6, OneProbe, Zenon

\* A check of one dependency records what the dependency is now (server.go readiness.run).
LEMMA RunOK ==
    ASSUME RInv, NEW p \in Probes, NEW d \in Deps, run(p, d), cfg' = cfg
    PROVE  RInv'
<1>1. works(d) = dep[d].up
  BY DEF works, checkWritable, Reachable, Deps
<1>2. dep[d].up \in BOOLEAN
  BY DEF RInv, DepOK
<1>3. CASE dep[d].up
  <2>1. probe' = [probe EXCEPT ![p].found[d] = "ok"]
    BY <1>1, <1>3 DEF run
  <2> QED
    BY <1>3, <2>1, FindOK, Zenon DEF run
<1>4. CASE ~dep[d].up
  <2>1. probe' = [probe EXCEPT ![p].found[d] = "bad"]
    BY <1>1, <1>4 DEF run
  <2> QED
    BY <1>4, <2>1, FindOK, Zenon DEF run
<1> QED
  BY <1>2, <1>3, <1>4

\* A probe whose client leaves takes its check with it (server.go readiness.check).
LEMMA ProbeGoneOK ==
    ASSUME RInv, NEW p \in Probes, ProbeGone(p), cfg.leaves, cfg' = cfg
    PROVE  RInv'
<1>1. "bucket" \in Deps
  BY DEF Deps
<1> QED
  BY <1>1, FindOK, Zenon DEF ProbeGone

\* What a complete run has found was so within the run.
LEMMA CompleteRun ==
    ASSUME RInv, NEW p \in Probes, Complete(p)
    PROVE  /\ Failed(p) \in BOOLEAN
           /\ ~Failed(p) => \A d \in Deps : Works(d, Budget)
           /\ Failed(p) /\ ~cfg.leaves => \E d \in Deps : Fails(d, Budget)
<1>1. ProbeOK(probe[p]) /\ probe[p].pc = "run" /\ \A d \in Deps : probe[p].found[d] \in {"ok", "bad"}
  BY DEF RInv, Complete, Probing, ProbeOK
<1>2. ASSUME NEW d \in Deps
      PROVE  /\ Works(d, Budget - probe[p].left) => Works(d, Budget)
             /\ Fails(d, Budget - probe[p].left) => Fails(d, Budget)
  BY <1>1, ReadinessAssumption DEF RInv, DepOK, ProbeOK, Works, Fails
<1> QED
  BY <1>1, <1>2 DEF Failed, ProbeOK

\* The result of a run is published (server.go readiness.check).
LEMMA PublishOK ==
    ASSUME RInv, NEW p \in Probes, Publish(p), cfg' = cfg
    PROVE  RInv'
<1>1. dep' = dep /\ DOMAIN rd' = {"age", "err", "inflight"} /\ rd'.age = 0 /\ rd'.err = Failed(p)
  BY DEF Publish
<1>2. /\ Failed(p) \in BOOLEAN
      /\ ~Failed(p) => \A d \in Deps : Works(d, Budget)
      /\ Failed(p) /\ ~cfg.leaves => \E d \in Deps : Fails(d, Budget)
  BY CompleteRun DEF Publish
<1>3. AnswerOK' /\ DepOK'
  <2>1. PICK e \in BOOLEAN : e = Failed(p)
    BY <1>2
  <2>2. Budget + 0 = Budget
    BY ReadinessAssumption
  <2>3. DepOK'
    BY <1>1 DEF RInv, DepOK
  <2>4. rd'.err \in BOOLEAN /\ (rd'.err <=> e)
    BY <1>1, <2>1
  <2> QED
    BY <1>1, <1>2, <2>1, <2>2, <2>3, <2>4 DEF AnswerOK, Works, Fails
<1>4. ASSUME NEW r \in Probes PROVE ProbeOK(probe[r])'
  <2>1. PICK z : z = probe'[r]
    OBVIOUS
  <2>2. PICK q : q = probe[r]
    OBVIOUS
  <2>3. ProbeOK(q) /\ ProbeOK(Answered(p, Failed(p)))
    BY <2>2, AnsweredProbeOK DEF RInv
  <2>4. \/ z = Answered(p, Failed(p))
        \/ q.pc = "wait" /\ z = [q EXCEPT !.pc = "woken"]
        \/ q.pc # "wait" /\ z = q
    BY <2>1, <2>2 DEF Publish, Probing
  <2>5. CASE z = Answered(p, Failed(p)) \/ (q.pc # "wait" /\ z = q)
    <3>1. ProbeOK(z)
      BY <2>3, <2>5
    <3> QED
      BY <1>1, <2>1, <3>1 DEF ProbeOK, Works, Fails
  <2>6. CASE q.pc = "wait" /\ z = [q EXCEPT !.pc = "woken"]
    <3>1. DOMAIN z = ProbeFields /\ z.pc = "woken" /\ z.left = q.left /\ z.found = q.found
      BY <2>3, <2>6 DEF ProbeOK, ProbeFields
    <3>2. ProbeOK(z)'
      BY <1>1, <2>3, <2>6, <3>1 DEF ProbeOK
    <3> QED
      BY <2>1, <3>2
  <2> QED
    BY <2>4, <2>5, <2>6
<1>5. DOMAIN probe' = Probes
  BY DEF Publish
<1> QED
  BY <1>3, <1>4, <1>5 DEF RInv

\* Those that waited take the answer that is there.
LEMMA WokenOK ==
    ASSUME RInv, NEW p \in Probes, Woken(p), cfg' = cfg
    PROVE  RInv'
BY AnsweredProbeOK, OneProbe, Zenon DEF Woken

\* A dependency that changes has done so just now.
LEMMA FlipOK ==
    ASSUME RInv, NEW d \in Deps, Flip(d), cfg' = cfg
    PROVE  RInv'
<1>1. /\ DOMAIN dep' = Deps /\ rd' = rd /\ probe' = probe
      /\ DOMAIN dep'[d] = {"up", "since"} /\ dep'[d].since = 0 /\ dep'[d].up \in BOOLEAN
      /\ \A e \in Deps \ {d} : dep'[e] = dep[e]
  BY DEF RInv, DepOK, Flip
<1>2. DepOK'
  BY <1>1 DEF RInv, DepOK
<1>3. ASSUME NEW e \in Deps, NEW t \in Nat
      PROVE  (Works(e, t) => Works(e, t)') /\ (Fails(e, t) => Fails(e, t)')
  <2>1. CASE e = d
    BY <1>1, <2>1 DEF Works, Fails
  <2>2. CASE e # d
    BY <1>1, <2>2 DEF Works, Fails
  <2> QED
    BY <2>1, <2>2
<1>4. AnswerOK'
  <2>1. Budget + rd.age \in Nat
    BY ReadinessAssumption DEF RInv, AnswerOK
  <2> QED
    BY <1>1, <1>3, <2>1 DEF RInv, AnswerOK
<1>5. ASSUME NEW r \in Probes PROVE ProbeOK(probe[r])'
  <2>1. PICK z : z = probe[r]
    OBVIOUS
  <2>2. ProbeOK(z) /\ Budget - z.left \in Nat
    BY <2>1, ReadinessAssumption DEF RInv, ProbeOK
  <2>3. ProbeOK(z)'
    BY <1>1, <1>3, <2>2 DEF ProbeOK
  <2> QED
    BY <1>1, <2>1, <2>3
<1> QED
  BY <1>1, <1>2, <1>4, <1>5 DEF RInv

\* Time passes for the answer, the run and the dependencies alike.
LEMMA ReadyTickOK ==
    ASSUME RInv, ReadyTick, cfg' = cfg
    PROVE  RInv'
<1>1. /\ DOMAIN dep' = Deps
      /\ \A d \in Deps :
            /\ DOMAIN dep'[d] = {"up", "since"} /\ dep'[d].up \in BOOLEAN /\ (dep'[d].up <=> dep[d].up)
            /\ dep'[d].since \in Nat /\ dep'[d].since <= dep[d].since + 1
  BY DEF RInv, DepOK, ReadyTick
<1>2. DepOK'
  BY <1>1 DEF DepOK
<1>3. ASSUME NEW e \in Deps, NEW t \in Nat
      PROVE  (Works(e, t) => Works(e, t + 1)') /\ (Fails(e, t) => Fails(e, t + 1)')
  <2>1. dep[e].since \in Nat
    BY DEF RInv, DepOK
  <2> QED
    BY <1>1, <2>1 DEF Works, Fails
<1>4. AnswerOK'
  <2>1. /\ DOMAIN rd' = {"age", "err", "inflight"} /\ rd'.err \in BOOLEAN /\ (rd'.err <=> rd.err)
        /\ rd'.age = (IF rd.age < TTL THEN rd.age + 1 ELSE TTL)
    BY DEF RInv, AnswerOK, ReadyTick
  <2>2. rd.age \in Nat /\ TTL \in Nat /\ Budget + rd.age \in Nat
    BY ReadinessAssumption DEF RInv, AnswerOK
  <2>3. rd'.age \in Nat /\ (rd'.age < TTL => rd.age < TTL /\ Budget + rd'.age = (Budget + rd.age) + 1)
    BY <2>1, <2>2, ReadinessAssumption
  <2> QED
    BY <1>3, <2>1, <2>2, <2>3 DEF RInv, AnswerOK
<1>5. ASSUME NEW r \in Probes PROVE ProbeOK(probe[r])'
  <2>1. PICK q : q = probe[r]
    OBVIOUS
  <2>2. PICK z : z = probe'[r]
    OBVIOUS
  <2>3. ProbeOK(q) /\ q.pc # "woken" /\ Budget - q.left \in Nat
    BY <2>1, ReadinessAssumption DEF RInv, ProbeOK, ReadyTick, Probing
  <2>4. CASE q.pc # "run"
    <3>1. z = q
      BY <2>1, <2>2, <2>4 DEF ReadyTick, Probing
    <3> QED
      BY <2>2, <2>3, <2>4, <3>1 DEF ProbeOK
  <2>5. CASE q.pc = "run"
    <3>1. z = [q EXCEPT !.left = q.left - 1] /\ q.left > 0
      BY <2>1, <2>2, <2>5 DEF ReadyTick, Probing
    <3>2. DOMAIN z = ProbeFields /\ z.pc = "run" /\ z.left = q.left - 1 /\ z.found = q.found
      BY <2>3, <2>5, <3>1 DEF ProbeOK, ProbeFields
    <3>3. z.left \in Nat /\ z.left <= Budget /\ Budget - z.left = (Budget - q.left) + 1
      BY <2>3, <3>1, <3>2, ReadinessAssumption DEF ProbeOK
    <3>4. ProbeOK(z)'
      BY <1>3, <2>3, <2>5, <3>2, <3>3 DEF ProbeOK
    <3> QED
      BY <2>2, <3>4
  <2> QED
    BY <2>4, <2>5
<1>6. DOMAIN probe' = Probes
  BY DEF ReadyTick
<1> QED
  BY <1>2, <1>4, <1>5, <1>6 DEF RInv

\* The invariant of the readiness answer.
THEOREM ReadinessInvariant == Spec => []RInv
<1>1. Init => RInv
  <2> SUFFICES ASSUME Init PROVE RInv
    OBVIOUS
  <2>1. /\ DOMAIN NoProbe = ProbeFields /\ NoProbe.pc = "idle" /\ NoProbe.left = 0
        /\ NoProbe.found \in [Deps -> {"todo", "ok", "bad"}]
        /\ \A d \in Deps : NoProbe.found[d] = "todo"
    BY DEF NoProbe, ProbeFields
  <2>2. ProbeOK(NoProbe)
    BY <2>1, ReadinessAssumption DEF ProbeOK
  <2>3. DepOK
    BY ReadinessAssumption DEF Init, ReadyInit, DepOK, Lag
  <2>4. AnswerOK
    BY ReadinessAssumption DEF Init, ReadyInit, AnswerOK
  <2> QED
    BY <2>2, <2>3, <2>4 DEF RInv, Init, ReadyInit
<1>2. RInv /\ [Next]_vars => RInv'
  <2> SUFFICES ASSUME RInv, [Next]_vars PROVE RInv'
    OBVIOUS
  <2>1. CASE UNCHANGED <<cfg, readyVars>>
    BY <2>1 DEF readyVars, RInv, DepOK, AnswerOK, ProbeOK, Works, Fails
  <2>2. ASSUME NEW p \in Probes, DoesProbe(p) \/ ProbeHappens(p) PROVE RInv'
    BY <2>2, CheckOK, RunOK, PublishOK, WokenOK, ProbeBeginOK, ProbeGoneOK
       DEF DoesProbe, ProbeHappens, ProbeStep
  <2>3. CASE Elsewhere
    BY <2>3, ReadyTickOK, FlipOK DEF Elsewhere
  <2>4. CASE \/ \E c \in Calls : DoesClient(c) \/ DoesHandler(c) \/ DoesCancel(c)
             \/ DoesUpload \/ DoesStop \/ Happens
    <3>1. UNCHANGED <<cfg, readyVars>>
      BY <2>4 DEF DoesClient, DoesHandler, DoesCancel, DoesUpload, DoesStop, Happens
    <3> QED
      BY <2>1, <3>1
  <2> QED
    BY <2>1, <2>2, <2>3, <2>4 DEF Next, vars
<1> QED
  BY <1>1, <1>2, PTL DEF Spec

\* A probe that gets its answer in a step: where the answer comes from.
LEMMA AnswerSource ==
    ASSUME RInv, NEW r \in Probes, NEW p \in Probes, DoesProbe(r) \/ ProbeHappens(r),
           probe[p].answer = "none", probe'[p].answer # "none"
    PROVE  \/ rd.age < TTL /\ probe'[p].answer = Says(rd.err)
           \/ Complete(p) /\ probe'[p].answer = Says(Failed(p))
<1>1. /\ DOMAIN probe = Probes /\ DOMAIN probe[p] = ProbeFields /\ DOMAIN probe[r] = ProbeFields
      /\ probe[r].pc = "woken" => rd.age = 0
  BY DEF RInv, ProbeOK
<1>2. NoProbe.answer = "none" /\ DOMAIN NoProbe = ProbeFields
  BY DEF NoProbe, ProbeFields
<1>3. /\ Answered(r, rd.err).answer = Says(rd.err)
      /\ Answered(r, Failed(r)).answer = Says(Failed(r))
  BY AnsweredProbeOK
<1>4. CASE check(r)
  <2>1. \/ rd.age < TTL /\ probe' = [probe EXCEPT ![r] = Answered(r, rd.err)]
        \/ probe' = [probe EXCEPT ![r].pc = "wait"]
        \/ probe' = [probe EXCEPT ![r].pc = "run", ![r].left = Budget]
    BY <1>4 DEF check
  <2> QED
    BY <1>1, <1>3, <2>1 DEF ProbeFields
<1>5. CASE \E d \in Deps : run(r, d)
  BY <1>1, <1>5 DEF run, ProbeFields
<1>6. CASE Publish(r)
  <2>1. CASE p = r
    BY <1>3, <1>6, <2>1 DEF Publish
  <2>2. CASE p # r
    <3>1. probe'[p] = probe[p] \/ probe'[p] = [probe[p] EXCEPT !.pc = "woken"]
      BY <1>6, <2>2 DEF Publish
    <3> QED
      BY <1>1, <3>1 DEF ProbeFields
  <2> QED
    BY <2>1, <2>2
<1>7. CASE Woken(r)
  <2>1. probe' = [probe EXCEPT ![r] = Answered(r, rd.err)] /\ rd.age < TTL
    BY <1>1, <1>7, ReadinessAssumption DEF Woken, Probing
  <2> QED
    BY <1>1, <1>3, <2>1
<1>8. CASE ProbeBegin(r)
  <2>1. [NoProbe EXCEPT !.pc = "check"].answer = "none"
    BY <1>2 DEF ProbeFields
  <2> QED
    BY <1>1, <1>8, <2>1 DEF ProbeBegin
<1>9. CASE ProbeGone(r)
  BY <1>1, <1>9 DEF ProbeGone, ProbeFields
<1> QED
  BY <1>4, <1>5, <1>6, <1>7, <1>8, <1>9, Zenon DEF DoesProbe, ProbeHappens, ProbeStep

\* A verdict within the TTL, plus the check that made it, is within the lag.
LEMMA LagOK ==
    /\ Lag \in Nat /\ Budget \in Nat /\ Budget <= Lag
    /\ \A age \in Nat : age < TTL => Budget + age <= Lag
BY ReadinessAssumption DEF Lag

\* Who gets an answer in a step gets a recent one.
LEMMA RecentStep ==
    ASSUME RInv, Next, NEW p \in Probes, probe[p].answer = "none"
    PROVE  /\ probe'[p].answer = "ready" => \A d \in Deps : Works(d, Lag)
           /\ ~cfg.leaves /\ probe'[p].answer = "not ready" => \E d \in Deps : Fails(d, Lag)
<1>1. ASSUME NEW d \in Deps, NEW t \in Nat, t <= Lag
      PROVE  (Works(d, t) => Works(d, Lag)) /\ (Fails(d, t) => Fails(d, Lag))
  <2>1. dep[d].since \in Nat /\ Lag \in Nat
    BY LagOK DEF RInv, DepOK
  <2> QED
    BY <1>1, <2>1 DEF Works, Fails
<1>2. CASE \E r \in Probes : DoesProbe(r) \/ ProbeHappens(r)
  <2>1. CASE rd.age < TTL /\ probe'[p].answer = Says(rd.err)
    <3>1. Budget + rd.age \in Nat /\ Budget + rd.age <= Lag
      BY <2>1, LagOK DEF RInv, AnswerOK
    <3>2. /\ rd.err \in BOOLEAN
          /\ ~rd.err => \A d \in Deps : Works(d, Budget + rd.age)
          /\ rd.err /\ ~cfg.leaves => \E d \in Deps : Fails(d, Budget + rd.age)
      BY <2>1 DEF RInv, AnswerOK
    <3> QED
      BY <1>1, <2>1, <3>1, <3>2, Zenon DEF Says
  <2>2. CASE Complete(p) /\ probe'[p].answer = Says(Failed(p))
    <3>1. Budget \in Nat /\ Budget <= Lag
      BY LagOK
    <3>2. /\ Failed(p) \in BOOLEAN
          /\ ~Failed(p) => \A d \in Deps : Works(d, Budget)
          /\ Failed(p) /\ ~cfg.leaves => \E d \in Deps : Fails(d, Budget)
      BY <2>2, CompleteRun
    <3> QED
      BY <1>1, <2>2, <3>1, <3>2, Zenon DEF Says
  <2> QED
    BY <1>2, <2>1, <2>2, AnswerSource, Zenon
<1>3. CASE ~ \E r \in Probes : DoesProbe(r) \/ ProbeHappens(r)
  <2>1. probe'[p].answer = "none"
    <3>1. CASE Elsewhere
      <4>1. DOMAIN probe[p] = ProbeFields
        BY DEF RInv, ProbeOK
      <4>2. probe'[p] = probe[p] \/ probe'[p] = [probe[p] EXCEPT !.left = @ - 1]
        BY <3>1 DEF Elsewhere, ReadyTick, Flip
      <4> QED
        BY <4>1, <4>2 DEF ProbeFields
    <3>2. CASE ~Elsewhere
      BY <1>3, <3>2, Zenon DEF Next, DoesClient, DoesHandler, DoesCancel, DoesUpload, DoesStop, Happens, readyVars
    <3> QED
      BY <3>1, <3>2
  <2> QED
    BY <2>1
<1> QED
  BY <1>2, <1>3, Zenon

\* For any number of probes, any time an answer is believed and any time a run
\* may take: who is told "ready", or "not ready", is told of checks that came
\* out so within that time (server.go readiness.check, run).
THEOREM AnswersAreRecent == Spec => ReadinessRecent
<1>1. RInv /\ [Next]_vars =>
        [\A p \in Probes : probe[p].answer = "none" =>
           /\ probe'[p].answer = "ready" => \A d \in Deps : dep[d].up \/ dep[d].since <= Lag
           /\ ~cfg.leaves /\ probe'[p].answer = "not ready" =>
                \E d \in Deps : ~dep[d].up \/ dep[d].since <= Lag]_vars
  BY RecentStep, Zenon DEF Works, Fails
<1> QED
  BY <1>1, ReadinessInvariant, PTL DEF Spec, ReadinessRecent

-----------------------------------------------------------------------------
(* Calls and drain: the inductive invariant.                               *)

Fields == {"op", "key", "cpc", "n", "out", "hpc", "m", "size", "err", "wire", "fin",
           "resp", "gone"}

Typed(s) ==
    /\ DOMAIN s = Fields
    /\ s.op \in {"none", "put", "get", "stat"}
    /\ s.op # "none" => s.key \in Keys
    /\ s.cpc \in {"idle", "send", "receive", "receiveFailed", "meta", "read", "over"}
    /\ s.hpc \in {"idle", "arrived", "begin", "send", "body", "commit", "behind", "over"}
    /\ s.n \in Nat /\ s.m \in Nat /\ s.size \in Nat /\ s.wire \in Nat
    /\ s.fin \in BOOLEAN /\ s.gone \in BOOLEAN
    /\ s.out \in Outs /\ s.resp \in Codes /\ s.err \in TierErrors \cup {"none", "Unavailable"}

\* Client and handler are where the operation takes them; neither has a result
\* before it is done; and a client that leaves before its handler has gone
\* away.
Coherent(s) ==
    /\ s.op = "none" => s.cpc = "idle" /\ s.hpc = "idle"
    /\ s.cpc = "send" => s.op = "put"
    /\ s.cpc \in {"meta", "read"} => s.op = "get"
    /\ s.cpc \in {"receive", "receiveFailed"} => s.op \in {"put", "stat"}
    /\ s.hpc = "send" => s.op = "get"
    /\ s.hpc \in {"body", "commit", "behind"} => s.op = "put"
    /\ s.cpc # "over" => s.out = "none"
    /\ s.hpc # "over" => s.err = "none" /\ s.resp = "none" /\ s.out \in {"none", "Canceled"}
    /\ s.cpc = "over" /\ s.hpc # "over" => s.gone
    /\ s.cpc # "over" /\ s.hpc = "over" =>
          /\ s.err # "none"
          /\ s.resp = IF s.err = "Unavailable" THEN "Unavailable" ELSE toConnectError(s.err)
    /\ /\ s.out \notin {"none", "body"} /\ ~s.gone
       /\ s.err \in {"nil", "ErrNotFound", "ErrExists", "ErrNoSpace"}
       => s.out = s.err

\* No chunk is lost or made up while both ends look: what the sender has sent
\* the receiver has or the connection holds.
Bodies(s) ==
    /\ s.op = "put" /\ ~(s.cpc = "over" /\ s.hpc = "over") =>
          /\ s.m + s.wire = s.n
          /\ s.fin /\ ~cfg.sourceFails => s.n = Len
          /\ s.hpc = "commit" /\ ~cfg.sourceFails => s.m = Len
    /\ s.op = "get" /\ s.cpc # "over" => s.n + s.wire = s.m
    /\ s.op = "get" /\ s.resp = "ok" => s.m + 1 = s.size
    /\ s.op = "get" /\ s.out = "nil" => s.n + 1 = s.size

\* The client was told that its object is stored, or is about to be.
Acked(s) == s.op = "put" /\ (s.resp = "ok" \/ s.out = "nil")

\* The drain has come past the listeners in time, past the queue, past Close.
Quiesced == ~expired /\ life \in {"admin", "flush", "close", "saved", "exited"}
Flushed == ~expired /\ life \in {"close", "saved", "exited"}
Closed == ~expired /\ life \in {"saved", "exited"}

\* What the client was told is so, and stays so through the drain.
Durable(s) ==
    /\ Acked(s) \/ s.hpc = "behind" => stored[s.key] # None
    /\ Quiesced => s.hpc \in {"idle", "arrived", "over"}
    /\ Acked(s) /\ cfg.tiers = 2 /\ ~expired /\ life # "killed" => s.key \in queue \cup bucket \cup skipped
    /\ Acked(s) /\ Closed => s.key \in saved

CallOK(s) == Typed(s) /\ Coherent(s) /\ Bodies(s) /\ Durable(s)

LifeOK ==
    /\ life \in {"serving", "shutdown", "admin", "flush", "close", "saved", "exited", "killed"}
    /\ expired \in BOOLEAN /\ closed \in BOOLEAN
    /\ closed => life \notin {"serving", "shutdown", "admin"}
    /\ Flushed => queue = {}

\* The disk holds whole bodies, as far as clients have whole bodies to send.
StoreOK ==
    /\ stored \in [Keys -> Nat \cup {None}]
    /\ ~cfg.sourceFails => \A k \in Keys : stored[k] \in {None, Len}

WInv ==
    /\ cfg \in Configs /\ LifeOK /\ StoreOK
    /\ DOMAIN call = Calls /\ \A c \in Calls : CallOK(call[c])

-----------------------------------------------------------------------------
(* Errors, outcomes and settled calls.                                     *)

\* What a chain decides by goes over the wire and comes back as it was
\* (remote.go fromConnectError, cacheservice.go toConnectError).
LEMMA ErrorsTravel ==
    ASSUME NEW err \in TierErrors
    PROVE  /\ toConnectError(err) \in Codes \ {"none"}
           /\ toConnectError(err) = "ok" => err = "nil"
           /\ err \in {"nil", "ErrNotFound", "ErrExists", "ErrNoSpace"} =>
                 fromConnectError(toConnectError(err)) = err
BY DEF TierErrors, Codes, toConnectError, fromConnectError

\* An error code read back from the wire is success only when it was (remote.go fromConnectError).
LEMMA CodesTravel ==
    ASSUME NEW code \in Codes
    PROVE  /\ fromConnectError(code) \in Outs \ {"none", "body"}
           /\ fromConnectError(code) = "nil" => code = "ok"
BY DEF TierErrors, Codes, Outs, fromConnectError

\* A call both sides have left can be forgotten.
LEMMA SettledOK ==
    ASSUME NEW s, CallOK(s)
    PROVE  CallOK(Settled(s))
<1>1. CASE s.cpc # "over" \/ s.hpc # "over"
  BY <1>1 DEF Settled
<1>2. CASE s.cpc = "over" /\ s.hpc = "over"
  <2> DEFINE z == Settled(s)
  <2>1. /\ DOMAIN z = Fields /\ z.op = s.op /\ z.key = s.key /\ z.cpc = "over" /\ z.hpc = "over"
        /\ z.out = s.out /\ z.err = s.err /\ z.resp = "none"
        /\ z.gone \in BOOLEAN /\ (z.gone <=> s.gone)
        /\ z.n = (IF s.op = "get" /\ s.out = "nil" THEN s.n ELSE 0)
        /\ z.size = (IF s.op = "get" /\ s.out = "nil" THEN s.size ELSE 0)
        /\ z.m = 0 /\ z.wire = 0 /\ z.fin \in BOOLEAN
    BY <1>2, Zenon DEF Settled, NoCall, Fields, CallOK, Typed
  <2> HIDE DEF z
  <2>2. Typed(s) /\ Coherent(s) /\ Bodies(s) /\ Durable(s)
    BY DEF CallOK
  <2>3. Typed(z)
    BY <2>1, <2>2 DEF Typed, Codes
  <2>4. Coherent(z)
    <3>1. z.op # "none"
      BY <1>2, <2>1, <2>2, Zenon DEF Coherent
    <3>2. /\ z.out \notin {"none", "body"} /\ ~z.gone
          /\ z.err \in {"nil", "ErrNotFound", "ErrExists", "ErrNoSpace"}
          => z.out = z.err
      BY <2>1, <2>2, Zenon DEF Coherent
    <3> QED
      BY <2>1, <3>1, <3>2, Zenon DEF Coherent
  <2>5. Bodies(z)
    BY <2>1, <2>2, Zenon DEF Bodies
  <2>6. Durable(z)
    BY <2>1, <2>2, Zenon DEF Durable, Acked
  <2> QED
    BY <2>3, <2>4, <2>5, <2>6 DEF CallOK, z
<1> QED
  BY <1>1, <1>2

\* A step of one call that leaves everything else alone.
LEMMA OneCall ==
    ASSUME WInv, NEW c \in Calls, NEW s, CallOK(s), Set(c, s),
           UNCHANGED <<cfg, stored, queue, closed, skipped, lifeVars>>
    PROVE  WInv'
<1>1. CallOK(Settled(s))
  BY SettledOK
<1>2. /\ DOMAIN call' = Calls /\ call'[c] = Settled(s)
      /\ \A d \in Calls \ {c} : call'[d] = call[d]
  BY DEF WInv, Set
<1>3. /\ cfg' = cfg /\ stored' = stored /\ queue' = queue /\ closed' = closed /\ skipped' = skipped
      /\ life' = life /\ expired' = expired /\ bucket' = bucket /\ saved' = saved
  BY DEF lifeVars
<1>4. ASSUME NEW d \in Calls PROVE CallOK(call[d])'
  <2>1. CallOK(call'[d])
    BY <1>1, <1>2 DEF WInv
  <2>2. PICK p : p = call'[d]
    OBVIOUS
  <2>3. Typed(p) /\ Coherent(p) /\ Bodies(p) /\ Durable(p)
    BY <2>1, <2>2 DEF CallOK
  <2>4. Typed(p)' /\ Coherent(p)' /\ Bodies(p)'
    BY <1>3, <2>3, Zenon DEF Typed, Coherent, Bodies
  <2>5. Durable(p)'
    BY <1>3, <2>3, Zenon DEF Durable, Acked, Quiesced, Closed
  <2> QED
    BY <2>2, <2>4, <2>5 DEF CallOK
<1> QED
  BY <1>2, <1>3, <1>4 DEF WInv, LifeOK, StoreOK, Flushed

\* The client returns what the handler's response says.
LEMMA OutOK ==
    ASSUME NEW s, CallOK(s), s.cpc # "over", s.hpc = "over", s.op # "none",
           s.op = "get" /\ s.resp = "ok" => s.n = s.m
    PROVE  CallOK(Out(s, fromConnectError(s.resp)))
<1> DEFINE out == fromConnectError(s.resp)
           z == Out(s, out)
<1>1. Typed(s) /\ Coherent(s) /\ Bodies(s) /\ Durable(s)
  BY Zenon DEF CallOK
<1>2. s.resp \in Codes /\ s.err \in TierErrors \cup {"Unavailable"}
  BY <1>1 DEF Typed, Coherent
<1>3. out \in Outs \ {"none", "body"} /\ (out = "nil" => s.resp = "ok")
  BY <1>2, CodesTravel
<1>4. s.err \in {"nil", "ErrNotFound", "ErrExists", "ErrNoSpace"} => out = s.err
  <2>1. s.err \in {"nil", "ErrNotFound", "ErrExists", "ErrNoSpace"} =>
            s.err \in TierErrors /\ s.resp = toConnectError(s.err)
    BY <1>1, <1>2, Zenon DEF Coherent, TierErrors
  <2> QED
    BY <2>1, ErrorsTravel
<1> HIDE DEF out
<1>5. /\ DOMAIN z = Fields /\ z.op = s.op /\ z.key = s.key /\ z.cpc = "over" /\ z.hpc = "over"
      /\ z.out = out /\ z.err = s.err /\ z.resp = s.resp
      /\ z.gone \in BOOLEAN /\ (z.gone <=> s.gone) /\ z.fin \in BOOLEAN
      /\ z.n = s.n /\ z.m = s.m /\ z.size = s.size /\ z.wire = s.wire
  BY <1>1 DEF Out, Typed, Fields
<1> HIDE DEF z
<1>6. Typed(z)
  BY <1>1, <1>3, <1>5, Zenon DEF Typed
<1>7. Coherent(z)
  BY <1>1, <1>4, <1>5, Zenon DEF Coherent
<1>8. Bodies(z)
  BY <1>1, <1>3, <1>5, Zenon DEF Bodies
<1>9. Durable(z)
  BY <1>1, <1>3, <1>5, Zenon DEF Durable, Acked
<1> QED
  BY <1>6, <1>7, <1>8, <1>9, Zenon DEF CallOK, z, out

\* The client leaves a call it will not hear the end of.
LEMMA LeaveOK ==
    ASSUME NEW s, CallOK(s), s.cpc \notin {"idle", "over"}, NEW w \in Nat,
           s.op = "put" => w = s.wire
    PROVE  CallOK(Out([s EXCEPT !.gone = TRUE, !.wire = w], "Canceled"))
<1> DEFINE z == Out([s EXCEPT !.gone = TRUE, !.wire = w], "Canceled")
<1>1. Typed(s) /\ Coherent(s) /\ Bodies(s) /\ Durable(s)
  BY DEF CallOK
<1>2. /\ DOMAIN z = Fields /\ z.op = s.op /\ z.key = s.key /\ z.cpc = "over" /\ z.hpc = s.hpc
      /\ z.out = "Canceled" /\ z.err = s.err /\ z.resp = s.resp
      /\ z.gone \in BOOLEAN /\ z.gone /\ z.fin \in BOOLEAN /\ (z.fin <=> s.fin)
      /\ z.n = s.n /\ z.m = s.m /\ z.size = s.size /\ z.wire = w
  BY <1>1 DEF Out, Typed, Fields
<1> HIDE DEF z
<1>3. Typed(z)
  BY <1>1, <1>2, Zenon DEF Typed, Outs, TierErrors
<1>4. Coherent(z)
  BY <1>1, <1>2, Zenon DEF Coherent
<1>5. Bodies(z)
  BY <1>1, <1>2, Zenon DEF Bodies
<1>6. Durable(z)
  BY <1>1, <1>2, Zenon DEF Durable, Acked
<1> QED
  BY <1>3, <1>4, <1>5, <1>6 DEF CallOK, z

\* The handler of a call is done, and what it says is so.
LEMMA RespondOK ==
    ASSUME NEW s, CallOK(s), s.hpc \notin {"idle", "over"}, NEW err \in TierErrors,
           s.op = "get" /\ err = "nil" => s.m + 1 = s.size,
           s.op = "put" /\ err = "nil" =>
              /\ stored[s.key] # None /\ ~Closed
              /\ cfg.tiers = 2 /\ ~expired /\ life # "killed" => s.key \in queue \cup bucket \cup skipped
    PROVE  CallOK(Respond(s, err))
<1> DEFINE z == Respond(s, err)
<1>1. Typed(s) /\ Coherent(s) /\ Bodies(s) /\ Durable(s)
  BY DEF CallOK
<1>2. toConnectError(err) \in Codes \ {"none"} /\ (toConnectError(err) = "ok" => err = "nil")
  BY ErrorsTravel
<1>3. /\ DOMAIN z = Fields /\ z.op = s.op /\ z.key = s.key /\ z.cpc = s.cpc /\ z.hpc = "over"
      /\ z.out = s.out /\ z.err = err /\ z.resp = toConnectError(err)
      /\ z.gone \in BOOLEAN /\ (z.gone <=> s.gone) /\ z.fin \in BOOLEAN /\ (z.fin <=> s.fin)
      /\ z.n = s.n /\ z.m = s.m /\ z.size = s.size /\ z.wire = s.wire
  BY <1>1 DEF Respond, Typed, Fields
<1> HIDE DEF z
<1>4. err \notin {"none", "Unavailable"}
  BY DEF TierErrors
<1>5. Typed(z)
  BY <1>1, <1>2, <1>3, Zenon DEF Typed
<1>6. Coherent(z)
  BY <1>1, <1>3, <1>4, Zenon DEF Coherent
<1>7. Bodies(z)
  BY <1>1, <1>2, <1>3, Zenon DEF Bodies
<1>8. Durable(z)
  <2>1. Acked(z) => Acked(s) \/ (s.op = "put" /\ err = "nil")
    BY <1>2, <1>3, Zenon DEF Acked
  <2> QED
    BY <1>1, <1>3, <2>1, Zenon DEF Durable
<1> QED
  BY <1>5, <1>6, <1>7, <1>8, Zenon DEF CallOK, z

\* The client has its own error to return, whatever the response says.
LEMMA OutBodyOK ==
    ASSUME NEW s, CallOK(s), s.cpc = "receiveFailed", s.hpc = "over"
    PROVE  CallOK(Out(s, "body"))
<1> DEFINE z == Out(s, "body")
<1>1. Typed(s) /\ Coherent(s) /\ Bodies(s) /\ Durable(s)
  BY DEF CallOK
<1>2. /\ DOMAIN z = Fields /\ z.op = s.op /\ z.key = s.key /\ z.cpc = "over" /\ z.hpc = "over"
      /\ z.out = "body" /\ z.err = s.err /\ z.resp = s.resp
      /\ z.gone \in BOOLEAN /\ z.fin \in BOOLEAN
      /\ z.n = s.n /\ z.m = s.m /\ z.size = s.size /\ z.wire = s.wire
  BY <1>1 DEF Out, Typed, Fields
<1> HIDE DEF z
<1>3. Typed(z) /\ Coherent(z) /\ Bodies(z)
  BY <1>1, <1>2, Zenon DEF Typed, Coherent, Bodies, Outs
<1>4. Durable(z)
  BY <1>1, <1>2, Zenon DEF Durable, Acked
<1> QED
  BY <1>3, <1>4 DEF CallOK, z

-----------------------------------------------------------------------------
(* Clients.                                                                *)

\* A client makes a call (remote.go Put, Get, Stat).
LEMMA ArriveOK ==
    ASSUME WInv, NEW c \in Calls, Arrive(c), UNCHANGED <<cfg, lifeVars>>
    PROVE  WInv'
<1>1. PICK op \in {"put", "get", "stat"}, k \in Keys : CallBegin(c, op, k)
  BY DEF Arrive
<1> DEFINE pc == CASE op = "put" -> "send" [] op = "get" -> "meta" [] op = "stat" -> "receive"
           z == [NoCall EXCEPT !.op = op, !.key = k, !.hpc = "arrived", !.cpc = pc]
<1>2. /\ op = "put" => pc = "send"
      /\ op = "get" => pc = "meta"
      /\ op = "stat" => pc = "receive"
  OBVIOUS
<1> HIDE DEF pc
<1>3. /\ DOMAIN z = Fields /\ z.op = op /\ z.key = k /\ z.cpc = pc /\ z.hpc = "arrived"
      /\ z.out = "none" /\ z.err = "none" /\ z.resp = "none"
      /\ z.gone \in BOOLEAN /\ z.fin \in BOOLEAN /\ ~z.fin
      /\ z.n = 0 /\ z.m = 0 /\ z.size = 0 /\ z.wire = 0
  BY DEF NoCall, Fields
<1>4. Set(c, z) /\ UNCHANGED <<stored, queue, closed, skipped>>
  BY <1>1, Zenon DEF CallBegin, pc
<1> HIDE DEF z
<1>5. Typed(z) /\ Coherent(z) /\ Bodies(z)
  BY <1>2, <1>3 DEF Typed, Coherent, Bodies, Outs, Codes
<1>6. Durable(z)
  BY <1>3, Zenon DEF Durable, Acked
<1> QED
  BY <1>4, <1>5, <1>6, OneCall, Zenon DEF CallOK

\* One chunk goes out (remote.go Put).
LEMMA PutSendOK ==
    ASSUME WInv, NEW c \in Calls, PutSend(c), UNCHANGED <<cfg, lifeVars>>
    PROVE  WInv'
<1> DEFINE s == call[c]
           z == [s EXCEPT !.n = @ + 1, !.wire = @ + 1]
<1>1. /\ Set(c, z) /\ UNCHANGED <<stored, queue, closed, skipped>> /\ s.cpc = "send" /\ s.n < Len
      /\ CallOK(s)
  BY DEF PutSend, Client, WInv
<1> HIDE DEF s
<1>2. Typed(s) /\ Coherent(s) /\ Bodies(s) /\ Durable(s) /\ Len \in Nat
  BY <1>1, SizesAssumption DEF CallOK
<1>3. /\ DOMAIN z = Fields /\ z.op = s.op /\ z.key = s.key /\ z.cpc = s.cpc /\ z.hpc = s.hpc
      /\ z.out = s.out /\ z.err = s.err /\ z.resp = s.resp
      /\ z.gone \in BOOLEAN /\ (z.gone <=> s.gone) /\ z.fin \in BOOLEAN /\ (z.fin <=> s.fin)
      /\ z.n = s.n + 1 /\ z.m = s.m /\ z.size = s.size /\ z.wire = s.wire + 1
  BY <1>2 DEF Typed, Fields
<1> HIDE DEF z
<1>4. /\ s.n \in Nat /\ s.m \in Nat /\ s.wire \in Nat /\ s.m + s.wire = s.n
      /\ s.op = "put" /\ s.out = "none"
      /\ s.fin /\ ~cfg.sourceFails => s.n = Len
      /\ s.hpc = "commit" /\ ~cfg.sourceFails => s.m = Len
  BY <1>1, <1>2, Zenon DEF Typed, Coherent, Bodies
<1>5. z.n \in Nat /\ z.wire \in Nat /\ z.m + z.wire = z.n /\ s.n # Len
  BY <1>1, <1>2, <1>3, <1>4
<1>6. Typed(z) /\ Coherent(z)
  <2>1. Typed(z)
    BY <1>2, <1>3, <1>5, Zenon DEF Typed
  <2>2. Coherent(z)
    BY <1>2, <1>3, Zenon DEF Coherent
  <2> QED
    BY <2>1, <2>2
<1>7. Bodies(z)
  BY <1>3, <1>4, <1>5, Zenon DEF Bodies
<1>8. Durable(z)
  BY <1>2, <1>3, Zenon DEF Durable, Acked
<1> QED
  BY <1>1, <1>6, <1>7, <1>8, OneCall, Zenon DEF CallOK

\* The stream is closed for sending, at the body's end or where the body cannot
\* be read (remote.go Put).
LEMMA PutClosedOK ==
    ASSUME WInv, NEW c \in Calls, PutEnd(c) \/ PutSourceFails(c), UNCHANGED <<cfg, lifeVars>>
    PROVE  WInv'
<1>1. PICK pc \in {"receive", "receiveFailed"} :
         /\ Set(c, [call[c] EXCEPT !.fin = TRUE, !.cpc = pc])
         /\ UNCHANGED <<stored, queue, closed, skipped>> /\ call[c].cpc = "send"
         /\ ~cfg.sourceFails => call[c].n = Len
  BY DEF PutEnd, PutSourceFails, Client
<1> DEFINE s == call[c]
           z == [s EXCEPT !.fin = TRUE, !.cpc = pc]
<1>2. Typed(s) /\ Coherent(s) /\ Bodies(s) /\ Durable(s)
  BY DEF CallOK, WInv
<1>3. Set(c, z) /\ s.cpc = "send" /\ (~cfg.sourceFails => s.n = Len)
  BY <1>1
<1> HIDE DEF s
<1>4. /\ DOMAIN z = Fields /\ z.op = s.op /\ z.key = s.key /\ z.cpc = pc /\ z.hpc = s.hpc
      /\ z.out = s.out /\ z.err = s.err /\ z.resp = s.resp
      /\ z.gone \in BOOLEAN /\ (z.gone <=> s.gone) /\ z.fin \in BOOLEAN /\ z.fin
      /\ z.n = s.n /\ z.m = s.m /\ z.size = s.size /\ z.wire = s.wire
  BY <1>2 DEF Typed, Fields
<1> HIDE DEF z
<1>5. Typed(z) /\ Coherent(z)
  <2>1. Typed(z)
    BY <1>2, <1>4, Zenon DEF Typed
  <2>2. Coherent(z)
    BY <1>2, <1>3, <1>4, Zenon DEF Coherent
  <2> QED
    BY <2>1, <2>2
<1>6. Bodies(z)
  <2>1. /\ s.m + s.wire = s.n /\ s.op = "put"
        /\ s.hpc = "commit" /\ ~cfg.sourceFails => s.m = Len
    BY <1>2, <1>3, Zenon DEF Coherent, Bodies
  <2> QED
    BY <1>3, <1>4, <2>1, Zenon DEF Bodies
<1>7. Durable(z)
  BY <1>2, <1>4, Zenon DEF Durable, Acked
<1> QED
  BY <1>1, <1>3, <1>5, <1>6, <1>7, OneCall DEF CallOK

\* The response ends a Put or a Stat (remote.go Put, closePut, Stat).
LEMMA ReceiveOK ==
    ASSUME WInv, NEW c \in Calls, closePut(c) \/ Receive(c), UNCHANGED <<cfg, lifeVars>>
    PROVE  WInv'
<1> DEFINE s == call[c]
<1>1. CallOK(s) /\ UNCHANGED <<stored, queue, closed, skipped>> /\ s.hpc = "over"
  BY Zenon DEF WInv, closePut, Receive, Handler
<1>2. CASE s.cpc = "receiveFailed" /\ Set(c, Out(s, "body"))
  BY <1>1, <1>2, OutBodyOK, OneCall, Zenon
<1>3. CASE s.cpc \in {"send", "receive"} /\ Set(c, Out(s, fromConnectError(s.resp)))
  <2>1. s.op \notin {"none", "get"}
    BY <1>1, <1>3, Zenon DEF CallOK, Coherent
  <2>2. CallOK(Out(s, fromConnectError(s.resp)))
    BY <1>1, <1>3, <2>1, OutOK, Zenon
  <2> QED
    BY <1>1, <1>3, <2>2, OneCall, Zenon
<1> QED
  BY <1>2, <1>3, Zenon DEF closePut, Receive, Client

\* The metadata or the error of a Get (remote.go Get).
LEMMA GetMetaOK ==
    ASSUME WInv, NEW c \in Calls, GetMeta(c), UNCHANGED <<cfg, lifeVars>>
    PROVE  WInv'
<1> DEFINE s == call[c]
           z == [s EXCEPT !.cpc = "read"]
<1>1. /\ CallOK(s) /\ UNCHANGED <<stored, queue, closed, skipped>> /\ s.cpc = "meta"
      /\ \/ Set(c, z)
         \/ s.size = 0 /\ s.hpc = "over" /\ Set(c, Out(s, fromConnectError(s.resp)))
  BY DEF GetMeta, Client, Handler, WInv
<1> HIDE DEF s
<1>2. Typed(s) /\ Coherent(s) /\ Bodies(s) /\ Durable(s) /\ s.op = "get"
  BY <1>1 DEF CallOK, Coherent
<1>3. CASE Set(c, z)
  <2>1. /\ DOMAIN z = Fields /\ z.op = s.op /\ z.key = s.key /\ z.cpc = "read" /\ z.hpc = s.hpc
        /\ z.out = s.out /\ z.err = s.err /\ z.resp = s.resp
        /\ z.gone \in BOOLEAN /\ (z.gone <=> s.gone) /\ z.fin \in BOOLEAN
        /\ z.n = s.n /\ z.m = s.m /\ z.size = s.size /\ z.wire = s.wire
    BY <1>2 DEF Typed, Fields
  <2> HIDE DEF z
  <2>2. Typed(z) /\ Coherent(z) /\ Bodies(z)
    <3>1. Typed(z)
      BY <1>2, <2>1, Zenon DEF Typed
    <3>2. Coherent(z)
      BY <1>1, <1>2, <2>1, Zenon DEF Coherent
    <3>3. s.out = "none"
      BY <1>1, <1>2, Zenon DEF Coherent
    <3>4. Bodies(z)
      BY <1>1, <1>2, <2>1, <3>3, Zenon DEF Bodies
    <3> QED
      BY <3>1, <3>2, <3>4
  <2>3. Durable(z)
    BY <1>2, <2>1, Zenon DEF Durable, Acked
  <2> QED
    BY <1>1, <1>3, <2>2, <2>3, OneCall, Zenon DEF CallOK
<1>4. CASE s.size = 0 /\ s.hpc = "over" /\ Set(c, Out(s, fromConnectError(s.resp)))
  <2>1. s.resp # "ok"
    BY <1>2, <1>4 DEF Typed, Bodies
  <2>2. CallOK(Out(s, fromConnectError(s.resp)))
    BY <1>1, <1>2, <1>4, <2>1, OutOK
  <2> QED
    BY <1>1, <1>4, <2>2, OneCall
<1> QED
  BY <1>1, <1>3, <1>4

\* A chunk, the end of the file or the stream's error (remote.go
\* getStream.Read).
LEMMA GetReadOK ==
    ASSUME WInv, NEW c \in Calls, GetRead(c), UNCHANGED <<cfg, lifeVars>>
    PROVE  WInv'
<1> DEFINE s == call[c]
           z == [s EXCEPT !.n = @ + 1, !.wire = @ - 1]
<1>1. /\ CallOK(s) /\ UNCHANGED <<stored, queue, closed, skipped>> /\ s.cpc = "read"
      /\ \/ s.wire > 0 /\ Set(c, z)
         \/ s.wire = 0 /\ s.hpc = "over" /\ Set(c, Out(s, fromConnectError(s.resp)))
  BY DEF GetRead, Client, Handler, WInv
<1> HIDE DEF s
<1>2. Typed(s) /\ Coherent(s) /\ Bodies(s) /\ Durable(s) /\ s.op = "get"
  BY <1>1 DEF CallOK, Coherent
<1>3. CASE s.wire > 0 /\ Set(c, z)
  <2>1. /\ DOMAIN z = Fields /\ z.op = s.op /\ z.key = s.key /\ z.cpc = "read" /\ z.hpc = s.hpc
        /\ z.out = s.out /\ z.err = s.err /\ z.resp = s.resp
        /\ z.gone \in BOOLEAN /\ (z.gone <=> s.gone) /\ z.fin \in BOOLEAN
        /\ z.n = s.n + 1 /\ z.m = s.m /\ z.size = s.size /\ z.wire = s.wire - 1
    BY <1>1, <1>2 DEF Typed, Fields
  <2> HIDE DEF z
  <2>2. Typed(z) /\ Coherent(z)
    <3>1. Typed(z)
      BY <1>2, <1>3, <2>1 DEF Typed
    <3>2. Coherent(z)
      BY <1>1, <1>2, <2>1, Zenon DEF Coherent
    <3> QED
      BY <3>1, <3>2
  <2>3. Bodies(z)
    <3>1. s.n \in Nat /\ s.m \in Nat /\ s.wire \in Nat /\ s.n + s.wire = s.m /\ s.out = "none"
      BY <1>1, <1>2, Zenon DEF Typed, Coherent, Bodies
    <3>2. z.n + z.wire = z.m
      BY <2>1, <3>1
    <3>3. z.resp = "ok" => z.m + 1 = z.size
      BY <1>2, <2>1, Zenon DEF Bodies
    <3> QED
      BY <1>2, <2>1, <3>1, <3>2, <3>3, Zenon DEF Bodies
  <2>4. Durable(z)
    BY <1>2, <2>1, Zenon DEF Durable, Acked
  <2> QED
    BY <1>1, <1>3, <2>2, <2>3, <2>4, OneCall, Zenon DEF CallOK
<1>4. CASE s.wire = 0 /\ s.hpc = "over" /\ Set(c, Out(s, fromConnectError(s.resp)))
  <2>1. s.n = s.m
    BY <1>1, <1>2, <1>4 DEF Typed, Bodies
  <2>2. CallOK(Out(s, fromConnectError(s.resp)))
    BY <1>1, <1>2, <1>4, <2>1, OutOK
  <2> QED
    BY <1>1, <1>4, <2>2, OneCall
<1> QED
  BY <1>1, <1>3, <1>4

\* A client leaves, or is cut off (remote.go idle timeout; server.go Shutdown).
LEMMA LeavesOK ==
    ASSUME WInv, NEW c \in Calls, Cancel(c) \/ CutOff(c), UNCHANGED <<cfg, lifeVars>>
    PROVE  WInv'
<1> DEFINE s == call[c]
<1>1. CallOK(s) /\ UNCHANGED <<stored, queue, closed, skipped>> /\ s.cpc \notin {"idle", "over"}
  BY DEF WInv, Cancel, CutOff
<1>2. DOMAIN s = Fields /\ s.wire \in Nat
  BY <1>1, Zenon DEF CallOK, Typed
<1>3. PICK w \in Nat : /\ s.op = "put" => w = s.wire
                       /\ Set(c, Out([s EXCEPT !.gone = TRUE, !.wire = w], "Canceled"))
  <2>1. CASE Cancel(c)
    <3> DEFINE w == IF s.wire > 0 /\ s.op = "get" THEN 0 ELSE s.wire
    <3>1. Set(c, Out([s EXCEPT !.gone = TRUE, !.wire = w], "Canceled"))
      BY <2>1 DEF Cancel
    <3> QED
      BY <1>2, <3>1, Zenon
  <2>2. CASE CutOff(c)
    <3>1. [s EXCEPT !.gone = TRUE, !.wire = s.wire] = [s EXCEPT !.gone = TRUE]
      BY <1>2, Zenon
    <3>2. Set(c, Out([s EXCEPT !.gone = TRUE, !.wire = s.wire], "Canceled"))
      BY <2>2, <3>1 DEF CutOff
    <3> QED
      BY <1>2, <3>2, Zenon
  <2> QED
    BY <2>1, <2>2, Zenon
<1>4. CallOK(Out([s EXCEPT !.gone = TRUE, !.wire = w], "Canceled"))
  BY <1>1, <1>3, LeaveOK, Zenon
<1> QED
  BY <1>1, <1>3, <1>4, OneCall

-----------------------------------------------------------------------------
(* Handlers.                                                               *)

\* A handler goes on to where its operation takes it next.
LEMMA StageOK ==
    ASSUME NEW s, CallOK(s), s.hpc \notin {"idle", "over"}, ~Quiesced,
           NEW pc, NEW size \in Nat,
           \/ pc = "begin" /\ size = s.size
           \/ pc = "send" /\ s.op = "get"
           \/ pc = "body" /\ s.op = "put" /\ size = s.size
           \/ pc = "commit" /\ s.op = "put" /\ size = s.size /\ s.wire = 0 /\ s.fin
           \/ pc = "behind" /\ s.op = "put" /\ size = s.size /\ stored[s.key] # None
    PROVE  CallOK([s EXCEPT !.size = size, !.hpc = pc])
<1> DEFINE z == [s EXCEPT !.size = size, !.hpc = pc]
<1>1. Typed(s) /\ Coherent(s) /\ Bodies(s) /\ Durable(s)
  BY Zenon DEF CallOK
<1>2. /\ DOMAIN z = Fields /\ z.op = s.op /\ z.key = s.key /\ z.cpc = s.cpc /\ z.hpc = pc
      /\ z.out = s.out /\ z.err = s.err /\ z.resp = s.resp
      /\ z.gone \in BOOLEAN /\ (z.gone <=> s.gone) /\ z.fin \in BOOLEAN /\ (z.fin <=> s.fin)
      /\ z.n = s.n /\ z.m = s.m /\ z.size = size /\ z.wire = s.wire
  BY <1>1 DEF Typed, Fields
<1>3. s.err = "none" /\ s.resp = "none" /\ s.op # "none" /\ s.out # "nil"
  BY <1>1, Zenon DEF Coherent
<1> HIDE DEF z
<1>5. Typed(z)
  BY <1>1, <1>2, Zenon DEF Typed
<1>6. Coherent(z)
  BY <1>1, <1>2, Zenon DEF Coherent
<1>7. Bodies(z)
  <2>1. s.wire = 0 /\ s.m + s.wire = s.n => s.m = s.n
    BY <1>1 DEF Typed
  <2> QED
    BY <1>1, <1>2, <1>3, <2>1, Zenon DEF Bodies
<1>8. Durable(z)
  BY <1>1, <1>2, Zenon DEF Durable, Acked, Closed, Quiesced
<1> QED
  BY <1>5, <1>6, <1>7, <1>8 DEF CallOK, z

\* The same, where the length of the file does not change.
LEMMA NextStageOK ==
    ASSUME NEW s, CallOK(s), s.hpc \notin {"idle", "over"}, ~Quiesced, NEW pc,
           \/ pc = "begin"
           \/ pc = "body" /\ s.op = "put"
           \/ pc = "commit" /\ s.op = "put" /\ s.wire = 0 /\ s.fin
           \/ pc = "behind" /\ s.op = "put" /\ stored[s.key] # None
    PROVE  CallOK([s EXCEPT !.hpc = pc])
<1>1. DOMAIN s = Fields /\ s.size \in Nat
  BY Zenon DEF CallOK, Typed
<1>2. [s EXCEPT !.size = s.size, !.hpc = pc] = [s EXCEPT !.hpc = pc]
  BY <1>1, Zenon
<1>3. CallOK([s EXCEPT !.size = s.size, !.hpc = pc])
  BY <1>1, StageOK, Zenon
<1> QED
  BY <1>2, <1>3

\* A call that no handler will see.
LEMMA TurnedAwayOK ==
    ASSUME NEW s, CallOK(s), s.hpc = "arrived"
    PROVE  CallOK([s EXCEPT !.hpc = "over", !.resp = "Unavailable", !.err = "Unavailable"])
<1> DEFINE z == [s EXCEPT !.hpc = "over", !.resp = "Unavailable", !.err = "Unavailable"]
<1>1. Typed(s) /\ Coherent(s) /\ Bodies(s) /\ Durable(s)
  BY DEF CallOK
<1>2. /\ DOMAIN z = Fields /\ z.op = s.op /\ z.key = s.key /\ z.cpc = s.cpc /\ z.hpc = "over"
      /\ z.out = s.out /\ z.err = "Unavailable" /\ z.resp = "Unavailable"
      /\ z.gone \in BOOLEAN /\ (z.gone <=> s.gone) /\ z.fin \in BOOLEAN /\ (z.fin <=> s.fin)
      /\ z.n = s.n /\ z.m = s.m /\ z.size = s.size /\ z.wire = s.wire
  BY <1>1 DEF Typed, Fields
<1> HIDE DEF z
<1>3. Typed(z)
  BY <1>1, <1>2, Zenon DEF Typed, Codes
<1>4. Coherent(z)
  BY <1>1, <1>2, Zenon DEF Coherent
<1>5. Bodies(z)
  BY <1>1, <1>2, Zenon DEF Bodies
<1>6. Durable(z)
  BY <1>1, <1>2, Zenon DEF Durable, Acked
<1> QED
  BY <1>3, <1>4, <1>5, <1>6 DEF CallOK, z

\* The gate lets a call in or turns it away (server.go limit).
LEMMA AcceptOK ==
    ASSUME WInv, NEW c \in Calls, Accept(c), UNCHANGED <<cfg, lifeVars>>
    PROVE  WInv'
<1> DEFINE s == call[c]
<1>1. CallOK(s) /\ UNCHANGED <<stored, queue, closed, skipped>> /\ s.hpc = "arrived"
  BY DEF WInv, Accept, limit, Handler
<1>2. CASE Set(c, [s EXCEPT !.hpc = "over", !.resp = "Unavailable", !.err = "Unavailable"])
  BY <1>1, <1>2, TurnedAwayOK, OneCall, Zenon
<1>3. CASE life = "serving" /\ Set(c, [s EXCEPT !.hpc = "begin"])
  <2>1. ~Quiesced
    BY <1>3 DEF Quiesced
  <2>2. CallOK([s EXCEPT !.hpc = "begin"])
    BY <1>1, <2>1, NextStageOK
  <2> QED
    BY <1>1, <1>3, <2>2, OneCall
<1> QED
  BY <1>2, <1>3 DEF Accept, limit

\* A handler that runs: the drain has not come past the listeners in time.
LEMMA RunningOK ==
    ASSUME WInv, NEW c \in Calls, call[c].hpc \notin {"idle", "arrived", "over"}
    PROVE  CallOK(call[c]) /\ ~Quiesced
BY Zenon DEF WInv, CallOK, Durable

\* The handlers of Stat and Get (cacheservice.go Stat, Get).
LEMMA StatOK ==
    ASSUME WInv, NEW c \in Calls, Stat(c), UNCHANGED <<cfg, lifeVars>>
    PROVE  WInv'
<1>1. PICK err \in TierErrors : Set(c, Respond(call[c], err))
  BY Zenon DEF Stat, TierErrors
<1>2. /\ UNCHANGED <<stored, queue, closed, skipped>> /\ call[c].op = "stat" /\ call[c].hpc = "begin"
      /\ CallOK(call[c])
  BY RunningOK, Zenon DEF Stat, Handler
<1>3. CallOK(Respond(call[c], err))
  BY <1>2, RespondOK, Zenon
<1> QED
  BY <1>1, <1>2, <1>3, OneCall, Zenon

\* A Get handler opens the object, or answers why not (cacheservice.go Get).
LEMMA GetOpenOK ==
    ASSUME WInv, NEW c \in Calls, GetOpen(c), UNCHANGED <<cfg, lifeVars>>
    PROVE  WInv'
<1> DEFINE s == call[c]
           size == stored[s.key]
<1>1. /\ UNCHANGED <<stored, queue, closed, skipped>> /\ s.op = "get" /\ s.hpc = "begin"
      /\ CallOK(s) /\ ~Quiesced
  BY RunningOK DEF GetOpen, Handler
<1>2. CASE size # None /\ Set(c, [s EXCEPT !.size = size + 1, !.hpc = "send"])
  <2>1. size + 1 \in Nat
    BY <1>1, <1>2 DEF WInv, StoreOK, CallOK, Typed
  <2>2. CallOK([s EXCEPT !.size = size + 1, !.hpc = "send"])
    BY <1>1, <2>1, StageOK, Zenon
  <2> QED
    BY <1>1, <1>2, <2>2, OneCall
<1>3. ASSUME NEW err \in {"ErrNotFound", "other"}, Set(c, Respond(s, err)) PROVE WInv'
  <2>1. err \in TierErrors /\ err # "nil"
    BY DEF TierErrors
  <2>2. CallOK(Respond(s, err))
    BY <1>1, <2>1, RespondOK, Zenon
  <2> QED
    BY <1>1, <1>3, <2>2, OneCall, Zenon
<1> QED
  BY <1>2, <1>3 DEF GetOpen

\* A Get handler sends the next message of the body (cacheservice.go Get).
LEMMA GetSendOK ==
    ASSUME WInv, NEW c \in Calls, GetSend(c), UNCHANGED <<cfg, lifeVars>>
    PROVE  WInv'
<1> DEFINE s == call[c]
           z == [s EXCEPT !.m = @ + 1, !.wire = @ + 1]
<1>1. /\ UNCHANGED <<stored, queue, closed, skipped>> /\ s.hpc = "send" /\ CallOK(s)
      /\ \/ Set(c, z)
         \/ s.m + 1 = s.size /\ Set(c, Respond(s, "nil"))
         \/ \E err \in {"other", "Canceled"} : Set(c, Respond(s, err))
  BY RunningOK DEF GetSend, Handler
<1> HIDE DEF s
<1>2. Typed(s) /\ Coherent(s) /\ Bodies(s) /\ Durable(s) /\ s.op = "get"
  BY <1>1 DEF CallOK, Coherent
<1>3. CASE Set(c, z)
  <2>1. /\ DOMAIN z = Fields /\ z.op = s.op /\ z.key = s.key /\ z.cpc = s.cpc /\ z.hpc = s.hpc
        /\ z.out = s.out /\ z.err = s.err /\ z.resp = s.resp
        /\ z.gone \in BOOLEAN /\ (z.gone <=> s.gone) /\ z.fin \in BOOLEAN
        /\ z.n = s.n /\ z.m = s.m + 1 /\ z.size = s.size /\ z.wire = s.wire + 1
    BY <1>2 DEF Typed, Fields
  <2> HIDE DEF z
  <2>2. Typed(z) /\ Coherent(z)
    <3>1. Typed(z)
      BY <1>2, <2>1 DEF Typed
    <3>2. Coherent(z)
      BY <1>2, <2>1, Zenon DEF Coherent
    <3> QED
      BY <3>1, <3>2
  <2>3. Bodies(z)
    <3>1. s.n \in Nat /\ s.m \in Nat /\ s.wire \in Nat /\ s.out # "nil" /\ s.resp = "none"
      BY <1>1, <1>2, Zenon DEF Typed, Coherent
    <3>2. z.cpc # "over" => z.n + z.wire = z.m
      <4>1. s.cpc # "over" => s.n + s.wire = s.m
        BY <1>2, Zenon DEF Bodies
      <4> QED
        BY <2>1, <3>1, <4>1
    <3> QED
      BY <1>2, <2>1, <3>1, <3>2, Zenon DEF Bodies
  <2>4. Durable(z)
    BY <1>2, <2>1, Zenon DEF Durable, Acked
  <2> QED
    BY <1>1, <1>3, <2>2, <2>3, <2>4, OneCall, Zenon DEF CallOK
<1>4. ASSUME NEW err \in TierErrors, Set(c, Respond(s, err)), err = "nil" => s.m + 1 = s.size
      PROVE  WInv'
  <2>1. CallOK(Respond(s, err))
    BY <1>1, <1>2, <1>4, RespondOK, Zenon
  <2> QED
    BY <1>1, <1>4, <2>1, OneCall, Zenon
<1> QED
  BY <1>1, <1>3, <1>4 DEF TierErrors

\* The handler of Put, up to the disk tier (cacheservice.go Put,
\* streamBody.Read).
LEMMA PutHeaderOK ==
    ASSUME WInv, NEW c \in Calls, PutHeader(c), UNCHANGED <<cfg, lifeVars>>
    PROVE  WInv'
<1> DEFINE s == call[c]
<1>1. /\ UNCHANGED <<stored, queue, closed, skipped>> /\ s.op = "put" /\ s.hpc = "begin"
      /\ CallOK(s) /\ ~Quiesced
  BY RunningOK DEF PutHeader, Handler
<1>2. CASE Set(c, [s EXCEPT !.hpc = "body"])
  <2>1. CallOK([s EXCEPT !.hpc = "body"])
    BY <1>1, NextStageOK
  <2> QED
    BY <1>1, <1>2, <2>1, OneCall
<1>3. ASSUME NEW err \in {"ErrExists", "ErrNoSpace"}, Set(c, Respond(s, err)) PROVE WInv'
  <2>1. err \in TierErrors /\ err # "nil"
    BY DEF TierErrors
  <2>2. CallOK(Respond(s, err))
    BY <1>1, <2>1, RespondOK, Zenon
  <2> QED
    BY <1>1, <1>3, <2>2, OneCall, Zenon
<1> QED
  BY <1>2, <1>3 DEF PutHeader

\* A Put handler receives the next message of the body (cacheservice.go Put).
LEMMA PutBodyOK ==
    ASSUME WInv, NEW c \in Calls, PutBody(c), UNCHANGED <<cfg, lifeVars>>
    PROVE  WInv'
<1> DEFINE s == call[c]
           z == [s EXCEPT !.m = @ + 1, !.wire = @ - 1]
<1>1. /\ UNCHANGED <<stored, queue, closed, skipped>> /\ s.hpc = "body" /\ CallOK(s) /\ ~Quiesced
      /\ \/ s.wire > 0 /\ Set(c, z)
         \/ s.wire = 0 /\ s.fin /\ Set(c, [s EXCEPT !.hpc = "commit"])
         \/ Set(c, Respond(s, "Canceled"))
  BY RunningOK DEF PutBody, Handler
<1> HIDE DEF s
<1>2. Typed(s) /\ Coherent(s) /\ Bodies(s) /\ Durable(s) /\ s.op = "put"
  BY <1>1 DEF CallOK, Coherent
<1>3. CASE s.wire > 0 /\ Set(c, z)
  <2>1. /\ DOMAIN z = Fields /\ z.op = s.op /\ z.key = s.key /\ z.cpc = s.cpc /\ z.hpc = s.hpc
        /\ z.out = s.out /\ z.err = s.err /\ z.resp = s.resp
        /\ z.gone \in BOOLEAN /\ (z.gone <=> s.gone) /\ z.fin \in BOOLEAN /\ (z.fin <=> s.fin)
        /\ z.n = s.n /\ z.m = s.m + 1 /\ z.size = s.size /\ z.wire = s.wire - 1
    BY <1>2 DEF Typed, Fields
  <2> HIDE DEF z
  <2>2. Typed(z) /\ Coherent(z)
    <3>1. Typed(z)
      BY <1>2, <1>3, <2>1 DEF Typed
    <3>2. Coherent(z)
      BY <1>2, <2>1, Zenon DEF Coherent
    <3> QED
      BY <3>1, <3>2
  <2>3. Bodies(z)
    BY <1>1, <1>2, <1>3, <2>1 DEF Typed, Coherent, Bodies
  <2>4. Durable(z)
    BY <1>2, <2>1, Zenon DEF Durable, Acked
  <2> QED
    BY <1>1, <1>3, <2>2, <2>3, <2>4, OneCall, Zenon DEF CallOK
<1>4. CASE s.wire = 0 /\ s.fin /\ Set(c, [s EXCEPT !.hpc = "commit"])
  <2>1. CallOK([s EXCEPT !.hpc = "commit"])
    BY <1>1, <1>2, <1>4, NextStageOK
  <2> QED
    BY <1>1, <1>4, <2>1, OneCall
<1>5. CASE Set(c, Respond(s, "Canceled"))
  <2>1. "Canceled" \in TierErrors
    BY DEF TierErrors
  <2>2. CallOK(Respond(s, "Canceled"))
    BY <1>1, <2>1, RespondOK
  <2> QED
    BY <1>1, <1>5, <2>2, OneCall
<1> QED
  BY <1>1, <1>3, <1>4, <1>5

\* A step of one call that also stores an object or passes one to the queue.
\* What was true of the other calls' objects still is.
LEMMA OneCallStores ==
    ASSUME WInv, NEW c \in Calls, NEW s, CallOK(s)', Set(c, s), LifeOK', StoreOK',
           \A k \in Keys : stored[k] # None => stored'[k] # None,
           queue \cup bucket \cup skipped \subseteq (queue \cup bucket \cup skipped)',
           UNCHANGED <<cfg, lifeVars>>
    PROVE  WInv'
<1>1. /\ DOMAIN call' = Calls /\ call'[c] = Settled(s)
      /\ \A d \in Calls \ {c} : call'[d] = call[d]
  BY Zenon DEF WInv, Set
<1>2. /\ cfg' = cfg /\ life' = life /\ expired' = expired /\ bucket' = bucket /\ saved' = saved
  BY Zenon DEF lifeVars
<1>3. ASSUME NEW d \in Calls PROVE CallOK(call[d])'
  <2>1. CASE d = c
    <3>1. CallOK(Settled(s))'
      BY SettledOK, PTL
    <3> QED
      BY <1>1, <2>1, <3>1, Zenon
  <2>2. CASE d # c
    <3>1. CallOK(call[d]) /\ call'[d] = call[d]
      BY <1>1, <2>2, Zenon DEF WInv
    <3>2. PICK p : p = call[d]
      BY Zenon
    <3>3. Typed(p) /\ Coherent(p) /\ Bodies(p) /\ Durable(p)
      BY <3>1, <3>2, Zenon DEF CallOK
    <3>4. Durable(p)'
      <4>1. stored[p.key] # None => stored'[p.key] # None \/ p.key \notin Keys
        BY Zenon
      <4>2. Acked(p) \/ p.hpc = "behind" => p.key \in Keys
        BY <3>3, Zenon DEF Typed, Coherent, Acked
      <4> QED
        BY <1>2, <3>3, <4>1, <4>2, Zenon DEF Durable, Acked, Quiesced, Closed
    <3>5. CallOK(p)'
      BY <1>2, <3>3, <3>4, Zenon DEF CallOK, Typed, Coherent, Bodies
    <3> QED
      BY <3>1, <3>2, <3>5, Zenon
  <2> QED
    BY <2>1, <2>2, Zenon
<1> QED
  BY <1>1, <1>2, <1>3, Zenon DEF WInv

\* The object of a Put that comes to its end is there.
Committed(s) == CallOK(s) /\ s.hpc = "commit" /\ ~Quiesced /\ stored[s.key] # None

\* Either chain goes on from there.
LEMMA CommittedOK ==
    ASSUME NEW s, Committed(s)
    PROVE  /\ CallOK([s EXCEPT !.hpc = "behind"])
           /\ cfg.tiers # 2 => CallOK(Respond(s, "nil"))
<1>1. s.op = "put" /\ "nil" \in TierErrors /\ ~Closed
  BY Zenon DEF Committed, CallOK, Coherent, TierErrors, Closed, Quiesced
<1> QED
  BY <1>1, NextStageOK, RespondOK DEF Committed

\* The disk tier has the object, or refuses it (disk.go Put under chain.go Put).
LEMMA PutCommitOK ==
    ASSUME WInv, NEW c \in Calls, PutCommit(c), UNCHANGED <<cfg, lifeVars>>
    PROVE  WInv'
<1>1. PICK s : s = call[c]
  OBVIOUS
<1>2. /\ UNCHANGED <<queue, closed, skipped>> /\ s.hpc = "commit" /\ CallOK(s) /\ ~Quiesced
      /\ \/ stored[s.key] # None /\ Set(c, [s EXCEPT !.hpc = "behind"]) /\ UNCHANGED stored
         \/ /\ stored' = [stored EXCEPT ![s.key] = s.m]
            /\ IF cfg.tiers = 2 THEN Set(c, [s EXCEPT !.hpc = "behind"])
                                ELSE Set(c, Respond(s, "nil"))
         \/ \E err \in {"ErrNoSpace", "other", "Canceled"} : Set(c, Respond(s, err)) /\ UNCHANGED stored
  BY <1>1, RunningOK DEF PutCommit, Handler, Refused
<1>3. Typed(s) /\ Coherent(s) /\ Bodies(s) /\ Durable(s) /\ s.op = "put" /\ s.key \in Keys
  BY <1>2 DEF CallOK, Coherent, Typed
<1>4. CASE stored[s.key] # None /\ Set(c, [s EXCEPT !.hpc = "behind"]) /\ UNCHANGED stored
  <2>1. CallOK([s EXCEPT !.hpc = "behind"])
    BY <1>2, <1>3, <1>4, NextStageOK
  <2> QED
    BY <1>2, <1>4, <2>1, OneCall
<1>5. ASSUME NEW err \in {"ErrNoSpace", "other", "Canceled"}, Set(c, Respond(s, err)), UNCHANGED stored
      PROVE  WInv'
  <2>1. err \in TierErrors /\ err # "nil"
    BY DEF TierErrors
  <2>2. CallOK(Respond(s, err))
    BY <1>2, <2>1, RespondOK
  <2> QED
    BY <1>2, <1>5, <2>2, OneCall
<1>6. CASE /\ stored' = [stored EXCEPT ![s.key] = s.m]
           /\ IF cfg.tiers = 2 THEN Set(c, [s EXCEPT !.hpc = "behind"])
                               ELSE Set(c, Respond(s, "nil"))
  <2>1. s.m \in Nat /\ None \notin Nat /\ (~cfg.sourceFails => s.m = Len)
    BY <1>2, <1>3, SizesAssumption DEF Typed, Bodies
  <2>2. /\ cfg' = cfg /\ life' = life /\ expired' = expired /\ bucket' = bucket /\ saved' = saved
        /\ queue' = queue /\ closed' = closed /\ skipped' = skipped
    BY <1>2 DEF lifeVars
  <2>3. /\ stored' \in [Keys -> Nat \cup {None}] /\ stored'[s.key] = s.m
        /\ \A k \in Keys \ {s.key} : stored'[k] = stored[k]
    BY <1>3, <1>6, <2>1 DEF WInv, StoreOK
  <2>4. StoreOK' /\ LifeOK'
    BY <2>1, <2>2, <2>3, Zenon DEF WInv, StoreOK, LifeOK, Flushed
  <2>5. \A k \in Keys : stored[k] # None => stored'[k] # None
    BY <2>1, <2>3, Zenon
  <2>6. CallOK(s)'
    BY <1>3, <2>1, <2>2, <2>3, Zenon
       DEF CallOK, Typed, Coherent, Bodies, Durable, Acked, Quiesced, Closed
  <2>7. Committed(s)'
    BY <1>2, <2>1, <2>2, <2>3, <2>6 DEF Quiesced, Committed
  <2>8. /\ CallOK([s EXCEPT !.hpc = "behind"])'
        /\ (cfg.tiers # 2 => CallOK(Respond(s, "nil")))'
    BY <2>7, CommittedOK, PTL
  <2>9. CASE cfg.tiers = 2
    BY <1>6, <2>2, <2>4, <2>5, <2>8, <2>9, OneCallStores
  <2>10. CASE cfg.tiers # 2
    <3>1. CallOK(Respond(s, "nil"))'
      BY <2>2, <2>8, <2>10
    <3> QED
      BY <1>6, <2>2, <2>4, <2>5, <2>10, <3>1, OneCallStores
  <2> QED
    BY <2>9, <2>10, Zenon
<1> QED
  BY <1>2, <1>4, <1>5, <1>6, Zenon

\* An object that is stored and that the queue was offered.
Offered(s) ==
    /\ CallOK(s) /\ s.hpc = "behind" /\ ~Quiesced
    /\ cfg.tiers = 2 /\ ~expired /\ life # "killed" => s.key \in queue \cup bucket \cup skipped

\* A put the queue has taken or skipped may be answered with success.
LEMMA OfferedOK ==
    ASSUME NEW s, Offered(s)
    PROVE  CallOK(Respond(s, "nil"))
<1>1. s.op = "put" /\ "nil" \in TierErrors /\ ~Closed /\ stored[s.key] # None
  BY Zenon DEF Offered, CallOK, Coherent, Durable, TierErrors, Closed, Quiesced
<1> QED
  BY <1>1, RespondOK, Zenon DEF Offered

\* The queue takes the object or does not (chain.go Put; serve.go: the queue
\* is closed after the listeners).
LEMMA PutBehindOK ==
    ASSUME WInv, NEW c \in Calls, PutBehind(c), UNCHANGED <<cfg, lifeVars>>
    PROVE  WInv'
<1>1. PICK s : s = call[c]
  OBVIOUS
<1>2. s.hpc = "behind" /\ CallOK(s) /\ ~Quiesced /\ Set(c, Respond(s, "nil"))
  BY <1>1, RunningOK, Zenon DEF PutBehind, Handler
<1>3. /\ queue \subseteq queue' /\ skipped \subseteq skipped'
      /\ closed \/ s.key \in queue' \cup skipped'
      /\ stored' = stored /\ closed' = closed
  BY <1>1, Zenon DEF PutBehind
<1>4. cfg' = cfg /\ life' = life /\ expired' = expired /\ bucket' = bucket /\ saved' = saved
  BY DEF lifeVars
<1>5. closed /\ ~expired => life = "killed"
  BY <1>2, Zenon DEF WInv, LifeOK, Quiesced
<1>6. CallOK(s)'
  BY <1>2, <1>3, <1>4, Zenon
     DEF CallOK, Typed, Coherent, Bodies, Durable, Acked, Quiesced, Closed
<1>7. Offered(s)'
  BY <1>2, <1>3, <1>4, <1>5, <1>6, Zenon DEF Offered, Quiesced
<1>8. CallOK(Respond(s, "nil"))'
  BY <1>7, OfferedOK, PTL
<1>9. LifeOK' /\ StoreOK'
  BY <1>2, <1>3, <1>4, Zenon DEF WInv, LifeOK, StoreOK, Flushed, Quiesced
<1>10. queue \cup bucket \cup skipped \subseteq (queue \cup bucket \cup skipped)'
  BY <1>3, <1>4
<1> QED
  BY <1>2, <1>3, <1>8, <1>9, <1>10, OneCallStores, Zenon

-----------------------------------------------------------------------------
(* The life of the process.                                                *)

\* A step of the process: objects stay where they are, and the drain takes its
\* stages in order.
LEMMA OneStage ==
    ASSUME WInv, LifeOK', UNCHANGED <<cfg, stored>>,
           DOMAIN call' = Calls,
           \A c \in Calls :
              \/ call'[c] = call[c]
              \/ call[c].hpc \notin {"idle", "over"} /\ call'[c] = [call[c] EXCEPT !.gone = TRUE],
           queue \cup bucket \cup skipped \subseteq (queue \cup bucket \cup skipped)',
           expired => expired', life = "killed" => life' = "killed",
           Quiesced' => Quiesced \/ Handling = {},
           Closed' => \/ Closed /\ saved' = saved
                      \/ saved' = {k \in Keys : stored[k] # None}
    PROVE  WInv'
<1>1. ASSUME NEW c \in Calls PROVE CallOK(call[c])'
  <2>1. PICK s : s = call[c]
    OBVIOUS
  <2>2. PICK p : p = call'[c]
    OBVIOUS
  <2>3. Typed(s) /\ Coherent(s) /\ Bodies(s) /\ Durable(s)
    BY <2>1 DEF WInv, CallOK
  <2>4. /\ DOMAIN p = Fields /\ p.op = s.op /\ p.key = s.key /\ p.cpc = s.cpc /\ p.hpc = s.hpc
        /\ p.out = s.out /\ p.err = s.err /\ p.resp = s.resp
        /\ p.gone \in BOOLEAN /\ (s.gone => p.gone) /\ p.fin \in BOOLEAN /\ (p.fin <=> s.fin)
        /\ p.n = s.n /\ p.m = s.m /\ p.size = s.size /\ p.wire = s.wire
    <3>1. p = s \/ p = [s EXCEPT !.gone = TRUE]
      BY <2>1, <2>2
    <3> QED
      BY <2>3, <3>1, Zenon DEF Typed, Fields
  <2>5. Typed(p) /\ Coherent(p)
    BY <2>3, <2>4 DEF Typed, Coherent
  <2>6. Bodies(p)
    BY <2>3, <2>4 DEF Bodies
  <2>7. Durable(p)'
    <3>1. Acked(p) \/ p.hpc = "behind" => stored[p.key] # None /\ p.key \in Keys
      BY <2>3, <2>4, Zenon DEF Durable, Acked, Typed, Coherent
    <3>2. Quiesced' => p.hpc \in {"idle", "arrived", "over"}
      BY <2>1, <2>3, <2>4, Zenon DEF Durable, Handling
    <3>3. (Acked(p) /\ cfg.tiers = 2 /\ ~expired' /\ life' # "killed") =>
              p.key \in (queue \cup bucket \cup skipped)'
      BY <2>3, <2>4 DEF Durable, Acked
    <3>4. Acked(p) /\ Closed' => p.key \in saved'
      BY <2>3, <2>4, <3>1 DEF Durable, Acked
    <3> QED
      BY <3>1, <3>2, <3>3, <3>4, Zenon DEF Durable, Acked
  <2>8. CallOK(p)'
    BY <2>5, <2>6, <2>7, Zenon DEF CallOK, Typed, Coherent, Bodies
  <2> QED
    BY <2>2, <2>8
<1> QED
  BY <1>1 DEF WInv, StoreOK

\* The queue uploads; the drain; what happens to a server (serve.go runServe).
LEMMA UploadOK ==
    ASSUME WInv, DoesUpload
    PROVE  WInv'
<1>1. PICK k \in Keys : Upload(k)
  BY DEF DoesUpload
<1>2. /\ call' = call /\ stored' = stored /\ closed' = closed /\ skipped' = skipped
      /\ life' = life /\ expired' = expired /\ saved' = saved /\ cfg' = cfg
      /\ queue' = queue \ {k} /\ bucket' = bucket \cup {k}
  BY <1>1, Zenon DEF Upload, DoesUpload
<1>3. LifeOK' /\ (Quiesced' <=> Quiesced) /\ (Closed' <=> Closed)
  BY <1>2, Zenon DEF WInv, LifeOK, Flushed, Quiesced, Closed
<1>4. queue \cup bucket \cup skipped \subseteq (queue \cup bucket \cup skipped)'
  BY <1>2, Zenon
<1>5. DOMAIN call' = Calls /\ \A c \in Calls : call'[c] = call[c]
  BY <1>2, Zenon DEF WInv
<1> QED
  BY <1>2, <1>3, <1>4, <1>5, OneStage, Zenon

\* The graceful shutdown of the listener returns, in time or not (main.go).
LEMMA ShutdownOK ==
    ASSUME WInv, Shutdown, cfg' = cfg
    PROVE  WInv'
<1>1. /\ stored' = stored /\ closed' = closed /\ skipped' = skipped /\ queue' = queue
      /\ bucket' = bucket /\ saved' = saved /\ life = "shutdown" /\ life' = "admin"
  BY DEF Shutdown
<1>2. /\ expired' \in BOOLEAN /\ (expired => expired') /\ (~expired' => Handling = {})
      /\ DOMAIN call' = Calls
      /\ \A c \in Calls : \/ call'[c] = call[c]
                          \/ /\ call[c].hpc \notin {"idle", "over"}
                             /\ call'[c] = [call[c] EXCEPT !.gone = TRUE]
  BY Zenon DEF Shutdown, WInv, LifeOK
<1>3. LifeOK' /\ (Quiesced' => Handling = {}) /\ ~Closed'
  BY <1>1, <1>2 DEF WInv, LifeOK, Flushed, Quiesced, Closed
<1>4. queue \cup bucket \cup skipped \subseteq (queue \cup bucket \cup skipped)'
  BY <1>1
<1> QED
  BY <1>1, <1>2, <1>3, <1>4, OneStage, Zenon

\* Each step of the shutdown sequence keeps the invariant (main.go).
LEMMA StopOK ==
    ASSUME WInv, DoesStop
    PROVE  WInv'
<1>1. cfg' = cfg
  BY DEF DoesStop
<1>2. CASE Shutdown
  BY <1>1, <1>2, ShutdownOK, Zenon
<1>3. CASE ShutdownAdmin \/ drainQueue \/ CloseDisk \/ Exit
  <2>1. /\ call' = call /\ stored' = stored /\ skipped' = skipped /\ queue' = queue /\ bucket' = bucket
        /\ expired' \in BOOLEAN /\ (expired => expired') /\ closed' \in BOOLEAN
        /\ \/ life = "admin" /\ life' = "flush" /\ saved' = saved
           \/ /\ life = "flush" /\ life' = "close" /\ saved' = saved /\ closed' = closed
              /\ expired' \/ queue = {}
           \/ /\ life = "close" /\ life' = "saved" /\ saved' = {k \in Keys : stored[k] # None}
              /\ closed' = closed /\ expired' = expired
           \/ /\ life = "saved" /\ life' = "exited" /\ saved' = saved /\ closed' = closed
              /\ expired' = expired
    BY <1>3, Zenon DEF ShutdownAdmin, drainQueue, CloseDisk, Exit, WInv, LifeOK, wireVars
  <2>2. LifeOK' /\ (Quiesced' => Quiesced)
    BY <2>1, Zenon DEF WInv, LifeOK, Flushed, Quiesced
  <2>3. Closed' => \/ Closed /\ saved' = saved
                   \/ saved' = {k \in Keys : stored[k] # None}
    BY <2>1, Zenon DEF Closed
  <2>4. queue \cup bucket \cup skipped \subseteq (queue \cup bucket \cup skipped)'
    BY <2>1, Zenon
  <2>5. /\ DOMAIN call' = Calls /\ \A c \in Calls : call'[c] = call[c]
        /\ life = "killed" => life' = "killed"
    BY <2>1, Zenon DEF WInv
  <2> QED
    BY <1>1, <2>1, <2>2, <2>3, <2>4, <2>5, OneStage, Zenon
<1> QED
  BY <1>2, <1>3 DEF DoesStop

\* So does what the environment does to the process.
LEMMA HappensOK ==
    ASSUME WInv, Happens
    PROVE  WInv'
<1>1. /\ call' = call /\ stored' = stored /\ skipped' = skipped /\ queue' = queue /\ bucket' = bucket
      /\ expired' = expired /\ closed' = closed /\ saved' = saved /\ cfg' = cfg
      /\ \/ life' = life
         \/ life = "serving" /\ life' = "shutdown"
         \/ life' = "killed"
  BY Zenon DEF Happens, AdminFails, AdminCall, ServeFails, Signal, SecondInterrupt, wireVars
<1>2. LifeOK' /\ (Quiesced' => Quiesced) /\ (Closed' => Closed) /\ (life = "killed" => life' = "killed")
  BY <1>1, Zenon DEF WInv, LifeOK, Flushed, Quiesced, Closed
<1>3. queue \cup bucket \cup skipped \subseteq (queue \cup bucket \cup skipped)'
  BY <1>1, Zenon
<1>4. DOMAIN call' = Calls /\ \A c \in Calls : call'[c] = call[c]
  BY <1>1, Zenon DEF WInv
<1> QED
  BY <1>1, <1>2, <1>3, <1>4, OneStage, Zenon

-----------------------------------------------------------------------------
(* The theorems about calls.                                               *)

\* A step that touches no call and no part of the life cycle keeps it.
LEMMA WireStutterOK ==
    ASSUME WInv, UNCHANGED <<cfg, wireVars, lifeVars>>
    PROVE  WInv'
<1>1. /\ cfg' = cfg /\ call' = call /\ stored' = stored /\ queue' = queue /\ closed' = closed
      /\ skipped' = skipped /\ life' = life /\ expired' = expired /\ bucket' = bucket /\ saved' = saved
  BY Zenon DEF wireVars, lifeVars
<1>2. ASSUME NEW c \in Calls PROVE CallOK(call[c])'
  <2>1. PICK s : s = call[c]
    OBVIOUS
  <2>2. Typed(s) /\ Coherent(s) /\ Bodies(s) /\ Durable(s)
    BY <2>1, Zenon DEF WInv, CallOK
  <2>3. Typed(s)' /\ Coherent(s)' /\ Bodies(s)'
    BY <1>1, <2>2, Zenon DEF Typed, Coherent, Bodies
  <2>4. Durable(s)'
    BY <1>1, <2>2, Zenon DEF Durable, Acked, Quiesced, Closed
  <2> QED
    BY <1>1, <2>1, <2>3, <2>4, Zenon DEF CallOK
<1> QED
  BY <1>1, <1>2, Zenon DEF WInv, LifeOK, StoreOK, Flushed

\* So does every step of a client, of a handler or of the network.
LEMMA CallStepOK ==
    ASSUME WInv, NEW c \in Calls, DoesClient(c) \/ DoesHandler(c) \/ DoesCancel(c)
    PROVE  WInv'
<1>1. UNCHANGED <<cfg, lifeVars>>
  BY DEF DoesClient, DoesHandler, DoesCancel
<1>2. CASE DoesClient(c)
  BY <1>1, <1>2, LeavesOK, PutSendOK, PutClosedOK, ReceiveOK, GetMetaOK, GetReadOK, Zenon
     DEF DoesClient, ClientStep
<1>3. CASE DoesHandler(c)
  BY <1>1, <1>3, AcceptOK, StatOK, GetOpenOK, GetSendOK, PutHeaderOK, PutBodyOK, PutCommitOK, PutBehindOK, Zenon
     DEF DoesHandler, HandlerStep
<1>4. CASE DoesCancel(c)
  BY <1>1, <1>4, ArriveOK, LeavesOK, Zenon DEF DoesCancel
<1> QED
  BY <1>2, <1>3, <1>4, Zenon

\* The invariant of calls and drain.
THEOREM CallsInvariant == Spec => []WInv
<1>1. Init => WInv
  <2> SUFFICES ASSUME Init PROVE WInv
    OBVIOUS
  <2>1. /\ DOMAIN NoCall = Fields /\ NoCall.op = "none" /\ NoCall.cpc = "idle" /\ NoCall.hpc = "idle"
        /\ NoCall.n = 0 /\ NoCall.m = 0 /\ NoCall.size = 0 /\ NoCall.wire = 0
        /\ NoCall.fin \in BOOLEAN /\ NoCall.gone \in BOOLEAN /\ NoCall.out = "none"
        /\ NoCall.resp = "none" /\ NoCall.err = "none"
    BY Zenon DEF NoCall, Fields
  <2>2. CallOK(NoCall)
    <3>1. Typed(NoCall) /\ Coherent(NoCall)
      BY <2>1 DEF Typed, Coherent, Outs, Codes
    <3>2. Bodies(NoCall) /\ Durable(NoCall)
      BY <2>1, Zenon DEF Bodies, Durable, Acked
    <3> QED
      BY <3>1, <3>2 DEF CallOK
  <2>3. LifeOK
    BY Zenon DEF Init, WireInit, LifeOK, Flushed
  <2>4. StoreOK
    BY SizesAssumption, Zenon DEF Init, WireInit, StoreOK
  <2> QED
    BY <2>2, <2>3, <2>4, Zenon DEF WInv, Init, WireInit
<1>2. WInv /\ [Next]_vars => WInv'
  <2> SUFFICES ASSUME WInv, [Next]_vars PROVE WInv'
    OBVIOUS
  <2>1. CASE \E c \in Calls : DoesClient(c) \/ DoesHandler(c) \/ DoesCancel(c)
    BY <2>1, CallStepOK
  <2>2. CASE DoesUpload \/ DoesStop \/ Happens
    BY <2>2, UploadOK, StopOK, HappensOK, Zenon
  <2>3. CASE (\E p \in Probes : DoesProbe(p) \/ ProbeHappens(p)) \/ Elsewhere
    BY <2>3, WireStutterOK, Zenon DEF DoesProbe, ProbeHappens, Elsewhere
  <2>4. CASE UNCHANGED vars
    BY <2>4, WireStutterOK, Zenon DEF vars
  <2> QED
    BY <2>1, <2>2, <2>3, <2>4, Zenon DEF Next
<1> QED
  BY <1>1, <1>2, PTL DEF Spec

\* For every number of calls and keys, every length, window, queue and limit:
\* what a client is told of its Put, Get or Stat is so (remote.go Put,
\* getStream.Read, fromConnectError; cacheservice.go Put, Get,
\* toConnectError).
THEOREM AnswersAreTrue == Spec => []AnswersTrue
<1>1. WInv => AnswersTrue
  <2> SUFFICES ASSUME WInv, NEW c \in Calls
               PROVE  /\ call[c].op = "put" /\ call[c].out = "nil" /\ ~cfg.sourceFails => stored[call[c].key] = Len
                      /\ call[c].op = "get" /\ call[c].out = "nil" => call[c].n + 1 = call[c].size
                      /\ /\ call[c].out \notin {"none", "body"} /\ ~call[c].gone
                         /\ call[c].err \in {"nil", "ErrNotFound", "ErrExists", "ErrNoSpace"}
                         => call[c].out = call[c].err
    BY Zenon DEF AnswersTrue
  <2>1. Typed(call[c]) /\ Coherent(call[c]) /\ Bodies(call[c]) /\ Durable(call[c])
    BY Zenon DEF WInv, CallOK
  <2>2. call[c].op = "put" /\ call[c].out = "nil" /\ ~cfg.sourceFails => stored[call[c].key] = Len
    BY <2>1, Zenon DEF Durable, Acked, Typed, WInv, StoreOK
  <2> QED
    BY <2>1, <2>2, Zenon DEF Coherent, Bodies
<1> QED
  BY <1>1, CallsInvariant, PTL

\* A drain that ends in time loses nothing a client was told is stored
\* (serve.go runServe: listeners, queue, disk tier, in that order).
THEOREM DrainLosesNothing == Spec => []OrderlyStop
<1>1. WInv => OrderlyStop
  <2> SUFFICES ASSUME WInv, life = "exited", ~expired, NEW c \in Calls,
                      call[c].op = "put", call[c].out = "nil"
               PROVE  /\ call[c].key \in saved
                      /\ cfg.tiers = 2 => call[c].key \in bucket \cup skipped
    BY Zenon DEF OrderlyStop
  <2>1. Durable(call[c]) /\ Acked(call[c]) /\ Closed /\ Flushed /\ queue = {}
    BY Zenon DEF WInv, CallOK, Acked, Closed, Flushed, LifeOK
  <2> QED
    BY <2>1, Zenon DEF Durable
<1> QED
  BY <1>1, CallsInvariant, PTL

=============================================================================
