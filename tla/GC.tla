--------------------------------- MODULE GC ---------------------------------
(***************************************************************************)
(* The garbage collector (engine/gc/gc.go) at work on the disk tier's      *)
(* index: the background loop with its one-slot wake channel, the passes   *)
(* that evict from the high watermark down to the low one, the admission   *)
(* of a Put, and the Puts that grow the index meanwhile.                   *)
(*                                                                         *)
(* A pass reads the budget, each front-end's usage and the total usage,    *)
(* and evicts, in steps of its own: the loop and any number of Puts may be *)
(* in a pass at the same time.                                             *)
(***************************************************************************)
EXTENDS Integers, FiniteSets, Functions

CONSTANTS
    Keys,        \* object keys
    Sizes,       \* bytes an object occupies, header included (never 0)
    Frontends,   \* the set of keys of each front-end that has a sub-budget
    Budgets,     \* cfg.Budgets: the percentage of each of them
    Writers,     \* goroutines that call Put
    Loop,        \* the collector's goroutine
    Configs,     \* the settings a process may run with
    MaxPuts      \* bound on the number of Puts

ASSUME LoopAssumption == Loop \notin Writers
ASSUME BudgetsAssumption ==
    Frontends \subseteq SUBSET Keys /\ Budgets \in [Frontends -> 1 .. 100]

\* High and Low are what config.Validate accepts.  Wired: SetSpaceManager was
\* called, so that Put asks Admit and notifies.  Sweeps: the backstop ticker
\* fires.  Volumes: the budgets that refreshBudget may measure.
ASSUME ConfigsAssumption ==
    \A c \in Configs :
        /\ c.Low < c.High /\ c.High <= 100
        /\ c.Wired \in BOOLEAN /\ c.Sweeps \in BOOLEAN
        /\ c.Volumes \subseteq Nat \ {0}

VARIABLES
    m,           \* the index: bytes recorded for each key
    cfg,         \* config.GC, and how the process is put together
    budget,      \* GC.budget
    wake,        \* the wake channel holds its one token
    pass,        \* the pass each goroutine is in
    put,         \* the Put each writer is in
    stop,        \* Stop was called
    puts         \* Puts so far

vars == <<m, cfg, budget, wake, pass, put, stop, puts>>

Absent == 0

Index == INSTANCE IndexSpec
           WITH cold <- FALSE, tombs <- {}, Groups <- Frontends \cup {Keys}

Used == SumFunction(m)
UsedBy(f) == SumFunctionOnSet(m, f)

-----------------------------------------------------------------------------
(* The watermarks.                                                         *)

defaultHigh == 95
defaultLow == 85

high == IF cfg.High <= 0 \/ cfg.High > 100 \/ cfg.High <= cfg.Low
        THEN defaultHigh ELSE cfg.High

low == IF cfg.Low <= 0 \/ cfg.Low >= 100 \/ cfg.Low >= high
       THEN defaultLow ELSE cfg.Low

\* The branch for volumes whose product would overflow divides first; the
\* volumes here are far below it.
pct(v, percent) == (v * percent) \div 100

-----------------------------------------------------------------------------
(* A pass.                                                                 *)

Pass(pc, b, headroom, todo, f, need) ==
    [pc |-> pc, budget |-> b, headroom |-> headroom, todo |-> todo,
     frontend |-> f, need |-> need]

NoPass == Pass("none", 0, 0, {}, {}, 0)

\* Seeded fault: sub-budgets wait for the high watermark.
BeginPassOverHigh(headroom) ==
    Pass("sub", budget, headroom, IF Used > pct(budget, high) THEN Frontends ELSE {}, {}, 0)

\* collect: the budget is read once.
BeginPass(headroom) == Pass("sub", budget, headroom, Frontends, {}, 0)

Threads == Writers \cup {Loop}

\* enforceSubBudgets: one front-end's usage is compared with its cap.
PassFrontend(t) ==
    LET c == pass[t] IN
    /\ c.pc = "sub"
    /\ \E f \in c.todo :
          LET limit == pct(c.budget, Budgets[f]) IN
          pass' = [pass EXCEPT ![t] =
              IF UsedBy(f) > limit
              THEN Pass("evictSub", c.budget, c.headroom, c.todo \ {f}, f, UsedBy(f) - limit)
              ELSE Pass("sub", c.budget, c.headroom, c.todo \ {f}, {}, 0)]
    /\ UNCHANGED <<m, cfg, budget, wake, put, stop, puts>>

\* evict: the victims leave the index, and nothing when none is left.
Evict(n, f) ==
    \/ Index!Indexed \cap f = {} /\ UNCHANGED m
    \/ \E victims \in Index!takeLRU(n, f) : Index!removeLocked(victims)

PassEvictFrontend(t) ==
    LET c == pass[t] IN
    /\ c.pc = "evictSub"
    /\ Evict(c.need, c.frontend)
    /\ pass' = [pass EXCEPT ![t] = Pass("sub", c.budget, c.headroom, c.todo, {}, 0)]
    /\ UNCHANGED <<cfg, budget, wake, put, stop, puts>>

\* The total is compared with the high watermark, the low one is the target.
PassRead(t) ==
    LET c == pass[t]
        mark == pct(c.budget, low) - c.headroom
        target == IF mark < 0 THEN 0 ELSE mark
    IN  /\ c.pc = "sub" /\ c.todo = {}
        /\ pass' = [pass EXCEPT ![t] =
              IF Used + c.headroom > pct(c.budget, high) /\ Used > target
              THEN Pass("evict", c.budget, c.headroom, {}, Keys, Used - target)
              ELSE NoPass]
        /\ UNCHANGED <<m, cfg, budget, wake, put, stop, puts>>

PassEvict(t) ==
    /\ pass[t].pc = "evict"
    /\ Evict(pass[t].need, Keys)
    /\ pass' = [pass EXCEPT ![t] = NoPass]
    /\ UNCHANGED <<cfg, budget, wake, put, stop, puts>>

PassStep(t) == PassFrontend(t) \/ PassEvictFrontend(t) \/ PassRead(t) \/ PassEvict(t)

-----------------------------------------------------------------------------
(* Put, as far as the collector sees it.                                   *)

Putting(pc, k, s, b) == [pc |-> pc, key |-> k, size |-> s, budget |-> b]

NotPutting(pc) == Putting(pc, CHOOSE k \in Keys : TRUE, 0, 0)

CanPut(w) == put[w].pc \in {"idle", "refused"} /\ puts < MaxPuts

\* Admit is not asked when the tier has no space manager.
PutUnadmitted(w, k, s) ==
    /\ CanPut(w) /\ ~cfg.Wired
    /\ put' = [put EXCEPT ![w] = Putting("write", k, s, budget)]
    /\ puts' = puts + 1
    /\ UNCHANGED <<m, cfg, budget, wake, pass, stop>>

\* Seeded fault: the usage is compared without the object.
PutAdmitUsedOnly(w, k, s) ==
    /\ CanPut(w) /\ cfg.Wired
    /\ puts' = puts + 1
    /\ s <= budget
    /\ \/ /\ Used <= budget
          /\ put' = [put EXCEPT ![w] = Putting("write", k, s, budget)]
          /\ wake' = TRUE
          /\ UNCHANGED pass
       \/ /\ Used > budget
          /\ put' = [put EXCEPT ![w] = Putting("collect", k, s, budget)]
          /\ pass' = [pass EXCEPT ![w] = BeginPass(s)]
          /\ UNCHANGED wake
    /\ UNCHANGED <<m, cfg, budget, stop>>

\* Admit: the object never fits, fits now, or needs a pass.
PutAdmit(w, k, s) ==
    /\ CanPut(w) /\ cfg.Wired
    /\ puts' = puts + 1
    /\ \/ /\ s > budget
          /\ put' = [put EXCEPT ![w] = NotPutting("refused")]
          /\ UNCHANGED <<wake, pass>>
       \/ /\ s <= budget /\ Used + s <= budget
          /\ put' = [put EXCEPT ![w] = Putting("write", k, s, budget)]
          /\ wake' = TRUE
          /\ UNCHANGED pass
       \/ /\ s <= budget /\ Used + s > budget
          /\ put' = [put EXCEPT ![w] = Putting("collect", k, s, budget)]
          /\ pass' = [pass EXCEPT ![w] = BeginPass(s)]
          /\ UNCHANGED wake
    /\ UNCHANGED <<m, cfg, budget, stop>>

\* Admit, after its pass.
PutReadmit(w) ==
    /\ put[w].pc = "collect" /\ pass[w] = NoPass
    /\ put' = [put EXCEPT ![w] =
          IF Used + put[w].size > put[w].budget THEN NotPutting("refused")
          ELSE Putting("write", put[w].key, put[w].size, put[w].budget)]
    /\ UNCHANGED <<m, cfg, budget, wake, pass, stop, puts>>

\* Seeded fault: the wake-up that Admit sent is thought to be enough.
PutSetNoNotify(w) ==
    /\ put[w].pc = "write"
    /\ \/ m' = [m EXCEPT ![put[w].key] = put[w].size]
       \/ UNCHANGED m
    /\ put' = [put EXCEPT ![w] = NotPutting("idle")]
    /\ UNCHANGED <<cfg, budget, wake, pass, stop, puts>>

\* idx.set; a body that fails to arrive ends the Put instead.
PutSet(w) ==
    /\ put[w].pc = "write"
    /\ \/ /\ m' = [m EXCEPT ![put[w].key] = put[w].size]
          /\ put' = [put EXCEPT ![w] = NotPutting(IF cfg.Wired THEN "notify" ELSE "idle")]
       \/ put' = [put EXCEPT ![w] = NotPutting("idle")] /\ UNCHANGED m
    /\ UNCHANGED <<cfg, budget, wake, pass, stop, puts>>

\* Notify never blocks: a token that is there stays.
PutNotify(w) ==
    /\ put[w].pc = "notify"
    /\ wake' = TRUE
    /\ put' = [put EXCEPT ![w] = NotPutting("idle")]
    /\ UNCHANGED <<m, cfg, budget, pass, stop, puts>>

-----------------------------------------------------------------------------
(* The loop.                                                               *)

LoopIdle == pass[Loop] = NoPass

LoopWake ==
    /\ LoopIdle /\ wake /\ wake' = FALSE
    /\ pass' = [pass EXCEPT ![Loop] = BeginPass(0)]
    /\ UNCHANGED <<m, cfg, budget, put, stop, puts>>

LoopSweep ==
    /\ LoopIdle /\ cfg.Sweeps
    /\ pass' = [pass EXCEPT ![Loop] = BeginPass(0)]
    /\ UNCHANGED <<m, cfg, budget, wake, put, stop, puts>>

\* refreshBudget; a measurement that fails leaves the budget.
LoopRefresh ==
    /\ LoopIdle
    /\ budget' \in cfg.Volumes \ {budget}
    /\ UNCHANGED <<m, cfg, wake, pass, put, stop, puts>>

Stop ==
    /\ ~stop /\ stop' = TRUE
    /\ UNCHANGED <<m, cfg, budget, wake, pass, put, puts>>

\* The loop returns from its select.
LoopGone ==
    /\ LoopIdle /\ stop
    /\ pass' = [pass EXCEPT ![Loop] = Pass("gone", 0, 0, {}, {}, 0)]
    /\ UNCHANGED <<m, cfg, budget, wake, put, stop, puts>>

-----------------------------------------------------------------------------

Init ==
    /\ m = [k \in Keys |-> Absent]
    /\ cfg \in Configs
    /\ budget \in cfg.Volumes
    /\ wake = FALSE
    /\ pass = [t \in Threads |-> NoPass]
    /\ put = [w \in Writers |-> NotPutting("idle")]
    /\ stop = FALSE /\ puts = 0

Put(w) ==
    \/ \E k \in Keys, s \in Sizes : PutUnadmitted(w, k, s) \/ PutAdmit(w, k, s)
    \/ PutReadmit(w) \/ PutSet(w) \/ PutNotify(w)

Next ==
    \/ \E w \in Writers : Put(w)
    \/ \E t \in Threads : PassStep(t)
    \/ LoopWake \/ LoopSweep \/ LoopRefresh \/ Stop \/ LoopGone

Spec == Init /\ [][Next]_vars

\* The collector's goroutine runs, its ticker fires, and a Put whose object is
\* in the index goes on.  Nobody is obliged to Put, and a body may never arrive.
Fairness ==
    /\ \A t \in Threads : WF_vars(PassStep(t))
    /\ WF_vars(LoopWake) /\ WF_vars(LoopSweep)
    /\ \A w \in Writers : WF_vars(PutNotify(w))

FairSpec == Spec /\ Fairness

-----------------------------------------------------------------------------
(* Properties.                                                             *)

\* How far admission can be overrun: with honest sizes and a budget that does
\* not move, the index exceeds the budget by at most one admissible object for
\* every other Put that was admitted at the same time (gc.go Admit, collect;
\* disk.go Put).
OvershootBounded ==
    cfg.Wired /\ cfg.Volumes = {budget} =>
        \E s \in Sizes : s <= budget /\ Used <= budget + (Cardinality(Writers) - 1) * s

\* No wake-up is lost: usage over the high watermark is brought back.  With
\* Puts that notify this needs no ticker, although Notify drops its token
\* when one is pending and the loop may have read the usage before the object
\* was recorded; without them the ticker does it (gc.go Notify, loop,
\* collect).
HighRestored ==
    (Used > pct(budget, high)) ~> (Used <= pct(budget, high) \/ stop)

\* A front-end that has run away is brought back to its own cap, whatever
\* the volume's total is (gc.go enforceSubBudgets).
SubBudgetsEnforced ==
    \A f \in Frontends :
        (UsedBy(f) > pct(budget, Budgets[f])) ~>
            (UsedBy(f) <= pct(budget, Budgets[f]) \/ stop)
=============================================================================
