-------------------------------- MODULE Chain --------------------------------
(***************************************************************************)
(* The chain of tiers (engine/chain/chain.go), for one key: Gets that miss *)
(* the front tier share one read of the tiers behind it and fault what     *)
(* they find forward, Puts are written through (inline or handed to the    *)
(* write-behind queue), Deletes go from front to back, and each call of a  *)
(* tier is a step of its own.                                              *)
(*                                                                         *)
(* Singleflight groups calls by key and a tier's calls do not affect other *)
(* keys, so one key is enough.  A failure of a tier stands for everything  *)
(* that makes the call return an error other than ErrNotFound: a tier that *)
(* is down, a body that breaks off, a cancelled context, no temp file.     *)
(***************************************************************************)
EXTENDS Integers, FiniteSets

CONSTANTS
    N,           \* number of tiers, tier 0 in front
    Callers,     \* goroutines
    Nobody,      \* none of them
    Versions,    \* what may be stored under the key
    Big,         \* the versions that do not go through memory
    None,        \* no object
    Contents,    \* what a tier may hold when the process starts
    Configs,     \* the settings a behaviour may run under
    MaxCalls     \* bound on the number of calls

ASSUME NAssumption == N \in Nat \ {0, 1}

\* Immutable: the key is content-addressed, and a tier keeps what it has.
\* WriteBehind: Put hands the tiers behind the first to a queue.  Ops: the
\* operations called.  Faults: the tier calls that may fail, and "full", a
\* queue that may drop.  Evicts: the tiers that drop objects on their own.
ASSUME ConfigsAssumption ==
    \A c \in Configs :
        /\ c.Immutable \in BOOLEAN /\ c.WriteBehind \in BOOLEAN
        /\ c.Ops \subseteq {"get", "put", "stat", "delete"}
        /\ c.Faults \subseteq {"get", "put", "delete", "full"}
        /\ c.Evicts \subseteq 0 .. N - 1
ASSUME NobodyAssumption == Nobody \notin Callers
ASSUME VersionsAssumption ==
    /\ None \notin Versions /\ Big \subseteq Versions
    /\ Contents \subseteq Versions \cup {None}

Tiers == 0 .. N - 1

VARIABLES
    cfg,         \* the setting
    store,       \* what each tier holds
    call,        \* the call each goroutine is in, and how its last one ended
    leader,      \* the caller whose function the singleflight group runs
    files,       \* temp files of fault-ins that are still there
    pending,     \* uploads the write-behind queue has taken
    calls,       \* calls so far
    written      \* history: some Put has returned nil

vars == <<cfg, store, call, leader, files, pending, calls, written>>

\* i is the tier the call has come to, v the object it carries, id the temp
\* file of its result; led and after say that the call runs the function of
\* the group itself, and that it began after a Put had returned nil.
Idle(res) ==
    [pc |-> "idle", res |-> res, i |-> 0, v |-> None, id |-> 0, led |-> FALSE, after |-> FALSE]

Ends(c, res, v) ==
    call' = [call EXCEPT ![c] = [@ EXCEPT !.pc = "idle", !.res = res, !.v = v]]

Fails(f) == f \in cfg.Faults

-----------------------------------------------------------------------------
(* One tier.                                                               *)

\* What Tier.Put may do: store the object, answer ErrExists, or fail.
TierPut(i, v) ==
    \/ store' = [store EXCEPT ![i] = IF cfg.Immutable /\ @ # None THEN @ ELSE v]
    \/ Fails("put") /\ UNCHANGED store

Evict(i) ==
    /\ i \in cfg.Evicts /\ store[i] # None
    /\ store' = [store EXCEPT ![i] = None]
    /\ UNCHANGED <<call, leader, files, pending, calls, written>>

-----------------------------------------------------------------------------
(* Get.                                                                    *)

Starts(c, op, pc, v) ==
    /\ op \in cfg.Ops /\ calls < MaxCalls /\ call[c].pc = "idle"
    /\ calls' = calls + 1
    /\ call' = [call EXCEPT ![c] = [Idle("none") EXCEPT !.pc = pc, !.v = v, !.after = written]]

GetBegin(c) ==
    /\ Starts(c, "get", "front", None)
    /\ UNCHANGED <<store, leader, files, pending, written>>

\* The front tier answers, or has nothing, or fails.
GetFront(c) ==
    /\ call[c].pc = "front"
    /\ \/ store[0] # None /\ Ends(c, "hit", store[0])
       \/ /\ store[0] = None \/ Fails("get")
          /\ call' = [call EXCEPT ![c].pc = "join"]
    /\ UNCHANGED <<store, leader, files, pending, calls, written>>

\* group.Do: the first caller runs the function, the others wait for it.
GetJoin(c) ==
    /\ call[c].pc = "join"
    /\ IF leader = Nobody
       THEN /\ leader' = c
            /\ call' = [call EXCEPT ![c] = [@ EXCEPT !.pc = "read", !.i = 1, !.led = TRUE]]
       ELSE call' = [call EXCEPT ![c].pc = "wait"] /\ UNCHANGED leader
    /\ UNCHANGED <<store, files, pending, calls, written>>

\* Seeded fault: those who wait are not told of a failure.
ReturnsAlone(c, pc, res, v, id) ==
    /\ leader' = Nobody
    /\ call' = [d \in Callers |->
                  IF d = c \/ (call[d].pc = "wait" /\ res # "error")
                  THEN [call[d] EXCEPT !.pc = pc, !.res = res, !.v = v, !.id = id]
                  ELSE call[d]]

\* The function returns: everybody who waits is given the leader's result.
Returns(c, pc, res, v, id) ==
    /\ leader' = Nobody
    /\ call' = [d \in Callers |->
                  IF d = c \/ call[d].pc = "wait"
                  THEN [call[d] EXCEPT !.pc = pc, !.res = res, !.v = v, !.id = id]
                  ELSE call[d]]

\* A file nobody refers to.
FreshFile ==
    CHOOSE f \in 1 .. Cardinality(Callers) + 1 :
        f \notin files /\ \A d \in Callers : call[d].pc \in {"open", "unlink"} => call[d].id # f

\* The function asks the next tier: it has the object, it does not, it fails.
\* The last tier that does not have it makes a miss.
GetTier(c) ==
    /\ call[c].pc = "read"
    /\ LET i == call[c].i IN
       \/ /\ store[i] # None
          /\ LET id == IF store[i] \in Big THEN FreshFile ELSE 0 IN
             /\ call' = [call EXCEPT ![c] =
                   [@ EXCEPT !.pc = "forward", !.i = i - 1, !.v = store[i], !.id = id]]
             /\ files' = files \cup ({id} \ {0})
          /\ UNCHANGED leader
       \/ /\ store[i] = None /\ i + 1 < N
          /\ call' = [call EXCEPT ![c].i = i + 1]
          /\ UNCHANGED <<files, leader>>
       \/ /\ store[i] = None /\ i + 1 = N
          /\ Returns(c, "idle", "miss", None, 0)
          /\ UNCHANGED files
       \/ /\ Fails("get")
          /\ Returns(c, "idle", "error", None, 0)
          /\ UNCHANGED files
    /\ UNCHANGED <<store, pending, calls, written>>

\* The object is written into the tiers in front, the nearest last, whatever
\* becomes of each write.
GetForward(c) ==
    /\ call[c].pc = "forward"
    /\ TierPut(call[c].i, call[c].v)
    /\ IF call[c].i > 0
       THEN call' = [call EXCEPT ![c].i = @ - 1] /\ UNCHANGED leader
       ELSE IF call[c].id = 0
            THEN Returns(c, "idle", "hit", call[c].v, 0)
            ELSE Returns(c, "open", "none", call[c].v, call[c].id)
    /\ UNCHANGED <<files, pending, calls, written>>

\* Each Get that shares the result opens the temp file for itself.
GetOpen(c) ==
    /\ call[c].pc = "open"
    /\ IF call[c].id \in files
       THEN call' = [call EXCEPT ![c].pc = "unlink"]
       ELSE Ends(c, "error", None)
    /\ UNCHANGED <<store, leader, files, pending, calls, written>>

\* Seeded fault: only the Get that made the file removes it.
GetUnlinkJoined(c) ==
    /\ call[c].pc = "unlink"
    /\ files' = IF call[c].led THEN files ELSE files \ {call[c].id}
    /\ Ends(c, "hit", call[c].v)
    /\ UNCHANGED <<store, leader, pending, calls, written>>

GetUnlink(c) ==
    /\ call[c].pc = "unlink"
    /\ files' = files \ {call[c].id}
    /\ Ends(c, "hit", call[c].v)
    /\ UNCHANGED <<store, leader, pending, calls, written>>

-----------------------------------------------------------------------------
(* Put, Stat and Delete.                                                   *)

PutBegin(c, v) ==
    /\ Starts(c, "put", "putFront", v)
    /\ UNCHANGED <<store, leader, files, pending, written>>

\* Seeded fault: ErrExists from the front tier ends the Put.
PutFrontExists(c) ==
    /\ call[c].pc = "putFront"
    /\ \/ /\ store' = [store EXCEPT ![0] = IF cfg.Immutable /\ @ # None THEN @ ELSE call[c].v]
          /\ IF cfg.Immutable /\ store[0] # None
             THEN Ends(c, "ok", None) /\ written' = TRUE
             ELSE call' = [call EXCEPT ![c] = [@ EXCEPT !.pc = "put", !.i = 1]] /\ UNCHANGED written
       \/ Fails("put") /\ Ends(c, "error", None) /\ UNCHANGED <<store, written>>
    /\ UNCHANGED <<leader, files, pending, calls>>

\* The first tier decides the outcome; ErrExists is not a failure.
PutFront(c) ==
    /\ call[c].pc = "putFront"
    /\ \/ /\ store' = [store EXCEPT ![0] = IF cfg.Immutable /\ @ # None THEN @ ELSE call[c].v]
          /\ call' = [call EXCEPT ![c] = [@ EXCEPT !.pc = "put", !.i = 1]]
       \/ Fails("put") /\ Ends(c, "error", None) /\ UNCHANGED store
    /\ UNCHANGED <<leader, files, pending, calls, written>>

\* The next tier behind is written, or the queue takes or drops the object;
\* after the last one the Put returns nil.
PutBehind(c) ==
    /\ call[c].pc = "put"
    /\ LET i == call[c].i IN
       /\ \/ ~cfg.WriteBehind /\ TierPut(i, call[c].v) /\ UNCHANGED pending
          \/ cfg.WriteBehind /\ pending' = pending \cup {<<i, call[c].v>>} /\ UNCHANGED store
          \/ cfg.WriteBehind /\ Fails("full") /\ UNCHANGED <<pending, store>>
       /\ IF i + 1 < N
          THEN call' = [call EXCEPT ![c].i = i + 1] /\ UNCHANGED written
          ELSE Ends(c, "ok", None) /\ written' = TRUE
    /\ UNCHANGED <<leader, files, calls>>

\* A worker of the queue uploads what a Put left with it.
Upload(p) ==
    /\ p \in pending
    /\ pending' = pending \ {p}
    /\ TierPut(p[1], p[2])
    /\ UNCHANGED <<call, leader, files, calls, written>>

StatBegin(c) ==
    /\ Starts(c, "stat", "stat", None)
    /\ UNCHANGED <<store, leader, files, pending, written>>

\* Stat goes past a tier that fails as past one that has nothing.
StatTier(c) ==
    /\ call[c].pc = "stat"
    /\ LET i == call[c].i IN
       \/ store[i] # None /\ Ends(c, "hit", store[i])
       \/ /\ store[i] = None \/ Fails("get")
          /\ IF i + 1 < N THEN call' = [call EXCEPT ![c].i = i + 1] ELSE Ends(c, "miss", None)
    /\ UNCHANGED <<store, leader, files, pending, calls, written>>

DeleteBegin(c) ==
    /\ Starts(c, "delete", "delete", None)
    /\ UNCHANGED <<store, leader, files, pending, written>>

\* Delete goes on past a tier that fails, and reports it at the end.
DeleteTier(c) ==
    /\ call[c].pc = "delete"
    /\ LET i == call[c].i IN
       \E failed \in {b \in BOOLEAN : b => Fails("delete")} :
          LET res == IF failed \/ call[c].res = "error" THEN "error" ELSE "none" IN
          /\ store' = IF failed THEN store ELSE [store EXCEPT ![i] = None]
          /\ IF i + 1 < N
             THEN call' = [call EXCEPT ![c] = [@ EXCEPT !.i = i + 1, !.res = res]]
             ELSE Ends(c, IF res = "error" THEN "error" ELSE "deleted", None)
    /\ UNCHANGED <<leader, files, pending, calls, written>>

-----------------------------------------------------------------------------

Init ==
    /\ cfg \in Configs
    /\ store \in [Tiers -> Contents]
    /\ call = [c \in Callers |-> Idle("none")]
    /\ leader = Nobody
    /\ files = {} /\ pending = {}
    /\ calls = 0 /\ written = FALSE

Step(c) ==
    /\ \/ GetFront(c) \/ GetJoin(c) \/ GetTier(c) \/ GetForward(c) \/ GetOpen(c) \/ GetUnlink(c)
       \/ PutFront(c) \/ PutBehind(c) \/ StatTier(c) \/ DeleteTier(c)
    /\ UNCHANGED cfg

Begin(c) ==
    /\ GetBegin(c) \/ StatBegin(c) \/ DeleteBegin(c) \/ \E v \in Versions : PutBegin(c, v)
    /\ UNCHANGED cfg

Next ==
    \/ \E c \in Callers : Begin(c) \/ Step(c)
    \/ (\E p \in pending : Upload(p)) /\ UNCHANGED cfg
    \/ (\E i \in Tiers : Evict(i)) /\ UNCHANGED cfg

Spec == Init /\ [][Next]_vars

\* A call that was begun goes on: the goroutine is scheduled and the tier it
\* has called answers.
FairSpec == Spec /\ \A c \in Callers : WF_vars(Step(c))

-----------------------------------------------------------------------------
(* Properties.                                                             *)

PCs == {"idle", "front", "join", "wait", "read", "forward", "open", "unlink",
        "putFront", "put", "stat", "delete"}

\* A fault-in's temp file outlives no Get: while it is there, some Get will
\* still remove it, so "nothing has to remember to clean up after a caller
\* that goes away" (chain.go Get).
TempRemoved ==
    \A f \in files : \E c \in Callers :
        call[c].pc \in {"forward", "open", "unlink"} /\ call[c].id = f

\* While no tier fails or deletes and only the front one evicts, a Get that
\* begins after a Put has returned nil, and reads the tiers behind itself,
\* finds an object, whichever other Puts and Gets are under way.  The second
\* Put of an immutable object, answered ErrExists by the front tier, counts
\* too (chain.go Put).
CompletedPutFound ==
    cfg.Faults = {} /\ "delete" \notin cfg.Ops /\ ~cfg.WriteBehind /\ cfg.Evicts \subseteq {0} =>
      \A c \in Callers :
        call[c].led /\ call[c].after => call[c].res # "miss"

\* Every call returns, also one that waits for another's read (chain.go Get).
CallsEnd == \A c \in Callers : call[c].pc # "idle" ~> call[c].pc = "idle"
==============================================================================
