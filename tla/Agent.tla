-------------------------------- MODULE Agent --------------------------------
(***************************************************************************)
(* The agent the Go toolchain talks to (agent/agent.go) with the parts it  *)
(* is made of: the go build front-end (frontend/gobuild/gobuild.go) over a *)
(* local tier that keeps records only (agent/localtier.go) and over a tier *)
(* behind it, which is reached through a circuit breaker (Breaker); the    *)
(* directory of materialised objects (agent/objects.go) and its pruner;    *)
(* and the uploads that outlive the request that asked for them            *)
(* (agent/uploads.go), which the end of the build waits for.               *)
(*                                                                         *)
(* A record maps an action to the output it produced; an output is stood   *)
(* for by its identifier.  Each call of a tier, each look at the object    *)
(* directory and each critical section of the breaker is a step.  Chain    *)
(* shows what a chain's Get does when callers share a read; here every Get *)
(* reads for itself.                                                       *)
(***************************************************************************)
EXTENDS Breaker, FiniteSets

CONSTANTS
    Reqs,        \* requests of the toolchain that may be under way at once
    Workers,     \* uploads that may run at once
    Actions,
    Outputs,
    Aged,        \* outputs older than objectMaxAge when they are fetched
    None,        \* no record, no output
    Junk,        \* a record that does not parse
    Configs      \* the deployments a behaviour may run in

BackEnds == {"remote", "bucket"}

\* Start-up is timed in units of 0.4 seconds.
startBudget == 6
probeTimeout == 5

\* asked: the back-ends the options name.  there: those that answer at all.
\* fails: calls of a back-end may fail.  disk: local writes may fail.
\* evicts: the back-end drops objects on its own.  warm: earlier builds
\* have left records and objects on this machine.
\* puts: bound on the number of puts of the build.
ASSUME ConfigsAssumption ==
    \A c \in Configs :
        /\ c.asked \subseteq BackEnds /\ c.there \subseteq c.asked
        /\ c.there # BackEnds
        /\ c.fails \in BOOLEAN /\ c.disk \in BOOLEAN
        /\ c.evicts \in BOOLEAN /\ c.warm \in BOOLEAN /\ c.puts \in Nat
ASSUME OutputsAssumption ==
    /\ Aged \subseteq Outputs /\ None \notin Outputs /\ Junk \notin Outputs
    /\ None # Junk
ASSUME WorkersAssumption == IsFiniteSet(Workers)

Records == Outputs \cup {None, Junk}

VARIABLES
    cfg,         \* the deployment
    boot,        \* start-up: the time it took, the back-ends probed and
                 \* those that joined the chain, and the degraded flag
    life,        \* how far the agent has come
    local,       \* records in the local tier
    records,     \* records in the tier behind
    outputs,     \* outputs in the tier behind
    objects,     \* materialised outputs
    old,         \* those of them whose modification time is past the cutoff
    req,         \* the request in each slot, and how the last one ended
    up,          \* the upload in each slot
    prune,       \* what the pruner has still to visit, and what it removes
    puts,        \* puts so far
    lostRecords, \* the counter of that name
    dropped,     \* history: outputs the breaker kept from the tier behind
    young        \* history: outputs handed out while they were not old

store == <<local, records, outputs>>
files == <<objects, old, prune, young>>
books == <<puts, lostRecords, dropped>>
vars == <<cfg, boot, life, store, files, req, up, books, breakerVars>>

PCs == {"idle", "action", "askAction", "inAction", "forward", "need", "askOutput",
        "inOutput", "write", "dropLocal", "askDelete", "inDelete",
        "putWrite", "putRecord", "reopen", "submit"}

Request(pc, a, o) == [pc |-> pc, a |-> a, o |-> o, failed |-> FALSE, broke |-> FALSE]
Free == Request("idle", None, None)
NoUpload == [pc |-> "idle", a |-> None, o |-> None]

\* The tier behind the local one.  (No deployment here has both.)
behind ==
    IF "remote" \in boot.joined THEN "remote"
    ELSE IF "bucket" \in boot.joined THEN "bucket" ELSE "none"

Running == {w \in Workers : up[w].pc # "idle"}

Goto(r, pc) == req' = [req EXCEPT ![r].pc = pc]
Answer(r) == req' = [req EXCEPT ![r] = Free]

\* A local write failed: the one error the toolchain is told of.
DiskError(r) ==
    /\ cfg.disk
    /\ req' = [req EXCEPT ![r] = [pc |-> "idle", a |-> None, o |-> None, failed |-> TRUE, broke |-> TRUE]]

At(r, pc) == req[r].pc = pc

\* Through the breaker: the call is made, or it is answered without.
Ask(r, in) == allow /\ Goto(r, in)

-----------------------------------------------------------------------------
(* New: the local cache, then one probe of each back-end that is asked     *)
(* for.  What does not answer in time is left out of the chain for good.   *)

\* What is left of start-up, and never more than a probe's worth; 0 stands
\* for the millisecond that a budget gone buys.
withBudget(spent) ==
    IF spent >= startBudget THEN 0
    ELSE IF startBudget - spent < probeTimeout THEN startBudget - spent
         ELSE probeTimeout

\* After time t a back-end has answered and joins the chain, or it has not
\* and is left out of it.
Tried(b, t) ==
    \/ /\ b \in cfg.there
       /\ boot' = [boot EXCEPT !.spent = @ + t, !.tried = @ \cup {b},
                               !.joined = @ \cup {b}]
    \/ /\ b \notin cfg.there \/ cfg.fails
       /\ boot' = [boot EXCEPT !.spent = @ + t, !.tried = @ \cup {b},
                               !.degraded = TRUE]

\* The server is asked for a key; that it has none is an answer.
dial ==
    /\ "remote" \in cfg.asked \ boot.tried
    /\ \E t \in 0 .. withBudget(boot.spent) : Tried("remote", t)
    /\ UNCHANGED life

\* Then the bucket for a listing, which may be empty.
openBucket ==
    /\ "bucket" \in cfg.asked \ boot.tried
    /\ "remote" \notin cfg.asked \ boot.tried
    /\ \E t \in 0 .. withBudget(boot.spent) : Tried("bucket", t)
    /\ UNCHANGED life

\* The clock is not looked at again.
Serve ==
    /\ boot.tried = cfg.asked
    /\ life' = "serving" /\ boot' = [boot EXCEPT !.spent = 0]

\* No directory, or no disk tier in it: the one error New returns.
NoLocal ==
    /\ cfg.disk /\ boot.tried = {}
    /\ life' = "closed" /\ UNCHANGED boot

New ==
    /\ life = "starting"
    /\ NoLocal \/ dial \/ openBucket \/ Serve
    /\ UNCHANGED <<cfg, store, files, req, up, books, breakerVars>>

-----------------------------------------------------------------------------
(* get: the record.                                                        *)

GetBegin(r, a) ==
    /\ life = "serving" /\ At(r, "idle")
    /\ req' = [req EXCEPT ![r] = Request("action", a, None)]
    /\ UNCHANGED <<life, store, files, up, books, breakerVars>>

\* Where a record leads: to its output, or, when it cannot be read, out.
Follow(r, rec) ==
    req' = [req EXCEPT ![r].o = rec, ![r].pc = IF rec = Junk THEN "dropLocal" ELSE "need"]

\* The local tier first; a local tier that fails is passed over.
GetLocal(r) ==
    /\ At(r, "action")
    /\ \/ local[req[r].a] # None /\ Follow(r, local[req[r].a])
       \/ /\ local[req[r].a] = None \/ cfg.disk
          /\ IF behind = "none" THEN Answer(r) ELSE Goto(r, "askAction")
    /\ UNCHANGED <<life, store, files, up, books, breakerVars>>

GetActionAsk(r) ==
    /\ At(r, "askAction")
    /\ Ask(r, "inAction") \/ (bypass /\ Answer(r))
    /\ UNCHANGED <<life, store, files, up, books>>

\* A failed call is a miss.  So is a body that breaks off, which the chain
\* reports as an error and get answers with a miss; the breaker has already
\* recorded a success.
GetActionBack(r) ==
    LET rec == records[req[r].a] IN
    /\ At(r, "inAction")
    /\ \/ cfg.fails /\ record(FALSE) /\ Answer(r)
       \/ (rec = None \/ cfg.fails) /\ record(TRUE) /\ Answer(r)
       \/ /\ rec # None /\ record(TRUE)
          /\ req' = [req EXCEPT ![r].o = rec, ![r].pc = "forward"]
    /\ UNCHANGED <<life, store, files, up, books>>

\* The chain faults the record into the local tier, if that takes it.
GetForward(r) ==
    /\ At(r, "forward")
    /\ \/ local' = [local EXCEPT ![req[r].a] = req[r].o]
       \/ cfg.disk /\ UNCHANGED local
    /\ Follow(r, req[r].o)
    /\ UNCHANGED <<life, records, outputs, files, up, books, breakerVars>>

-----------------------------------------------------------------------------
(* get: the output.                                                        *)

\* Seeded fault: the object directory is not asked first.
GetNeedAlways(r) ==
    /\ At(r, "need")
    /\ IF behind = "none" THEN Goto(r, "dropLocal") ELSE Goto(r, "askOutput")
    /\ UNCHANGED <<life, store, files, up, books, breakerVars>>

\* GetIf asks whether the bytes are needed: an object that is there is
\* handed out by its path.  The local tier has no outputs to look for.
GetNeed(r) ==
    LET o == req[r].o IN
    /\ At(r, "need")
    /\ IF o \in objects
       THEN Answer(r) /\ young' = young \cup ({o} \ old)
       ELSE /\ IF behind = "none" THEN Goto(r, "dropLocal") ELSE Goto(r, "askOutput")
            /\ UNCHANGED young
    /\ UNCHANGED <<life, store, objects, old, prune, up, books, breakerVars>>

\* A bypassed tier has no output, which makes the record a dangling one.
GetOutputAsk(r) ==
    /\ At(r, "askOutput")
    /\ Ask(r, "inOutput") \/ (bypass /\ Goto(r, "dropLocal"))
    /\ UNCHANGED <<life, store, files, up, books>>

\* Seeded fault: a body that breaks off is reported to the toolchain.
GetOutputBackFails(r) ==
    LET o == req[r].o IN
    /\ At(r, "inOutput")
    /\ \/ cfg.fails /\ record(FALSE) /\ Goto(r, "dropLocal")
       \/ o \notin outputs /\ record(TRUE) /\ Goto(r, "dropLocal")
       \/ o \in outputs /\ cfg.fails /\ record(TRUE) /\ req' = [req EXCEPT ![r] = [Free EXCEPT !.failed = TRUE]]
       \/ o \in outputs /\ record(TRUE) /\ Goto(r, "write")
    /\ UNCHANGED <<life, store, files, up, books>>

\* Nor has one that fails; a body that breaks off is a plain miss.
GetOutputBack(r) ==
    LET o == req[r].o IN
    /\ At(r, "inOutput")
    /\ \/ cfg.fails /\ record(FALSE) /\ Goto(r, "dropLocal")
       \/ o \notin outputs /\ record(TRUE) /\ Goto(r, "dropLocal")
       \/ o \in outputs /\ cfg.fails /\ record(TRUE) /\ Answer(r)
       \/ o \in outputs /\ record(TRUE) /\ Goto(r, "write")
    /\ UNCHANGED <<life, store, files, up, books>>

\* objectDir.write: nothing is done for an object that is there, and a new
\* one appears whole, by its rename, with the given modification time.
Materialise(o, aged) ==
    /\ objects' = objects \cup {o}
    /\ old' = IF o \notin objects /\ aged THEN old \cup {o} ELSE old
    /\ young' = young \cup ({o} \ old')

GetWrite(r) ==
    /\ At(r, "write")
    /\ \/ Materialise(req[r].o, req[r].o \in Aged) /\ Answer(r)
       \/ DiskError(r) /\ UNCHANGED <<objects, old, young>>
    /\ UNCHANGED <<life, store, prune, up, books, breakerVars>>

\* dropDangling and deleteQuietly: the record goes from the local tier, then
\* from the one behind.
GetDropLocal(r) ==
    /\ At(r, "dropLocal")
    /\ \/ local' = [local EXCEPT ![req[r].a] = None]
       \/ cfg.disk /\ UNCHANGED local
    /\ IF behind = "none" THEN Answer(r) ELSE Goto(r, "askDelete")
    /\ UNCHANGED <<life, records, outputs, files, up, books, breakerVars>>

GetDeleteAsk(r) ==
    /\ At(r, "askDelete")
    /\ Ask(r, "inDelete") \/ (bypass /\ Answer(r))
    /\ UNCHANGED <<life, store, files, up, books>>

\* A remote tier refuses every Delete, and the breaker counts that.
GetDeleteBack(r) ==
    LET gone == [records EXCEPT ![req[r].a] = None] IN
    /\ At(r, "inDelete")
    /\ \/ behind = "remote" /\ record(FALSE) /\ UNCHANGED records
       \/ behind = "bucket" /\ cfg.fails /\ record(FALSE) /\ records' \in {records, gone}
       \/ behind = "bucket" /\ record(TRUE) /\ records' = gone
    /\ Answer(r)
    /\ UNCHANGED <<life, local, outputs, files, up, books>>

-----------------------------------------------------------------------------
(* put.                                                                    *)

PutBegin(r, a, o) ==
    /\ life = "serving" /\ At(r, "idle") /\ puts < cfg.puts
    /\ puts' = puts + 1
    /\ req' = [req EXCEPT ![r] = Request("putWrite", a, o)]
    /\ UNCHANGED <<life, store, files, up, lostRecords, dropped, breakerVars>>

\* The toolchain gives no older time than that of the build.
PutWrite(r) ==
    /\ At(r, "putWrite")
    /\ \/ Materialise(req[r].o, FALSE) /\ Goto(r, "putRecord")
       \/ DiskError(r) /\ UNCHANGED <<objects, old, young>>
    /\ UNCHANGED <<life, store, prune, up, books, breakerVars>>

\* The record, in the local tier: the output is declined there.  The file is
\* opened again for it, and may be gone.
PutRecord(r) ==
    LET here == req[r].o \in objects IN
    /\ At(r, "putRecord")
    /\ \/ here /\ local' = [local EXCEPT ![req[r].a] = req[r].o]
       \/ (~here \/ cfg.disk) /\ UNCHANGED local
    /\ lostRecords' = IF here THEN lostRecords ELSE lostRecords + 1
    /\ IF behind = "none" THEN Answer(r) ELSE Goto(r, "reopen")
    /\ UNCHANGED <<life, records, outputs, files, up, puts, dropped, breakerVars>>

PutReopen(r) ==
    LET here == req[r].o \in objects IN
    /\ At(r, "reopen")
    /\ lostRecords' = IF here THEN lostRecords ELSE lostRecords + 1
    /\ IF here THEN Goto(r, "submit") ELSE Answer(r)
    /\ UNCHANGED <<life, store, files, up, puts, dropped, breakerVars>>

\* submit blocks until one of the slots is free.
PutSubmit(r) ==
    /\ At(r, "submit")
    /\ \E w \in Workers \ Running :
          up' = [up EXCEPT ![w] = [pc |-> "askOutput", a |-> req[r].a, o |-> req[r].o]]
    /\ Answer(r)
    /\ UNCHANGED <<life, store, files, books, breakerVars>>

-----------------------------------------------------------------------------
(* Uploads: the output, then the record, each through the breaker, which   *)
(* reports neither a failure nor a call it did not make.  A call that      *)
(* fails may have done its work or not; the upload's own deadline is one   *)
(* of the reasons to fail.                                                 *)

UpGoto(w, pc) == up' = [up EXCEPT ![w].pc = pc]

UpOutputAsk(w) ==
    /\ up[w].pc = "askOutput"
    /\ \/ allow /\ UpGoto(w, "inOutput") /\ UNCHANGED dropped
       \/ bypass /\ UpGoto(w, "askRecord") /\ dropped' = dropped \cup {up[w].o}
    /\ UNCHANGED <<life, store, files, req, puts, lostRecords>>

\* Seeded fault: the upload goes on without waiting for the output.
UpOutputBackEarly(w) ==
    /\ up[w].pc = "inOutput"
    /\ \E stored \in BOOLEAN :
          outputs' = IF stored THEN outputs \cup {up[w].o} ELSE outputs
    /\ record(TRUE)
    /\ UpGoto(w, "askRecord")
    /\ UNCHANGED <<life, local, records, files, req, books>>

\* Seeded fault: an output that is there already ends the upload, and its
\* slot is never given back.
UpOutputBackKeeps(w) ==
    /\ up[w].pc = "inOutput"
    /\ UpGoto(w, IF up[w].o \in outputs THEN "kept" ELSE "askRecord")
    /\ outputs' = outputs \cup {up[w].o} /\ record(TRUE)
    /\ UNCHANGED <<life, local, records, files, req, books>>

UpOutputBack(w) ==
    LET put == outputs \cup {up[w].o} IN
    /\ up[w].pc = "inOutput"
    /\ \/ record(TRUE) /\ outputs' = put /\ UNCHANGED dropped
       \/ /\ cfg.fails /\ record(FALSE)
          /\ outputs' \in {outputs, put} /\ dropped' = dropped \cup {up[w].o}
    /\ UpGoto(w, "askRecord")
    /\ UNCHANGED <<life, local, records, files, req, puts, lostRecords>>

UpEnds(w) == up' = [up EXCEPT ![w] = NoUpload]

UpRecordAsk(w) ==
    /\ up[w].pc = "askRecord"
    /\ \/ allow /\ UpGoto(w, "inRecord")
       \/ bypass /\ UpEnds(w)
    /\ UNCHANGED <<life, store, files, req, books>>

UpRecordBack(w) ==
    LET put == [records EXCEPT ![up[w].a] = up[w].o] IN
    /\ up[w].pc = "inRecord"
    /\ \/ record(TRUE) /\ records' = put
       \/ cfg.fails /\ record(FALSE) /\ records' \in {records, put}
    /\ UpEnds(w)
    /\ UNCHANGED <<life, local, outputs, files, req, books>>

-----------------------------------------------------------------------------
(* The end of the build, the pruner, and what the tiers do on their own.   *)

\* The toolchain closes the protocol, other requests may be under way.
ProtocolClose ==
    /\ life = "serving" /\ life' = "draining"
    /\ UNCHANGED <<store, files, req, up, books, breakerVars>>

\* drainUploads: everything has ended, or the time is over and what is still
\* running is counted as lost.
DrainUploads(next) ==
    /\ life' = next
    /\ lostRecords' = lostRecords + Cardinality(Running)
    /\ UNCHANGED <<store, files, req, up, puts, dropped, breakerVars>>

ProtocolDrained == life = "draining" /\ DrainUploads("drained")

\* Serve returns once its requests are answered, after a close or at the end
\* of its input, and Run calls Close.
ServeReturns ==
    /\ life \in {"serving", "drained"} /\ \A r \in Reqs : At(r, "idle")
    /\ life' = "closing"
    /\ UNCHANGED <<store, files, req, up, books, breakerVars>>

\* Seeded fault: Close trusts the drain at the end of the protocol.
CloseOnly ==
    /\ life = "closing" /\ life' = "closed"
    /\ UNCHANGED <<store, files, req, up, books, breakerVars>>

\* Close drains again, and then stops the collector and saves the index.
Close == life = "closing" /\ DrainUploads("closed")

\* The pruner comes past every name once, reads the file's time and removes
\* the file in two steps.  Coming past a file that stays changes nothing.
Pruning(o) ==
    /\ o \in prune.todo /\ prune.victim = None
    /\ prune' = [todo |-> prune.todo \ {o}, victim |-> o]
    /\ UNCHANGED <<life, store, objects, old, young, req, up, books, breakerVars>>

\* Seeded fault: the age of a file is not looked at.
PruneStatAny(o) == o \in objects /\ Pruning(o)

PruneStat(o) == o \in old /\ Pruning(o)

PruneRemove ==
    /\ prune.victim # None
    /\ objects' = objects \ {prune.victim} /\ old' = old \ {prune.victim}
    /\ prune' = [prune EXCEPT !.victim = None]
    /\ UNCHANGED <<life, store, young, req, up, books, breakerVars>>

\* The tier behind drops an output; a record that is dropped is no more than
\* one that was never there.
Evict(o) ==
    /\ cfg.evicts /\ o \in outputs
    /\ outputs' = outputs \ {o}
    /\ UNCHANGED <<life, local, records, files, req, up, books, breakerVars>>

BreakerTick == Tick /\ UNCHANGED <<life, store, files, req, up, books>>

-----------------------------------------------------------------------------
(* The whole.                                                              *)

Get(r) ==
    \/ GetLocal(r) \/ GetActionAsk(r) \/ GetActionBack(r) \/ GetForward(r)
    \/ GetNeed(r) \/ GetOutputAsk(r) \/ GetOutputBack(r) \/ GetWrite(r)
    \/ GetDropLocal(r) \/ GetDeleteAsk(r) \/ GetDeleteBack(r)

Put(r) == PutWrite(r) \/ PutRecord(r) \/ PutReopen(r) \/ PutSubmit(r)

Upload(w) == UpOutputAsk(w) \/ UpOutputBack(w) \/ UpRecordAsk(w) \/ UpRecordBack(w)

Prune == PruneRemove \/ \E o \in Outputs : PruneStat(o)

Exits == ProtocolDrained \/ ServeReturns \/ Close

Begin(r) == (\E a \in Actions : GetBegin(r, a)) \/ (\E a \in Actions, o \in Outputs : PutBegin(r, a, o))

\* A process that has exited does nothing more.
Alive == life \notin {"starting", "closed"} /\ UNCHANGED <<cfg, boot>>

Working ==
    /\ Alive
    /\ \/ \E r \in Reqs : Begin(r) \/ Get(r) \/ Put(r)
       \/ \E w \in Workers : Upload(w)
       \/ (\E o \in Outputs : Evict(o)) \/ Prune \/ ProtocolClose \/ Exits \/ BreakerTick

Next == New \/ Working

\* Records without output, and records that cannot be read, are found behind
\* only where that tier loses objects.
Init ==
    /\ cfg \in Configs /\ life = "starting" /\ BreakerInit
    /\ boot = [spent |-> 0, tried |-> {}, joined |-> {}, degraded |-> FALSE]
    /\ records \in [Actions -> Records] /\ outputs \in SUBSET Outputs
    /\ cfg.evicts \/ \A a \in Actions : records[a] \in outputs \cup {None}
    /\ cfg.there = {} => outputs = {} /\ \A a \in Actions : records[a] = None
    /\ IF cfg.warm
       THEN local \in [Actions -> Records] /\ objects \in SUBSET Outputs /\ old \in SUBSET objects
       ELSE local = [a \in Actions |-> None] /\ objects = {} /\ old = {}
    /\ req = [r \in Reqs |-> Free] /\ up = [w \in Workers |-> NoUpload]
    /\ prune = [todo |-> Outputs, victim |-> None]
    /\ puts = 0 /\ lostRecords = 0 /\ dropped = {} /\ young = {}

Spec == Init /\ [][Next]_vars

\* Every goroutine goes on; a tier answers or its call times out; the clock
\* runs.  Requests begin, evictions happen and the toolchain closes at will.
Fairness ==
    /\ \A r \in Reqs : WF_vars(Alive /\ (Get(r) \/ Put(r)))
    /\ \A w \in Workers : WF_vars(Alive /\ Upload(w))
    /\ WF_vars(New) /\ WF_vars(Alive /\ Exits) /\ WF_vars(Alive /\ BreakerTick)

FairSpec == Spec /\ Fairness

-----------------------------------------------------------------------------
(* Properties.                                                             *)

LifeOK ==
    /\ BreakerTypeOK /\ cfg \in Configs
    /\ boot \in [spent : Nat, tried : SUBSET BackEnds,
                joined : SUBSET BackEnds, degraded : BOOLEAN]
    /\ life \in {"starting", "serving", "draining", "drained", "closing", "closed"}
    /\ puts \in 0 .. cfg.puts /\ lostRecords \in Nat

StoresOK ==
    /\ local \in [Actions -> Records] /\ records \in [Actions -> Records]
    /\ outputs \subseteq Outputs /\ dropped \subseteq Outputs

FilesOK ==
    /\ old \subseteq objects /\ objects \subseteq Outputs /\ young \subseteq Outputs
    /\ prune \in [todo : SUBSET Outputs, victim : Outputs \cup {None}]

CallsOK ==
    /\ req \in [Reqs -> [pc : PCs, a : Actions \cup {None}, o : Records,
                         failed : BOOLEAN, broke : BOOLEAN]]
    /\ up \in [Workers -> [pc : {"idle", "askOutput", "inOutput", "askRecord", "inRecord"},
                           a : Actions \cup {None}, o : Outputs \cup {None}]]

\* Types.
TypeOK == LifeOK /\ StoresOK /\ FilesOK /\ CallsOK

\* Start-up takes no longer than its budget, whatever back-ends are asked for
\* and however slowly they fail, and the agent is degraded exactly when the
\* chain that came up is not the one that was asked for (agent.go New,
\* withBudget).
StartBounded ==
    /\ boot.spent <= startBudget
    /\ life \notin {"starting", "closed"} =>
          (boot.degraded <=> boot.joined # cfg.asked)

\* The rule the package is written around: the only error that reaches the
\* toolchain is a failed local write, whatever the tier behind, the breaker
\* and the uploads do (agent.go get, put).
OnlyDiskErrors == \A r \in Reqs : req[r].failed => req[r].broke

\* gobuild.Put writes the output before the record that names it, so that a
\* record behind has its output there, wherever the process is killed, unless
\* the breaker has kept that output from the tier (gobuild.go Put).
RecordsNameOutputs ==
    ~cfg.evicts => \A a \in Actions : records[a] \in outputs \cup dropped \cup {None}

\* On a machine without leftovers, with a tier that neither fails nor evicts,
\* no get takes a record for a dangling one while its upload is under way:
\* a readable record behind is only ever replaced (gobuild.go Get).
GoodRecordsStay ==
    [][~cfg.warm /\ ~cfg.fails /\ ~cfg.evicts =>
         \A a \in Actions : records[a] \in Outputs => records'[a] \in Outputs]_vars

\* A file that was not old when its path was given out stays for the build:
\* the pruner, which stats and removes in two steps, takes only old ones
\* (objects.go prune).
YoungFilesStay == young \subseteq objects

\* When the process ends every upload it kills has been counted, also those
\* submitted while the first drain was waiting (agent.go Close, drainUploads).
KilledUploadsCounted == life = "closed" => Cardinality(Running) <= lostRecords

\* Misses, and the records dropped after them, never open the circuit of a
\* bucket that answers every call (breaker.go record).
MissesKeepClosed == behind = "bucket" /\ ~cfg.fails => ~tripped

\* An open circuit is passable again after a while, however many requests
\* are turned away and whatever calls let in before it still report
\* (breaker.go allow, record).
CircuitRecovers == Open ~> ~Open \/ life = "closed"

\* A build that closes the protocol ends: every request under way is
\* answered, also a put that waits for an upload slot, and both drains end
\* (agent.go protocolClose, Close).
CloseEnds == life = "draining" ~> life = "closed"
=============================================================================
