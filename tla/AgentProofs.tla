----------------------------- MODULE AgentProofs -----------------------------
(***************************************************************************)
(* Theorems about the agent, for any number of requests, upload slots,     *)
(* actions and outputs, any breaker and any set of deployments.            *)
(***************************************************************************)
EXTENDS Agent, FiniteSetTheorems, TLAPS

-----------------------------------------------------------------------------
(* The inductive invariant.                                                *)

\* A request or an upload under way knows its action, and its output from
\* the moment it has one in hand.
Busy ==
    /\ \A r \in Reqs :
          /\ ~At(r, "idle") => req[r].a \in Actions
          /\ req[r].pc \in {"write", "putWrite", "putRecord", "reopen", "submit"} =>
                req[r].o \in Outputs
    /\ \A w \in Workers : up[w].pc # "idle" => up[w].a \in Actions /\ up[w].o \in Outputs

\* An upload that has come to its record has its output behind it.
OutputFirst ==
    ~cfg.evicts =>
        \A w \in Workers : up[w].pc \in {"askRecord", "inRecord"} => up[w].o \in outputs \cup dropped

\* What the pruner removes is old, and what was handed out young is not.
VictimsOld ==
    /\ prune.victim \in old \cup {None}
    /\ young \subseteq objects \ old

\* Start-up: nothing runs yet, the circuit is closed, and a back-end that was
\* tried has joined the chain or degraded the agent.
Starting ==
    /\ life = "starting" => (\A w \in Workers : up[w].pc = "idle") /\ consecutive = 0 /\ ~tripped
    /\ boot.spent <= startBudget
    /\ boot.joined \subseteq boot.tried /\ boot.tried \subseteq cfg.asked
    /\ boot.degraded <=> boot.joined # boot.tried
    /\ life \notin {"starting", "closed"} => boot.tried = cfg.asked

\* A bucket that answers gives the breaker nothing to count.
NoFailures == behind = "bucket" /\ ~cfg.fails => ~tripped /\ consecutive = 0

IInv ==
    /\ TypeOK /\ Busy /\ OutputFirst /\ VictimsOld /\ Starting /\ NoFailures
    /\ OnlyDiskErrors /\ RecordsNameOutputs /\ KilledUploadsCounted

-----------------------------------------------------------------------------
(* Types.                                                                  *)

\* allow and record keep the breaker's counter below its threshold and the
\* window within its length.
LEMMA BreakerTyped ==
    ASSUME BreakerTypeOK, NEW healthy \in BOOLEAN, allow \/ bypass \/ record(healthy) \/ Tick
    PROVE  BreakerTypeOK'
<1>1. tripped' \in BOOLEAN
  BY Zenon DEF BreakerTypeOK, allow, bypass, record, Tick, breakerVars
<1>2. consecutive' \in 0 .. Threshold - 1
  BY BreakerAssumption DEF BreakerTypeOK, allow, bypass, record, Tick, breakerVars
<1>3. left' \in 0 .. Window
  BY BreakerAssumption DEF BreakerTypeOK, allow, bypass, record, Tick, Open, breakerVars
<1> QED
  BY <1>1, <1>2, <1>3 DEF BreakerTypeOK

\* Every step leaves the breaker alone, or is one of its critical sections.
LEMMA BreakerMoves ==
    ASSUME [Next]_vars
    PROVE  \/ UNCHANGED breakerVars
           \/ allow \/ bypass \/ Tick \/ record(TRUE) \/ record(FALSE)
<1>1. ASSUME NEW r \in Reqs, Get(r)
      PROVE  UNCHANGED breakerVars \/ allow \/ bypass \/ record(TRUE) \/ record(FALSE)
  BY <1>1, Zenon DEF Get, GetLocal, GetActionAsk, GetActionBack, GetForward, GetNeed, GetOutputAsk,
     GetOutputBack, GetWrite, GetDropLocal, GetDeleteAsk, GetDeleteBack, Ask
<1>2. ASSUME NEW r \in Reqs, Begin(r) \/ Put(r)
      PROVE  UNCHANGED breakerVars
  BY <1>2, Zenon DEF Begin, GetBegin, PutBegin, Put, PutWrite, PutRecord, PutReopen, PutSubmit
<1>3. ASSUME NEW w \in Workers, Upload(w)
      PROVE  allow \/ bypass \/ record(TRUE) \/ record(FALSE)
  BY <1>3, Zenon DEF Upload, UpOutputAsk, UpOutputBack, UpRecordAsk, UpRecordBack
<1>4. ASSUME (\E o \in Outputs : Evict(o)) \/ Prune \/ ProtocolClose \/ Exits
      PROVE  UNCHANGED breakerVars
  BY <1>4 DEF Evict, Prune, PruneRemove, PruneStat, Pruning, ProtocolClose, Exits,
     ProtocolDrained, DrainUploads, ServeReturns, Close
<1> QED
  BY <1>1, <1>2, <1>3, <1>4, Zenon DEF Next, New, Working, BreakerTick, vars

\* The scalars keep their types.
LEMMA LifeTyped == ASSUME IInv, [Next]_vars PROVE LifeOK'
<1>1. BreakerTypeOK'
  BY BreakerMoves, BreakerTyped, Zenon DEF IInv, TypeOK, LifeOK, BreakerTypeOK, breakerVars
<1>2. cfg' = cfg
  BY DEF Next, New, Working, Alive, vars
<1>0. /\ boot \in [spent : Nat, tried : SUBSET BackEnds,
                   joined : SUBSET BackEnds, degraded : BOOLEAN]
      /\ puts \in 0 .. cfg.puts /\ lostRecords \in Nat /\ cfg.puts \in Nat
  BY ConfigsAssumption DEF IInv, TypeOK, LifeOK
<1>3. ASSUME NEW b \in BackEnds, NEW t \in 0 .. withBudget(boot.spent), Tried(b, t)
      PROVE  boot' \in [spent : Nat, tried : SUBSET BackEnds,
                        joined : SUBSET BackEnds, degraded : BOOLEAN]
  <2>1. boot.spent + t \in Nat
    BY <1>0, <1>3
  <2>2. boot.tried \cup {b} \in SUBSET BackEnds /\ boot.joined \cup {b} \in SUBSET BackEnds
    BY <1>0
  <2> QED
    BY <1>0, <1>3, <2>1, <2>2, Zenon DEF Tried
<1>4. boot' \in [spent : Nat, tried : SUBSET BackEnds,
                 joined : SUBSET BackEnds, degraded : BOOLEAN]
  BY <1>3 DEF Next, New, NoLocal, dial, openBucket, Serve, Working, Alive, BackEnds,
     IInv, TypeOK, LifeOK, vars
<1>5. Cardinality(Running) \in Nat
  BY WorkersAssumption, FS_Subset, FS_CardinalityType DEF Running
<1>6. /\ life' \in {"starting", "serving", "draining", "drained", "closing", "closed"}
      /\ puts' \in 0 .. cfg.puts /\ lostRecords' \in Nat
  <2>1. CASE New
    BY <2>1 DEF New, NoLocal, dial, openBucket, Serve, books, IInv, TypeOK, LifeOK
  <2>2. ASSUME NEW r \in Reqs, Begin(r)
        PROVE  life' = life /\ lostRecords' = lostRecords /\ puts' \in 0 .. cfg.puts
    <3>1. ASSUME NEW a \in Actions, GetBegin(r, a) PROVE UNCHANGED <<life, books>>
      BY <3>1 DEF GetBegin
    <3>2. ASSUME NEW a \in Actions, NEW o \in Outputs, PutBegin(r, a, o)
          PROVE  life' = life /\ lostRecords' = lostRecords /\ puts' \in 0 .. cfg.puts
      <4>1. puts < cfg.puts /\ puts' = puts + 1 /\ UNCHANGED <<life, lostRecords>>
        BY <3>2 DEF PutBegin
      <4> QED
        BY <4>1, <1>0
    <3> QED
      BY <2>2, <3>1, <3>2, <1>0 DEF Begin, books
  <2>3. ASSUME NEW r \in Reqs, Get(r)
        PROVE  UNCHANGED <<life, books>>
    BY <2>3, Zenon DEF Get, GetLocal, GetActionAsk, GetActionBack, GetForward, GetNeed,
       GetOutputAsk, GetOutputBack, GetWrite, GetDropLocal, GetDeleteAsk, GetDeleteBack
  <2>4. ASSUME NEW r \in Reqs, Put(r)
        PROVE  life' = life /\ lostRecords' \in Nat /\ puts' = puts
    <3>1. CASE PutWrite(r) \/ PutSubmit(r)
      BY <3>1, <1>0, Zenon DEF PutWrite, PutSubmit, books
    <3>2. CASE PutRecord(r)
      BY <3>2, <1>0 DEF PutRecord
    <3>3. CASE PutReopen(r)
      BY <3>3, <1>0 DEF PutReopen
    <3> QED
      BY <2>4, <3>1, <3>2, <3>3 DEF Put
  <2>5. ASSUME NEW w \in Workers, Upload(w)
        PROVE  UNCHANGED <<life, puts, lostRecords>>
    BY <2>5, Zenon DEF Upload, UpOutputAsk, UpOutputBack, UpRecordAsk, UpRecordBack, books
  <2>6. CASE Exits \/ ProtocolClose
    BY <2>6, <1>5 DEF Exits, ProtocolDrained, DrainUploads, ServeReturns, Close,
       ProtocolClose, books, IInv, TypeOK, LifeOK
  <2>7. ASSUME (\E o \in Outputs : Evict(o)) \/ Prune \/ BreakerTick
        PROVE  UNCHANGED <<life, books>>
    BY <2>7 DEF Evict, Prune, PruneRemove, PruneStat, Pruning, BreakerTick
  <2>8. CASE UNCHANGED vars
    BY <2>8 DEF vars, books, IInv, TypeOK, LifeOK
  <2> QED
    BY <2>1, <2>2, <2>3, <2>4, <2>5, <2>6, <2>7, <2>8
       DEF Next, Working, books, IInv, TypeOK, LifeOK
<1> QED
  BY <1>1, <1>2, <1>4, <1>6 DEF LifeOK, IInv, TypeOK

-----------------------------------------------------------------------------
(* Requests.                                                               *)

\* What the invariant says of the requests.
RequestsOK ==
    /\ req \in [Reqs -> [pc : PCs, a : Actions \cup {None}, o : Records,
                         failed : BOOLEAN, broke : BOOLEAN]]
    /\ \A r \in Reqs :
          /\ ~At(r, "idle") => req[r].a \in Actions
          /\ req[r].pc \in {"write", "putWrite", "putRecord", "reopen", "submit"} =>
                req[r].o \in Outputs
    /\ OnlyDiskErrors

\* The states that need an output in hand.
WithOutput == {"write", "putWrite", "putRecord", "reopen", "submit"}

\* A request that is answered or ends in a disk error is free again.
LEMMA AnswerKeeps ==
    ASSUME RequestsOK, NEW r \in Reqs, Answer(r) \/ DiskError(r)
    PROVE  RequestsOK'
<1>1. CASE Answer(r)
  BY <1>1 DEF RequestsOK, Answer, Free, Request, At, PCs, Records, OnlyDiskErrors
<1>2. CASE DiskError(r)
  BY <1>2 DEF RequestsOK, DiskError, At, PCs, Records, OnlyDiskErrors
<1> QED
  BY <1>1, <1>2

\* A request under way goes on, with an output where one is needed.
LEMMA GotoKeeps ==
    ASSUME RequestsOK, NEW r \in Reqs, ~At(r, "idle"), NEW pc \in PCs, Goto(r, pc),
           pc \in WithOutput => req[r].o \in Outputs
    PROVE  RequestsOK'
  BY DEF RequestsOK, Goto, At, WithOutput, OnlyDiskErrors

\* It is given what its record says.
LEMMA FollowKeeps ==
    ASSUME RequestsOK, NEW r \in Reqs, ~At(r, "idle"), NEW rec \in Records,
           NEW pc \in PCs \ WithOutput,
           req' = [req EXCEPT ![r].o = rec, ![r].pc = pc]
    PROVE  RequestsOK'
<1>1. req' \in [Reqs -> [pc : PCs, a : Actions \cup {None}, o : Records,
                        failed : BOOLEAN, broke : BOOLEAN]]
  BY Zenon DEF RequestsOK
<1>2. /\ req'[r].pc = pc /\ req'[r].a = req[r].a
      /\ req'[r].failed = req[r].failed /\ req'[r].broke = req[r].broke
      /\ \A q \in Reqs : q # r => req'[q] = req[q]
  BY DEF RequestsOK
<1> QED
  BY <1>1, <1>2, Zenon DEF RequestsOK, At, WithOutput, OnlyDiskErrors

\* It begins.
LEMMA BeginKeeps ==
    ASSUME RequestsOK, NEW r \in Reqs, Begin(r)
    PROVE  RequestsOK'
<1>1. ASSUME NEW a \in Actions, NEW o \in Records, NEW pc \in PCs,
             pc \in WithOutput => o \in Outputs,
             req' = [req EXCEPT ![r] = Request(pc, a, o)]
      PROVE  RequestsOK'
  BY <1>1 DEF RequestsOK, Request, At, WithOutput, OnlyDiskErrors
<1>2. ASSUME NEW a \in Actions, GetBegin(r, a)
      PROVE  RequestsOK'
  BY <1>1, <1>2, Zenon DEF GetBegin, PCs, WithOutput, Records
<1>3. ASSUME NEW a \in Actions, NEW o \in Outputs, PutBegin(r, a, o)
      PROVE  RequestsOK'
  BY <1>1, <1>3, Zenon DEF PutBegin, PCs, WithOutput, Records
<1> QED
  BY <1>2, <1>3 DEF Begin

\* Every step of a get keeps them.
LEMMA GetKeeps ==
    ASSUME IInv, RequestsOK, NEW r \in Reqs, Get(r)
    PROVE  RequestsOK'
<1> USE DEF PCs, WithOutput
<1>1. ~At(r, "idle")
  BY Zenon DEF Get, GetLocal, GetActionAsk, GetActionBack, GetForward, GetNeed, GetOutputAsk,
     GetOutputBack, GetWrite, GetDropLocal, GetDeleteAsk, GetDeleteBack, At
<1>2. req[r].a \in Actions /\ req[r].o \in Records
  BY <1>1 DEF RequestsOK
<1>3. ASSUME NEW rec \in Records, Follow(r, rec)
      PROVE  RequestsOK'
  <2>1. CASE rec = Junk
    <3>1. req' = [req EXCEPT ![r].o = rec, ![r].pc = "dropLocal"]
      BY <1>3, <2>1 DEF Follow
    <3> QED
      BY <1>1, <3>1, FollowKeeps, Zenon
  <2>2. CASE rec # Junk
    <3>1. req' = [req EXCEPT ![r].o = rec, ![r].pc = "need"]
      BY <1>3, <2>2 DEF Follow
    <3> QED
      BY <1>1, <3>1, FollowKeeps, Zenon
  <2> QED
    BY <2>1, <2>2
<1>4. CASE GetLocal(r)
  <2>1. local[req[r].a] \in Records
    BY <1>2 DEF IInv, TypeOK, StoresOK
  <2> QED
    BY <1>1, <1>3, <1>4, <2>1, AnswerKeeps, GotoKeeps DEF GetLocal
<1>5. CASE GetActionAsk(r)
  BY <1>1, <1>5, AnswerKeeps, GotoKeeps DEF GetActionAsk, Ask
<1>6. CASE GetActionBack(r)
  <2>1. records[req[r].a] \in Records
    BY <1>2 DEF IInv, TypeOK, StoresOK
  <2>2. CASE Answer(r)
    BY <2>2, AnswerKeeps
  <2>3. CASE req' = [req EXCEPT ![r].o = records[req[r].a], ![r].pc = "forward"]
    BY <1>1, <2>1, <2>3, FollowKeeps, Zenon
  <2> QED
    BY <1>6, <2>2, <2>3, Zenon DEF GetActionBack
<1>7. CASE GetForward(r)
  BY <1>2, <1>3, <1>7 DEF GetForward
<1>8. CASE GetNeed(r)
  BY <1>1, <1>8, AnswerKeeps, GotoKeeps DEF GetNeed
<1>9. CASE GetOutputAsk(r)
  BY <1>1, <1>9, GotoKeeps DEF GetOutputAsk, Ask
<1>10. CASE GetOutputBack(r)
  <2>1. outputs \subseteq Outputs
    BY DEF IInv, TypeOK, StoresOK
  <2>2. CASE Answer(r)
    BY <2>2, AnswerKeeps
  <2>3. CASE Goto(r, "dropLocal")
    BY <1>1, <2>3, GotoKeeps
  <2>4. CASE req[r].o \in outputs /\ Goto(r, "write")
    BY <1>1, <2>1, <2>4, GotoKeeps
  <2> QED
    BY <1>10, <2>2, <2>3, <2>4, Zenon DEF GetOutputBack
<1>11. CASE GetWrite(r)
  BY <1>11, AnswerKeeps DEF GetWrite
<1>12. CASE GetDropLocal(r)
  BY <1>1, <1>12, AnswerKeeps, GotoKeeps DEF GetDropLocal
<1>13. CASE GetDeleteAsk(r)
  BY <1>1, <1>13, AnswerKeeps, GotoKeeps DEF GetDeleteAsk, Ask
<1>14. CASE GetDeleteBack(r)
  BY <1>14, AnswerKeeps DEF GetDeleteBack
<1> QED
  BY <1>4, <1>5, <1>6, <1>7, <1>8, <1>9, <1>10, <1>11, <1>12, <1>13, <1>14 DEF Get

\* Every step of a put keeps them.
LEMMA PutKeeps ==
    ASSUME RequestsOK, NEW r \in Reqs, Put(r)
    PROVE  RequestsOK'
<1> USE DEF PCs, WithOutput
<1>1. ~At(r, "idle") /\ req[r].o \in Outputs
  BY Zenon DEF Put, PutWrite, PutRecord, PutReopen, PutSubmit, At, RequestsOK
<1>2. CASE PutWrite(r)
  BY <1>1, <1>2, AnswerKeeps, GotoKeeps, Zenon DEF PutWrite
<1>3. CASE PutRecord(r)
  BY <1>1, <1>3, AnswerKeeps, GotoKeeps DEF PutRecord
<1>4. CASE PutReopen(r)
  BY <1>1, <1>4, AnswerKeeps, GotoKeeps DEF PutReopen
<1>5. CASE PutSubmit(r)
  BY <1>5, AnswerKeeps DEF PutSubmit
<1> QED
  BY <1>2, <1>3, <1>4, <1>5 DEF Put

\* The requests of every reachable state.
LEMMA RequestsKept == ASSUME IInv, [Next]_vars PROVE RequestsOK'
<1>1. RequestsOK
  BY DEF IInv, TypeOK, CallsOK, Busy, RequestsOK
<1>2. ASSUME req' = req PROVE RequestsOK'
  BY <1>1, <1>2 DEF RequestsOK, OnlyDiskErrors, At
<1>3. ASSUME NEW w \in Workers, Upload(w) PROVE req' = req
  BY <1>3, Zenon DEF Upload, UpOutputAsk, UpOutputBack, UpRecordAsk, UpRecordBack
<1>4. ASSUME (\E o \in Outputs : Evict(o)) \/ Prune \/ ProtocolClose \/ Exits \/ BreakerTick
      PROVE  req' = req
  BY <1>4 DEF Evict, Prune, PruneRemove, PruneStat, Pruning, ProtocolClose, Exits,
     ProtocolDrained, DrainUploads, ServeReturns, Close, BreakerTick
<1> QED
  BY <1>1, <1>2, <1>3, <1>4, BeginKeeps, GetKeeps, PutKeeps DEF Next, New, Working, vars

-----------------------------------------------------------------------------
(* Uploads, and the tiers.                                                 *)

\* What the invariant says of the uploads.
UploadsOK ==
    /\ up \in [Workers -> [pc : {"idle", "askOutput", "inOutput", "askRecord", "inRecord"},
                           a : Actions \cup {None}, o : Outputs \cup {None}]]
    /\ \A w \in Workers : up[w].pc # "idle" => up[w].a \in Actions /\ up[w].o \in Outputs

\* Steps that are no part of an upload leave the uploads alone.
LEMMA UploadsMove ==
    ASSUME [Next]_vars
    PROVE  \/ up' = up
           \/ \E r \in Reqs : PutSubmit(r)
           \/ \E w \in Workers : Upload(w)
<1>1. ASSUME NEW r \in Reqs, Get(r) PROVE up' = up
  BY <1>1, Zenon DEF Get, GetLocal, GetActionAsk, GetActionBack, GetForward, GetNeed,
     GetOutputAsk, GetOutputBack, GetWrite, GetDropLocal, GetDeleteAsk, GetDeleteBack
<1>2. ASSUME NEW r \in Reqs, Begin(r) \/ Put(r) PROVE up' = up \/ PutSubmit(r)
  BY <1>2, Zenon DEF Begin, GetBegin, PutBegin, Put, PutWrite, PutRecord, PutReopen
<1>3. ASSUME (\E o \in Outputs : Evict(o)) \/ Prune \/ ProtocolClose \/ Exits \/ BreakerTick
      PROVE  up' = up
  BY <1>3 DEF Evict, Prune, PruneRemove, PruneStat, Pruning, ProtocolClose, Exits,
     ProtocolDrained, DrainUploads, ServeReturns, Close, BreakerTick
<1> QED
  BY <1>1, <1>2, <1>3 DEF Next, New, Working, vars

\* The uploads of every reachable state.
LEMMA UploadsKept == ASSUME IInv, [Next]_vars PROVE UploadsOK'
<1>1. UploadsOK
  BY DEF IInv, TypeOK, CallsOK, Busy, UploadsOK
<1>2. ASSUME NEW r \in Reqs, PutSubmit(r) PROVE UploadsOK'
  <2>1. req[r].a \in Actions /\ req[r].o \in Outputs
    BY <1>2 DEF PutSubmit, At, IInv, Busy
  <2> QED
    BY <1>1, <1>2, <2>1 DEF PutSubmit, UploadsOK
<1>3. ASSUME NEW w \in Workers, Upload(w) PROVE UploadsOK'
  <2>1. up[w].pc # "idle"
    BY <1>3, Zenon DEF Upload, UpOutputAsk, UpOutputBack, UpRecordAsk, UpRecordBack
  <2>2. \/ \E pc \in {"inOutput", "askRecord", "inRecord"} : UpGoto(w, pc)
        \/ UpEnds(w)
    BY <1>3, Zenon DEF Upload, UpOutputAsk, UpOutputBack, UpRecordAsk, UpRecordBack
  <2> QED
    BY <1>1, <2>1, <2>2 DEF UpGoto, UpEnds, NoUpload, UploadsOK
<1> QED
  BY <1>1, <1>2, <1>3, UploadsMove DEF UploadsOK

\* The tiers, and what the breaker kept from the one behind.
LEMMA StoresTyped == ASSUME IInv, [Next]_vars PROVE StoresOK'
<1>1. StoresOK
  BY DEF IInv, TypeOK
<1>2. ASSUME NEW r \in Reqs, Get(r) PROVE StoresOK'
  <2>1. req[r].o \in Records
    BY DEF IInv, TypeOK, CallsOK
  <2>2. /\ local' = local \/ \E x \in Records : local' = [local EXCEPT ![req[r].a] = x]
        /\ records' = records \/ records' = [records EXCEPT ![req[r].a] = None]
        /\ UNCHANGED <<outputs, dropped>>
    BY <1>2, <2>1, Zenon DEF Get, GetLocal, GetActionAsk, GetActionBack, GetForward, GetNeed,
       GetOutputAsk, GetOutputBack, GetWrite, GetDropLocal, GetDeleteAsk, GetDeleteBack,
       store, books, Records
  <2> QED
    BY <1>1, <2>2 DEF StoresOK, Records
<1>3. ASSUME NEW r \in Reqs, Begin(r) \/ Put(r) PROVE StoresOK'
  <2>1. req[r].o \in Records
    BY DEF IInv, TypeOK, CallsOK
  <2>2. /\ local' = local \/ local' = [local EXCEPT ![req[r].a] = req[r].o]
        /\ UNCHANGED <<records, outputs, dropped>>
    BY <1>3, Zenon DEF Begin, GetBegin, PutBegin, Put, PutWrite, PutRecord, PutReopen, PutSubmit,
       store, books
  <2> QED
    BY <1>1, <2>1, <2>2 DEF StoresOK
<1>4. ASSUME NEW w \in Workers, Upload(w) PROVE StoresOK'
  <2>1. up[w].o \in Outputs
    BY <1>4, Zenon DEF Upload, UpOutputAsk, UpOutputBack, UpRecordAsk, UpRecordBack, IInv, Busy
  <2>2. /\ local' = local
        /\ records' = records \/ records' = [records EXCEPT ![up[w].a] = up[w].o]
        /\ outputs' = outputs \/ outputs' = outputs \cup {up[w].o}
        /\ dropped' = dropped \/ dropped' = dropped \cup {up[w].o}
    BY <1>4, Zenon DEF Upload, UpOutputAsk, UpOutputBack, UpRecordAsk, UpRecordBack, store, books
  <2> QED
    BY <1>1, <2>1, <2>2 DEF StoresOK, Records
<1>5. ASSUME (\E o \in Outputs : Evict(o)) \/ Prune \/ ProtocolClose \/ Exits \/ BreakerTick
      PROVE  UNCHANGED <<local, records, dropped>> /\ outputs' \subseteq outputs
  BY <1>5 DEF Evict, Prune, PruneRemove, PruneStat, Pruning, ProtocolClose, Exits,
     ProtocolDrained, DrainUploads, ServeReturns, Close, BreakerTick, store, books
<1> QED
  BY <1>1, <1>2, <1>3, <1>4, <1>5 DEF Next, New, Working, vars, store, books, StoresOK

\* The output is stored, or kept back by the breaker, before its record.
LEMMA OrderKept == ASSUME IInv, [Next]_vars PROVE OutputFirst' /\ RecordsNameOutputs'
<1>1. cfg' = cfg
  BY DEF Next, New, Working, Alive, vars
<1> SUFFICES ASSUME ~cfg.evicts
             PROVE  /\ \A w \in Workers : up'[w].pc \in {"askRecord", "inRecord"} =>
                          up'[w].o \in outputs' \cup dropped'
                    /\ \A a \in Actions : records'[a] \in outputs' \cup dropped' \cup {None}
  BY <1>1 DEF OutputFirst, RecordsNameOutputs
<1>2. /\ \A w \in Workers : up[w].pc \in {"askRecord", "inRecord"} =>
            up[w].o \in outputs \cup dropped
      /\ \A a \in Actions : records[a] \in outputs \cup dropped \cup {None}
      /\ records \in [Actions -> Records]
  BY DEF IInv, OutputFirst, RecordsNameOutputs, TypeOK, StoresOK
<1>3. UploadsOK
  BY DEF IInv, TypeOK, CallsOK, Busy, UploadsOK
<1>4. ASSUME NEW r \in Reqs, Get(r)
      PROVE  /\ records' = records \/ records' = [records EXCEPT ![req[r].a] = None]
             /\ UNCHANGED <<outputs, dropped, up>>
  BY <1>4, Zenon DEF Get, GetLocal, GetActionAsk, GetActionBack, GetForward, GetNeed,
     GetOutputAsk, GetOutputBack, GetWrite, GetDropLocal, GetDeleteAsk, GetDeleteBack,
     store, books
<1>5. ASSUME NEW r \in Reqs, Begin(r) \/ Put(r)
      PROVE  /\ UNCHANGED <<records, outputs, dropped>>
             /\ \/ up' = up
                \/ \E w \in Workers : up' = [up EXCEPT ![w] =
                      [pc |-> "askOutput", a |-> req[r].a, o |-> req[r].o]]
  BY <1>5, Zenon DEF Begin, GetBegin, PutBegin, Put, PutWrite, PutRecord, PutReopen, PutSubmit,
     store, books
<1>6. ASSUME NEW w \in Workers, UpOutputAsk(w) \/ UpOutputBack(w)
      PROVE  /\ records' = records /\ outputs \subseteq outputs' /\ dropped \subseteq dropped'
             /\ \/ UpGoto(w, "inOutput")
                \/ UpGoto(w, "askRecord") /\ up[w].o \in outputs' \cup dropped'
  BY <1>6, Zenon DEF UpOutputAsk, UpOutputBack, store, books
<1>7. ASSUME NEW w \in Workers, UpRecordAsk(w) \/ UpRecordBack(w)
      PROVE  /\ UNCHANGED <<outputs, dropped>>
             /\ up[w].pc \in {"askRecord", "inRecord"}
             /\ UpGoto(w, "inRecord") \/ UpEnds(w)
             /\ records' = records \/ records' = [records EXCEPT ![up[w].a] = up[w].o]
  BY <1>7, Zenon DEF UpRecordAsk, UpRecordBack, store, books
<1>8. ASSUME (\E o \in Outputs : Evict(o)) \/ Prune \/ ProtocolClose \/ Exits \/ BreakerTick
      PROVE  UNCHANGED <<records, outputs, dropped, up>>
  BY <1>8 DEF Evict, Prune, PruneRemove, PruneStat, Pruning, ProtocolClose, Exits,
     ProtocolDrained, DrainUploads, ServeReturns, Close, BreakerTick, store, books
<1>9. CASE UNCHANGED <<records, outputs, dropped, up>>
  BY <1>2, <1>9
<1>10. CASE \E r \in Reqs : Begin(r) \/ Get(r) \/ Put(r)
  <2>1. PICK r \in Reqs : Begin(r) \/ Get(r) \/ Put(r)
    BY <1>10
  <2>2. CASE Get(r)
    BY <1>2, <1>4, <2>2
  <2>3. CASE Begin(r) \/ Put(r)
    BY <1>2, <1>3, <1>5, <2>3 DEF UploadsOK
  <2> QED
    BY <2>1, <2>2, <2>3
<1>11. CASE \E w \in Workers : Upload(w)
  <2>1. PICK w \in Workers : Upload(w)
    BY <1>11
  <2>2. CASE UpOutputAsk(w) \/ UpOutputBack(w)
    BY <1>2, <1>3, <1>6, <2>2 DEF UploadsOK, UpGoto
  <2>3. CASE UpRecordAsk(w) \/ UpRecordBack(w)
    BY <1>2, <1>3, <1>7, <2>3 DEF UploadsOK, UpGoto, UpEnds, NoUpload
  <2> QED
    BY <2>1, <2>2, <2>3 DEF Upload
<1> QED
  BY <1>8, <1>9, <1>10, <1>11 DEF Next, New, Working, vars, store, books

-----------------------------------------------------------------------------
(* Files.                                                                  *)

\* A file that was handed out young is not old, and only old ones go.
LEMMA FilesKept == ASSUME IInv, [Next]_vars PROVE FilesOK' /\ VictimsOld'
<1>1. FilesOK /\ VictimsOld
  BY DEF IInv, TypeOK
<1>0. CASE UNCHANGED files
  BY <1>1, <1>0 DEF files, FilesOK, VictimsOld
<1>2. ASSUME NEW r \in Reqs, GetNeed(r) PROVE FilesOK' /\ VictimsOld'
  <2>1. young' = young \/ (req[r].o \in objects /\ young' = young \cup ({req[r].o} \ old))
    BY <1>2 DEF GetNeed
  <2> QED
    BY <1>1, <1>2, <2>1 DEF GetNeed, FilesOK, VictimsOld
<1>3. ASSUME NEW o \in Outputs, prune' = prune, objects' = objects \cup {o},
             old' = old \/ (o \notin objects /\ old' = old \cup {o}),
             young' = young \cup ({o} \ old')
      PROVE  FilesOK' /\ VictimsOld'
  BY <1>1, <1>3 DEF FilesOK, VictimsOld
<1>4. ASSUME NEW r \in Reqs, GetWrite(r) \/ PutWrite(r) PROVE FilesOK' /\ VictimsOld'
  <2>1. req[r].o \in Outputs
    BY <1>4, Zenon DEF GetWrite, PutWrite, At, IInv, Busy
  <2> QED
    BY <1>3, <1>4, <1>0, <2>1 DEF GetWrite, PutWrite, Materialise, files
<1>5. ASSUME NEW r \in Reqs, Begin(r) \/ Get(r) \/ Put(r)
      PROVE  UNCHANGED files \/ GetNeed(r) \/ GetWrite(r) \/ PutWrite(r)
  BY <1>5, Zenon DEF Begin, GetBegin, PutBegin, Get, GetLocal, GetActionAsk, GetActionBack, GetForward,
     GetOutputAsk, GetOutputBack, GetDropLocal, GetDeleteAsk, GetDeleteBack,
     Put, PutRecord, PutReopen, PutSubmit
<1>6. ASSUME NEW w \in Workers, Upload(w) PROVE UNCHANGED files
  BY <1>6, Zenon DEF Upload, UpOutputAsk, UpOutputBack, UpRecordAsk, UpRecordBack
<1>7. ASSUME (\E o \in Outputs : Evict(o)) \/ ProtocolClose \/ Exits \/ BreakerTick
      PROVE  UNCHANGED files
  BY <1>7 DEF Evict, ProtocolClose, Exits, ProtocolDrained, DrainUploads, ServeReturns, Close,
     BreakerTick
<1>8. CASE PruneRemove
  BY <1>1, <1>8 DEF PruneRemove, FilesOK, VictimsOld
<1>9. ASSUME NEW o \in Outputs, PruneStat(o) PROVE FilesOK' /\ VictimsOld'
  BY <1>1, <1>9 DEF PruneStat, Pruning, FilesOK, VictimsOld
<1> QED
  BY <1>2, <1>4, <1>5, <1>6, <1>7, <1>8, <1>9, <1>0 DEF Next, New, Working, Prune, vars

-----------------------------------------------------------------------------
(* Start-up, the circuit and the books.                                    *)

\* A probe's share of the budget fits into what is left of it.
LEMMA ProbeFits ==
    ASSUME NEW spent \in Nat, spent <= startBudget, NEW t \in 0 .. withBudget(spent)
    PROVE  spent + t <= startBudget
  BY DEF withBudget, startBudget, probeTimeout

\* Once it serves, the agent does not start again.
LEMMA LifeGoesOn == ASSUME Working PROVE life' # "starting"
<1>0. life # "starting"
  BY Zenon DEF Working, Alive
<1>1. ASSUME NEW r \in Reqs, Begin(r) \/ Get(r) \/ Put(r) PROVE life' = life
  BY <1>1, Zenon DEF Begin, GetBegin, PutBegin, Get, GetLocal, GetActionAsk, GetActionBack,
     GetForward, GetNeed, GetOutputAsk, GetOutputBack, GetWrite, GetDropLocal,
     GetDeleteAsk, GetDeleteBack, Put, PutWrite, PutRecord, PutReopen, PutSubmit
<1>2. ASSUME NEW w \in Workers, Upload(w) PROVE life' = life
  BY <1>2, Zenon DEF Upload, UpOutputAsk, UpOutputBack, UpRecordAsk, UpRecordBack
<1>3. ASSUME (\E o \in Outputs : Evict(o)) \/ Prune \/ BreakerTick PROVE life' = life
  BY <1>3, Zenon DEF Evict, Prune, PruneRemove, PruneStat, Pruning, BreakerTick
<1>4. ASSUME ProtocolClose \/ Exits PROVE life' # "starting"
  BY <1>4 DEF ProtocolClose, Exits, ProtocolDrained, DrainUploads, ServeReturns, Close
<1> QED
  BY <1>0, <1>1, <1>2, <1>3, <1>4, Zenon DEF Working

\* Start-up stays within its budget, and says so when it leaves a tier out.
LEMMA StartKept == ASSUME IInv, [Next]_vars PROVE Starting'
<1>1. Starting /\ boot \in [spent : Nat, tried : SUBSET BackEnds,
                            joined : SUBSET BackEnds, degraded : BOOLEAN]
  BY DEF IInv, TypeOK, LifeOK
<1>2. cfg' = cfg
  BY DEF Next, New, Working, Alive, vars
<1>3. CASE New
  <2>1. life = "starting" /\ UNCHANGED <<up, consecutive, tripped>>
    BY <1>3 DEF New, breakerVars
  <2>2. ASSUME NEW b \in cfg.asked \ boot.tried, NEW t \in 0 .. withBudget(boot.spent),
               Tried(b, t), life' = life
        PROVE  Starting'
    <3>1. boot.spent + t <= startBudget
      BY <1>1, ProbeFits DEF Starting
    <3>2. CASE boot' = [boot EXCEPT !.spent = @ + t, !.tried = @ \cup {b},
                                    !.joined = @ \cup {b}]
      <4>1. /\ boot'.spent = boot.spent + t /\ boot'.tried = boot.tried \cup {b}
            /\ boot'.joined = boot.joined \cup {b} /\ boot'.degraded = boot.degraded
        BY <1>1, <3>2
      <4>2. boot'.joined # boot'.tried <=> boot.joined # boot.tried
        BY <1>1, <2>2, <4>1, Zenon DEF Starting
      <4> QED
        BY <1>1, <1>2, <2>1, <2>2, <3>1, <4>1, <4>2 DEF Starting
    <3>3. CASE boot' = [boot EXCEPT !.spent = @ + t, !.tried = @ \cup {b},
                                    !.degraded = TRUE]
      <4>1. /\ boot'.spent = boot.spent + t /\ boot'.tried = boot.tried \cup {b}
            /\ boot'.joined = boot.joined /\ boot'.degraded = TRUE
        BY <1>1, <3>3
      <4>2. boot'.joined # boot'.tried
        BY <1>1, <2>2, <4>1 DEF Starting
      <4> QED
        BY <1>1, <1>2, <2>1, <2>2, <3>1, <4>1, <4>2 DEF Starting
    <3> QED
      BY <2>2, <3>2, <3>3 DEF Tried
  <2>3. CASE Serve
    <3>1. /\ boot'.spent = 0 /\ boot'.tried = boot.tried
          /\ boot'.joined = boot.joined /\ boot'.degraded = boot.degraded
      BY <1>1, <2>3 DEF Serve
    <3> QED
      BY <1>1, <1>2, <2>1, <2>3, <3>1 DEF Serve, Starting, startBudget
  <2>4. CASE NoLocal
    BY <1>1, <1>2, <2>1, <2>4 DEF NoLocal, Starting
  <2> QED
    BY <1>3, <2>2, <2>3, <2>4 DEF New, dial, openBucket
<1>4. CASE Working
  <2>1. life \notin {"starting", "closed"} /\ boot' = boot
    BY <1>4 DEF Working, Alive
  <2>2. life' # "starting"
    BY <1>4, LifeGoesOn
  <2> QED
    BY <1>1, <1>2, <2>1, <2>2 DEF Starting
<1>5. CASE UNCHANGED vars
  BY <1>1, <1>5 DEF vars, breakerVars, Starting
<1> QED
  BY <1>3, <1>4, <1>5 DEF Next

\* Only a tier that fails, or a server that is asked to delete, makes the
\* breaker record a failure.
LEMMA CircuitKept == ASSUME IInv, [Next]_vars PROVE NoFailures'
<1>1. cfg' = cfg
  BY DEF Next, New, Working, Alive, vars
<1>2. CASE New
  BY <1>2 DEF New, breakerVars, NoFailures, IInv, Starting
<1>3. CASE Working
  <2>1. behind' = behind
    BY <1>3 DEF Working, Alive, behind
  <2>2. SUFFICES ASSUME behind = "bucket", ~cfg.fails
                 PROVE  ~tripped' /\ consecutive' = 0
    BY <1>1, <2>1 DEF NoFailures
  <2>3. ~tripped /\ consecutive = 0
    BY <2>2 DEF IInv, NoFailures
  <2>4. ASSUME NEW r \in Reqs, Get(r)
        PROVE  UNCHANGED breakerVars \/ allow \/ bypass \/ record(TRUE)
    BY <2>2, <2>4, Zenon DEF Get, GetLocal, GetActionAsk, GetActionBack, GetForward, GetNeed,
       GetOutputAsk, GetOutputBack, GetWrite, GetDropLocal, GetDeleteAsk, GetDeleteBack, Ask
  <2>5. ASSUME NEW w \in Workers, Upload(w)
        PROVE  allow \/ bypass \/ record(TRUE)
    BY <2>2, <2>5, Zenon DEF Upload, UpOutputAsk, UpOutputBack, UpRecordAsk, UpRecordBack
  <2>6. ASSUME NEW r \in Reqs, Begin(r) \/ Put(r)
        PROVE  UNCHANGED breakerVars
    BY <2>6, Zenon DEF Begin, GetBegin, PutBegin, Put, PutWrite, PutRecord, PutReopen, PutSubmit
  <2>7. ASSUME (\E o \in Outputs : Evict(o)) \/ Prune \/ ProtocolClose \/ Exits
        PROVE  UNCHANGED breakerVars
    BY <2>7 DEF Evict, Prune, PruneRemove, PruneStat, Pruning, ProtocolClose, Exits,
       ProtocolDrained, DrainUploads, ServeReturns, Close
  <2>8. UNCHANGED breakerVars \/ allow \/ bypass \/ record(TRUE) \/ Tick
    BY <1>3, <2>4, <2>5, <2>6, <2>7, Zenon DEF Working, BreakerTick
  <2>9. consecutive' = 0
    BY <2>3, <2>8 DEF breakerVars, allow, bypass, record, Tick
  <2>10. ~tripped'
    BY <2>3, <2>8, Zenon DEF breakerVars, allow, bypass, record, Tick, Open
  <2> QED
    BY <2>9, <2>10
<1>4. CASE UNCHANGED vars
  BY <1>4 DEF vars, breakerVars, NoFailures, behind, IInv
<1> QED
  BY <1>2, <1>3, <1>4 DEF Next

\* What is still running when the process ends has been counted.
LEMMA BooksKept == ASSUME IInv, [Next]_vars PROVE KilledUploadsCounted'
<1>1. Cardinality(Running) \in Nat /\ lostRecords \in Nat
  BY WorkersAssumption, FS_Subset, FS_CardinalityType DEF Running, IInv, TypeOK, LifeOK
<1>2. CASE New
  <2>1. up' = up /\ lostRecords' = lostRecords /\ life = "starting"
    BY <1>2 DEF New, books
  <2>2. Running = {}
    BY <2>1 DEF Running, IInv, Starting
  <2>3. Running' = {}
    BY <2>1, <2>2 DEF Running
  <2> QED
    BY <1>1, <2>1, <2>3, FS_EmptySet DEF KilledUploadsCounted
<1>3. CASE Working
  <2>1. life # "closed"
    BY <1>3 DEF Working, Alive
  <2>2. CASE Close
    <3>1. up' = up /\ lostRecords' = lostRecords + Cardinality(Running)
      BY <2>2 DEF Close, DrainUploads
    <3>2. Running' = Running
      BY <3>1 DEF Running
    <3> QED
      BY <1>1, <3>1, <3>2 DEF KilledUploadsCounted
  <2>3. ASSUME NEW r \in Reqs, Begin(r) \/ Get(r) \/ Put(r) PROVE life' = life
    BY <2>3, Zenon DEF Begin, GetBegin, PutBegin, Get, GetLocal, GetActionAsk, GetActionBack,
       GetForward, GetNeed, GetOutputAsk, GetOutputBack, GetWrite, GetDropLocal,
       GetDeleteAsk, GetDeleteBack, Put, PutWrite, PutRecord, PutReopen, PutSubmit
  <2>4. ASSUME NEW w \in Workers, Upload(w) PROVE life' = life
    BY <2>4, Zenon DEF Upload, UpOutputAsk, UpOutputBack, UpRecordAsk, UpRecordBack
  <2>5. ASSUME (\E o \in Outputs : Evict(o)) \/ Prune \/ BreakerTick PROVE life' = life
    BY <2>5 DEF Evict, Prune, PruneRemove, PruneStat, Pruning, BreakerTick
  <2>6. ASSUME ProtocolClose \/ ProtocolDrained \/ ServeReturns PROVE life' # "closed"
    BY <2>6 DEF ProtocolClose, ProtocolDrained, DrainUploads, ServeReturns
  <2> QED
    BY <1>3, <2>1, <2>2, <2>3, <2>4, <2>5, <2>6 DEF Working, Exits, KilledUploadsCounted
<1>4. CASE UNCHANGED vars
  BY <1>4 DEF vars, books, KilledUploadsCounted, Running, IInv
<1> QED
  BY <1>2, <1>3, <1>4 DEF Next

-----------------------------------------------------------------------------
(* The theorems.                                                           *)

\* The invariant holds at the start.
LEMMA InitInv == ASSUME Init PROVE IInv
<1>1. LifeOK
  <2>1. BreakerTypeOK
    <3>1. tripped \in BOOLEAN
      BY Zenon DEF Init, BreakerInit
    <3> QED
      BY <3>1, BreakerAssumption DEF Init, BreakerInit, BreakerTypeOK
  <2>2. boot \in [spent : Nat, tried : SUBSET BackEnds,
                 joined : SUBSET BackEnds, degraded : BOOLEAN]
    BY DEF Init
  <2>3. cfg.puts \in Nat
    BY ConfigsAssumption DEF Init
  <2> QED
    BY <2>1, <2>2, <2>3 DEF Init, LifeOK
<1>2. StoresOK
  BY DEF Init, StoresOK, Records
<1>3. FilesOK
  BY DEF Init, FilesOK
<1>4. CallsOK
  BY Zenon DEF Init, CallsOK, Free, Request, NoUpload, PCs, Records
<1>5. Busy /\ OutputFirst /\ OnlyDiskErrors
  BY Zenon DEF Init, Busy, OutputFirst, OnlyDiskErrors, At, Free, Request, NoUpload
<1>6. VictimsOld
  BY DEF Init, VictimsOld
<1>7. Starting
  <2>1. boot.spent <= startBudget
    BY DEF Init, startBudget
  <2> QED
    BY <2>1, Zenon DEF Init, Starting, BreakerInit, NoUpload
<1>8. NoFailures /\ KilledUploadsCounted
  BY DEF Init, NoFailures, BreakerInit, KilledUploadsCounted
<1>9. RecordsNameOutputs
  BY DEF Init, RecordsNameOutputs
<1> QED
  BY <1>1, <1>2, <1>3, <1>4, <1>5, <1>6, <1>7, <1>8, <1>9 DEF IInv, TypeOK

\* Every step keeps it.
LEMMA NextInv == ASSUME IInv, [Next]_vars PROVE IInv'
<1>1. CallsOK' /\ Busy' /\ OnlyDiskErrors'
  BY RequestsKept, UploadsKept DEF RequestsOK, UploadsOK, CallsOK, Busy
<1> QED
  BY <1>1, LifeTyped, StoresTyped, FilesKept, OrderKept, StartKept, CircuitKept, BooksKept
     DEF IInv, TypeOK

\* The invariant holds in every reachable state.
LEMMA Invariant == Spec => []IInv
  BY InitInv, NextInv, PTL DEF Spec

\* Every reachable state of the agent is well-typed; the breaker's counter
\* never reaches its threshold (breaker.go record).
THEOREM TypeCorrect == Spec => []TypeOK
<1>1. IInv => TypeOK
  BY DEF IInv
<1> QED
  BY <1>1, Invariant, PTL

\* The toolchain is told of no error but that of a local write, whatever the
\* tier behind, the breaker and the uploads do (agent.go get, put).
THEOREM ErrorsAreDiskErrors == Spec => []OnlyDiskErrors
<1>1. IInv => OnlyDiskErrors
  BY DEF IInv
<1> QED
  BY <1>1, Invariant, PTL

\* A record behind has its output there, unless the breaker kept the output
\* back, at every moment at which the process may be killed (gobuild.go Put).
THEOREM OutputsPrecedeRecords == Spec => []RecordsNameOutputs
<1>1. IInv => RecordsNameOutputs
  BY DEF IInv
<1> QED
  BY <1>1, Invariant, PTL

\* The pruner removes no file whose path was handed out while it was young
\* (objects.go prune).
THEOREM YoungStay == Spec => []YoungFilesStay
<1>1. IInv => YoungFilesStay
  BY DEF IInv, VictimsOld, YoungFilesStay
<1> QED
  BY <1>1, Invariant, PTL

\* Start-up stays within its budget for any back-ends and any delays, and
\* the degraded flag tells the truth about the chain (agent.go New).
THEOREM StartsInTime == Spec => []StartBounded
<1>1. IInv => StartBounded
  BY DEF IInv, Starting, StartBounded
<1> QED
  BY <1>1, Invariant, PTL

\* Every upload the end of the process kills is in the count of lost records
\* (uploads.go drain, agent.go Close).
THEOREM LostAreCounted == Spec => []KilledUploadsCounted
<1>1. IInv => KilledUploadsCounted
  BY DEF IInv
<1> QED
  BY <1>1, Invariant, PTL

\* A bucket that answers never opens its circuit, however many misses and
\* deletes go through it (breaker.go healthy).
THEOREM MissesAreHealthy == Spec => []MissesKeepClosed
<1>1. IInv => MissesKeepClosed
  BY DEF IInv, NoFailures, MissesKeepClosed
<1> QED
  BY <1>1, Invariant, PTL

-----------------------------------------------------------------------------
(* Records that are readable stay.  On a fresh machine with a bucket that  *)
(* works every record in sight has its output at hand, so that no get ever *)
(* comes to drop one.                                                      *)

\* A get holds a record whose output is behind, or is a file here when it
\* has still to look; it is not dropping one.
Led(r) ==
    /\ req[r].pc \notin {"dropLocal", "askDelete", "inDelete"}
    /\ req[r].pc = "need" => req[r].o \in objects \cup outputs
    /\ req[r].pc \in {"forward", "askOutput", "inOutput", "write"} => req[r].o \in outputs

\* Nothing was kept from the bucket, what may be pruned is in it, and a local
\* record has its output here or there.
Stocked ==
    /\ dropped = {} /\ old \subseteq outputs
    /\ \A a \in Actions : local[a] \in objects \cup outputs \cup {None}

Fresh == ~cfg.warm /\ ~cfg.fails /\ ~cfg.evicts

Sound ==
    Fresh /\ (behind = "bucket" \/ life = "starting") => Stocked /\ \A r \in Reqs : Led(r)

\* No output in sight goes out of sight, and none leaves the bucket.
InSight == objects \cup outputs \subseteq (objects \cup outputs)' /\ outputs \subseteq outputs'

\* The other requests are led as before.
LEMMA OthersLed ==
    ASSUME NEW r \in Reqs, \A s \in Reqs : Led(s), InSight, Led(r)',
           \A s \in Reqs \ {r} : req'[s] = req[s]
    PROVE  \A s \in Reqs : Led(s)'
<1> SUFFICES ASSUME NEW s \in Reqs, s # r PROVE Led(s)'
  BY Zenon
<1>1. req'[s] = req[s] /\ Led(s)
  BY Zenon
<1> QED
  BY <1>1, Zenon DEF Led, InSight

\* When no request moves they all are.
LEMMA AllLed ==
    ASSUME \A s \in Reqs : Led(s), InSight, req' = req
    PROVE  \A s \in Reqs : Led(s)'
  BY Zenon DEF Led, InSight

\* What a move does to the requests.
LEMMA MoveIs ==
    ASSUME RequestsOK, NEW r \in Reqs
    PROVE  /\ \A pc : Goto(r, pc) =>
                 /\ req'[r].pc = pc /\ req'[r].o = req[r].o
                 /\ \A s \in Reqs \ {r} : req'[s] = req[s]
           /\ \A rec : Follow(r, rec) =>
                 /\ req'[r].pc = IF rec = Junk THEN "dropLocal" ELSE "need"
                 /\ req'[r].o = rec
                 /\ \A s \in Reqs \ {r} : req'[s] = req[s]
           /\ Answer(r) \/ DiskError(r) =>
                 /\ req'[r].pc = "idle"
                 /\ \A s \in Reqs \ {r} : req'[s] = req[s]
<1>1. req \in [Reqs -> [pc : PCs, a : Actions \cup {None}, o : Records,
                        failed : BOOLEAN, broke : BOOLEAN]]
  BY Zenon DEF RequestsOK
<1>2. ASSUME NEW pc, Goto(r, pc)
      PROVE  /\ req'[r].pc = pc /\ req'[r].o = req[r].o
             /\ \A s \in Reqs \ {r} : req'[s] = req[s]
  BY <1>1, <1>2 DEF Goto
<1>3. ASSUME NEW rec, Follow(r, rec)
      PROVE  /\ req'[r].pc = IF rec = Junk THEN "dropLocal" ELSE "need"
             /\ req'[r].o = rec
             /\ \A s \in Reqs \ {r} : req'[s] = req[s]
  BY <1>1, <1>3 DEF Follow
<1>4. ASSUME Answer(r) \/ DiskError(r)
      PROVE  req'[r].pc = "idle" /\ \A s \in Reqs \ {r} : req'[s] = req[s]
  BY <1>1, <1>4 DEF Answer, DiskError, Free, Request
<1> QED
  BY <1>2, <1>3, <1>4, Zenon

\* A request that goes on, follows a record or ends is led, and so are the
\* others.
LEMMA RequestLed ==
    ASSUME RequestsOK, NEW r \in Reqs, \A s \in Reqs : Led(s), InSight,
           \/ Answer(r) \/ DiskError(r)
           \/ \E pc \in {"action", "askAction", "inAction", "putRecord", "reopen", "submit"} :
                 Goto(r, pc)
           \/ \E pc \in {"askOutput", "inOutput", "write"} : Goto(r, pc) /\ req[r].o \in outputs
           \/ \E rec \in objects \cup outputs : rec # Junk /\ Follow(r, rec)
    PROVE  \A s \in Reqs : Led(s)'
<1>1. CASE Answer(r) \/ DiskError(r)
  <2>1. Led(r)'
    BY <1>1, MoveIs, Zenon DEF Led
  <2> QED
    BY <1>1, <2>1, MoveIs, OthersLed, Zenon
<1>2. ASSUME NEW pc \in {"action", "askAction", "inAction", "putRecord", "reopen", "submit"},
             Goto(r, pc)
      PROVE  \A s \in Reqs : Led(s)'
  <2>1. req'[r].pc = pc /\ \A s \in Reqs \ {r} : req'[s] = req[s]
    BY <1>2, MoveIs, Zenon
  <2>2. Led(r)'
    BY <2>1, Zenon DEF Led
  <2> QED
    BY <2>1, <2>2, OthersLed, Zenon
<1>3. ASSUME NEW pc \in {"askOutput", "inOutput", "write"}, Goto(r, pc), req[r].o \in outputs
      PROVE  \A s \in Reqs : Led(s)'
  <2>1. /\ req'[r].pc = pc /\ req'[r].o \in outputs'
        /\ \A s \in Reqs \ {r} : req'[s] = req[s]
    BY <1>3, MoveIs, Zenon DEF InSight
  <2>2. Led(r)'
    BY <2>1, Zenon DEF Led
  <2> QED
    BY <2>1, <2>2, OthersLed, Zenon
<1>4. ASSUME NEW rec \in objects \cup outputs, rec # Junk, Follow(r, rec)
      PROVE  \A s \in Reqs : Led(s)'
  <2>1. /\ req'[r].pc = "need" /\ req'[r].o \in (objects \cup outputs)'
        /\ \A s \in Reqs \ {r} : req'[s] = req[s]
    BY <1>4, MoveIs, Zenon DEF InSight
  <2>2. Led(r)'
    BY <2>1, Zenon DEF Led
  <2> QED
    BY <2>1, <2>2, OthersLed, Zenon
<1> QED
  BY <1>1, <1>2, <1>3, <1>4, Zenon

\* A step that leaves the stores and the files alone keeps them stocked.
LEMMA SameStock ==
    ASSUME Stocked, UNCHANGED <<local, outputs, objects, old, dropped>>
    PROVE  Stocked' /\ InSight
  BY Zenon DEF Stocked, InSight

\* A bucket that works is not bypassed.
LEMMA NotBypassed ==
    ASSUME IInv, Fresh, behind = "bucket"
    PROVE  ~bypass
  BY Zenon DEF IInv, NoFailures, Fresh, bypass, Open

\* A get finds the output of every record it reads.
LEMMA GetSound ==
    ASSUME IInv, Fresh, behind = "bucket", Stocked, \A s \in Reqs : Led(s),
           NEW r \in Reqs, Get(r)
    PROVE  Stocked' /\ (\A s \in Reqs : Led(s)') /\ records' = records
<1>1. /\ RequestsOK /\ ~cfg.fails /\ ~bypass /\ behind # "none" /\ Led(r)
      /\ objects \subseteq Outputs /\ outputs \subseteq Outputs /\ Junk \notin Outputs
      /\ \A a \in Actions : records[a] \in outputs \cup {None}
      /\ local \in [Actions -> Records]
  <2>1. RequestsOK /\ ~cfg.fails /\ ~bypass /\ Led(r)
    BY NotBypassed, Zenon DEF IInv, TypeOK, CallsOK, Busy, RequestsOK, Fresh
  <2>2. objects \subseteq Outputs /\ outputs \subseteq Outputs /\ local \in [Actions -> Records]
    BY Zenon DEF IInv, TypeOK, FilesOK, StoresOK
  <2>3. \A a \in Actions : records[a] \in outputs \cup dropped \cup {None}
    BY Zenon DEF IInv, RecordsNameOutputs, Fresh
  <2>4. \A a \in Actions : records[a] \in outputs \cup {None}
    BY <2>3, Zenon DEF Stocked
  <2> QED
    BY <2>1, <2>2, <2>4, OutputsAssumption, Zenon
<1>2. ~At(r, "idle") => req[r].a \in Actions
  BY <1>1, Zenon DEF RequestsOK
<1>3. CASE GetLocal(r)
  <2>1. Stocked' /\ InSight /\ records' = records
    BY <1>3, SameStock, Zenon DEF GetLocal, store, files, books
  <2>2. req[r].a \in Actions
    BY <1>2, <1>3, Zenon DEF GetLocal, At
  <2>3. local[req[r].a] # None => local[req[r].a] \in objects \cup outputs
    BY <2>2, Zenon DEF Stocked
  <2>4. \/ Answer(r) \/ Goto(r, "askAction")
        \/ \E rec \in objects \cup outputs : rec # Junk /\ Follow(r, rec)
    BY <1>1, <1>3, <2>3, Zenon DEF GetLocal
  <2> QED
    BY <1>1, <2>1, <2>4, RequestLed, Zenon
<1>4. CASE GetActionAsk(r)
  <2>1. Stocked' /\ InSight /\ records' = records
    BY <1>4, SameStock, Zenon DEF GetActionAsk, store, files, books
  <2>2. Answer(r) \/ Goto(r, "inAction")
    BY <1>4, Zenon DEF GetActionAsk, Ask
  <2> QED
    BY <1>1, <2>1, <2>2, RequestLed, Zenon
<1>5. CASE GetActionBack(r)
  <2>1. Stocked' /\ InSight /\ records' = records
    BY <1>5, SameStock, Zenon DEF GetActionBack, store, files, books
  <2>2. req[r].a \in Actions
    BY <1>2, <1>5, Zenon DEF GetActionBack, At
  <2>3. CASE Answer(r)
    BY <1>1, <2>1, <2>3, RequestLed, Zenon
  <2>4. ASSUME NEW rec, rec = records[req[r].a], rec # None,
               req' = [req EXCEPT ![r].o = rec, ![r].pc = "forward"]
        PROVE  \A s \in Reqs : Led(s)'
    <3>1. rec \in outputs'
      BY <1>1, <2>1, <2>2, <2>4, Zenon DEF InSight
    <3>2. req'[r].pc = "forward" /\ req'[r].o = rec /\ \A s \in Reqs \ {r} : req'[s] = req[s]
      BY <1>1, <2>4 DEF RequestsOK
    <3>3. Led(r)'
      BY <3>1, <3>2, Zenon DEF Led
    <3> QED
      BY <2>1, <3>2, <3>3, OthersLed, Zenon
  <2> QED
    BY <1>5, <2>1, <2>3, <2>4, Zenon DEF GetActionBack
<1>6. CASE GetForward(r)
  <2>1. req[r].a \in Actions /\ req[r].o \in outputs
    BY <1>1, <1>2, <1>6, Zenon DEF GetForward, At, Led
  <2>2. /\ UNCHANGED <<records, outputs, objects, old, dropped>>
        /\ local' = local \/ local' = [local EXCEPT ![req[r].a] = req[r].o]
    BY <1>6, Zenon DEF GetForward, files, books
  <2>3. \A a \in Actions : local'[a] \in objects \cup outputs \cup {None}
    BY <1>1, <2>1, <2>2, Zenon DEF Stocked
  <2>4. Stocked' /\ InSight
    BY <2>2, <2>3, Zenon DEF Stocked, InSight
  <2>5. \E rec \in objects \cup outputs : rec # Junk /\ Follow(r, rec)
    BY <1>1, <1>6, <2>1, Zenon DEF GetForward
  <2> QED
    BY <1>1, <2>2, <2>4, <2>5, RequestLed, Zenon
<1>7. CASE GetNeed(r)
  <2>1. Stocked' /\ InSight /\ records' = records
    BY <1>7, SameStock, Zenon DEF GetNeed, store, books
  <2>2. req[r].o \in objects \cup outputs
    BY <1>1, <1>7, Zenon DEF GetNeed, At, Led
  <2>3. Answer(r) \/ (Goto(r, "askOutput") /\ req[r].o \in outputs)
    BY <1>1, <1>7, <2>2, Zenon DEF GetNeed
  <2> QED
    BY <1>1, <2>1, <2>3, RequestLed, Zenon
<1>8. CASE GetOutputAsk(r) \/ GetOutputBack(r)
  <2>1. Stocked' /\ InSight /\ records' = records
    BY <1>8, SameStock, Zenon DEF GetOutputAsk, GetOutputBack, store, files, books
  <2>2. req[r].o \in outputs
    BY <1>1, <1>8, Zenon DEF GetOutputAsk, GetOutputBack, At, Led
  <2>3. Answer(r) \/ Goto(r, "inOutput") \/ Goto(r, "write")
    BY <1>1, <1>8, <2>2, Zenon DEF GetOutputAsk, GetOutputBack, Ask
  <2> QED
    BY <1>1, <2>1, <2>2, <2>3, RequestLed, Zenon
<1>9. CASE GetWrite(r)
  <2>1. req[r].o \in outputs
    BY <1>1, <1>9, Zenon DEF GetWrite, At, Led
  <2>2. /\ UNCHANGED <<local, records, outputs, dropped>>
        /\ objects' = objects \/ objects' = objects \cup {req[r].o}
        /\ old' = old \/ old' = old \cup {req[r].o}
        /\ Answer(r) \/ DiskError(r)
    BY <1>9, Zenon DEF GetWrite, Materialise, store, books
  <2>3. Stocked' /\ InSight
    BY <2>1, <2>2, Zenon DEF Stocked, InSight
  <2> QED
    BY <1>1, <2>2, <2>3, RequestLed, Zenon
<1>10. CASE GetDropLocal(r) \/ GetDeleteAsk(r) \/ GetDeleteBack(r)
  BY <1>1, <1>10, Zenon DEF GetDropLocal, GetDeleteAsk, GetDeleteBack, At, Led
<1> QED
  BY <1>3, <1>4, <1>5, <1>6, <1>7, <1>8, <1>9, <1>10, Zenon DEF Get

\* A put records an output that is a file here.
LEMMA PutSound ==
    ASSUME IInv, Fresh, behind = "bucket", Stocked, \A s \in Reqs : Led(s),
           NEW r \in Reqs, Begin(r) \/ Put(r)
    PROVE  Stocked' /\ (\A s \in Reqs : Led(s)') /\ records' = records
<1>1. RequestsOK /\ behind # "none" /\ local \in [Actions -> Records]
  BY Zenon DEF IInv, TypeOK, CallsOK, StoresOK, Busy, RequestsOK
<1>2. CASE Begin(r)
  <2>1. Stocked' /\ InSight /\ records' = records
    BY <1>2, SameStock, Zenon DEF Begin, GetBegin, PutBegin, store, files, books
  <2>2. ASSUME NEW pc \in {"action", "putWrite"}, NEW a, NEW o,
               req' = [req EXCEPT ![r] = Request(pc, a, o)]
        PROVE  \A s \in Reqs : Led(s)'
    <3>1. Request(pc, a, o).pc = pc
      BY DEF Request
    <3>2. req'[r].pc = pc /\ \A s \in Reqs \ {r} : req'[s] = req[s]
      BY <1>1, <2>2, <3>1, Zenon DEF RequestsOK
    <3>3. Led(r)'
      BY <3>2, Zenon DEF Led
    <3> QED
      BY <2>1, <3>2, <3>3, OthersLed, Zenon
  <2>3. ASSUME NEW a \in Actions, GetBegin(r, a) PROVE \A s \in Reqs : Led(s)'
    BY <2>2, <2>3, Zenon DEF GetBegin
  <2>4. ASSUME NEW a \in Actions, NEW o \in Outputs, PutBegin(r, a, o)
        PROVE  \A s \in Reqs : Led(s)'
    BY <2>2, <2>4, Zenon DEF PutBegin
  <2> QED
    BY <1>2, <2>1, <2>3, <2>4, Zenon DEF Begin
<1>3. CASE PutWrite(r)
  <2>1. /\ UNCHANGED <<local, records, outputs, dropped, old>>
        /\ objects' = objects \/ objects' = objects \cup {req[r].o}
        /\ Goto(r, "putRecord") \/ DiskError(r)
    BY <1>3, Zenon DEF PutWrite, Materialise, store, books
  <2>2. Stocked' /\ InSight
    BY <2>1, Zenon DEF Stocked, InSight
  <2> QED
    BY <1>1, <2>1, <2>2, RequestLed, Zenon
<1>4. CASE PutRecord(r)
  <2>1. /\ UNCHANGED <<records, outputs, dropped, objects, old>>
        /\ \/ local' = local
           \/ req[r].o \in objects /\ local' = [local EXCEPT ![req[r].a] = req[r].o]
        /\ Goto(r, "reopen")
    BY <1>1, <1>4, Zenon DEF PutRecord, files
  <2>2. \A a \in Actions : local'[a] \in objects \cup outputs \cup {None}
    BY <1>1, <2>1, Zenon DEF Stocked
  <2>3. Stocked' /\ InSight
    BY <2>1, <2>2, Zenon DEF Stocked, InSight
  <2> QED
    BY <1>1, <2>1, <2>3, RequestLed, Zenon
<1>5. CASE PutReopen(r) \/ PutSubmit(r)
  <2>1. Stocked' /\ InSight /\ records' = records
    BY <1>5, SameStock, Zenon DEF PutReopen, PutSubmit, store, files, books
  <2>2. Goto(r, "submit") \/ Answer(r)
    BY <1>5, Zenon DEF PutReopen, PutSubmit
  <2> QED
    BY <1>1, <2>1, <2>2, RequestLed, Zenon
<1> QED
  BY <1>2, <1>3, <1>4, <1>5, Zenon DEF Put

\* An upload adds an output, or a record that names one.
LEMMA UploadSound ==
    ASSUME IInv, Fresh, behind = "bucket", Stocked, \A s \in Reqs : Led(s),
           NEW w \in Workers, Upload(w)
    PROVE  /\ Stocked' /\ \A s \in Reqs : Led(s)'
           /\ \A a \in Actions : records[a] \in Outputs => records'[a] \in Outputs
<1>1. ~bypass /\ ~cfg.fails /\ records \in [Actions -> Records]
  BY NotBypassed, Zenon DEF Fresh, IInv, TypeOK, StoresOK
<1>2. /\ UNCHANGED <<local, objects, old, dropped, req>>
      /\ outputs \subseteq outputs'
      /\ \/ records' = records
         \/ up[w].pc = "inRecord" /\ records' = [records EXCEPT ![up[w].a] = up[w].o]
  BY <1>1, Zenon DEF Upload, UpOutputAsk, UpOutputBack, UpRecordAsk, UpRecordBack,
     store, files, books
<1>3. Stocked' /\ InSight
  BY <1>2, Zenon DEF Stocked, InSight
<1>4. \A s \in Reqs : Led(s)'
  BY <1>2, <1>3, AllLed, Zenon
<1>5. up[w].pc = "inRecord" => up[w].o \in Outputs
  BY Zenon DEF IInv, Busy
<1>6. \A a \in Actions : records[a] \in Outputs => records'[a] \in Outputs
  BY <1>1, <1>2, <1>5, Zenon
<1> QED
  BY <1>3, <1>4, <1>6, Zenon

\* The pruner removes files whose outputs the bucket has; nothing else
\* touches them.
LEMMA RestSound ==
    ASSUME IInv, Fresh, Stocked, \A s \in Reqs : Led(s),
           (\E o \in Outputs : Evict(o)) \/ Prune \/ ProtocolClose \/ Exits \/ BreakerTick
    PROVE  Stocked' /\ (\A s \in Reqs : Led(s)') /\ records' = records
<1>1. /\ UNCHANGED <<local, records, outputs, dropped, req>>
      /\ \/ UNCHANGED <<objects, old>>
         \/ /\ prune.victim # None
            /\ objects' = objects \ {prune.victim} /\ old' = old \ {prune.victim}
  BY Zenon DEF Fresh, Evict, Prune, PruneRemove, PruneStat, Pruning, ProtocolClose, Exits,
     ProtocolDrained, DrainUploads, ServeReturns, Close, BreakerTick, store, files, books
<1>2. prune.victim # None => prune.victim \in outputs
  BY Zenon DEF IInv, VictimsOld, Stocked
<1>3. Stocked' /\ InSight
  BY <1>1, <1>2, Zenon DEF Stocked, InSight
<1> QED
  BY <1>1, <1>3, AllLed, Zenon

\* Every step of a fresh agent over a working bucket keeps readable records.
LEMMA WorkingSound ==
    ASSUME IInv, Working, Fresh, behind = "bucket", Stocked, \A s \in Reqs : Led(s)
    PROVE  /\ Stocked' /\ \A s \in Reqs : Led(s)'
           /\ \A a \in Actions : records[a] \in Outputs => records'[a] \in Outputs
<1>1. CASE \E r \in Reqs : Begin(r) \/ Get(r) \/ Put(r)
  BY <1>1, GetSound, PutSound, Zenon
<1>2. CASE \E w \in Workers : Upload(w)
  BY <1>2, UploadSound, Zenon
<1>3. CASE (\E o \in Outputs : Evict(o)) \/ Prune \/ ProtocolClose \/ Exits \/ BreakerTick
  BY <1>3, RestSound, Zenon
<1> QED
  BY <1>1, <1>2, <1>3, Zenon DEF Working

\* Start-up touches no store.
LEMMA SoundKept == ASSUME IInv, Sound, [Next]_vars PROVE Sound'
<1>1. CASE New
  <2>1. UNCHANGED <<cfg, local, outputs, objects, old, dropped, req>> /\ life = "starting"
    BY <1>1, Zenon DEF New, store, files, books
  <2>2. Fresh => Stocked /\ \A s \in Reqs : Led(s)
    BY <2>1, Zenon DEF Sound
  <2>3. Fresh' = Fresh
    BY <2>1, Zenon DEF Fresh
  <2> QED
    BY <2>1, <2>2, <2>3, SameStock, AllLed, Zenon DEF Sound
<1>2. CASE Working
  <2>1. UNCHANGED <<cfg, boot>> /\ life # "starting"
    BY <1>2, Zenon DEF Working, Alive
  <2>2. life' # "starting"
    BY <2>1, <1>2, LifeGoesOn
  <2>3. behind' = behind /\ Fresh' = Fresh
    BY <2>1, Zenon DEF behind, Fresh
  <2> QED
    BY <1>2, <2>1, <2>2, <2>3, WorkingSound, Zenon DEF Sound
<1>3. CASE UNCHANGED vars
  <2>1. UNCHANGED <<cfg, boot, life, local, outputs, objects, old, dropped, req>>
    BY <1>3, Zenon DEF vars, store, files, books
  <2>2. behind' = behind /\ Fresh' = Fresh
    BY <2>1, Zenon DEF behind, Fresh
  <2> QED
    BY <2>1, <2>2, SameStock, AllLed, Zenon DEF Sound
<1> QED
  BY <1>1, <1>2, <1>3, Zenon DEF Next

\* A fresh machine has no local record and no file.
LEMMA InitSound == ASSUME Init PROVE Sound
<1>1. Free.pc = "idle"
  BY DEF Free, Request
<1>2. \A r \in Reqs : req[r].pc = "idle"
  BY <1>1, Zenon DEF Init
<1>3. \A r \in Reqs : Led(r)
  BY <1>2, Zenon DEF Led
<1>4. Fresh => Stocked
  BY Zenon DEF Init, Fresh, Stocked
<1> QED
  BY <1>3, <1>4, Zenon DEF Sound

\* Only a get that drops a record takes one away, and only from a bucket.
LEMMA RecordsLeft ==
    ASSUME IInv, [Next]_vars, behind # "bucket", Fresh
    PROVE  \A a \in Actions : records[a] \in Outputs => records'[a] \in Outputs
<1>1. records \in [Actions -> Records]
  BY Zenon DEF IInv, TypeOK, StoresOK
<1>2. ASSUME NEW r \in Reqs, Begin(r) \/ Get(r) \/ Put(r)
      PROVE  records' = records
  BY <1>2, Zenon DEF Begin, GetBegin, PutBegin, Get, GetLocal, GetActionAsk, GetActionBack,
     GetForward, GetNeed, GetOutputAsk, GetOutputBack, GetWrite, GetDropLocal,
     GetDeleteAsk, GetDeleteBack, Put, PutWrite, PutRecord, PutReopen, PutSubmit, store
<1>3. ASSUME NEW w \in Workers, Upload(w)
      PROVE  \A a \in Actions : records[a] \in Outputs => records'[a] \in Outputs
  <2>1. \/ records' = records
        \/ up[w].pc = "inRecord" /\ records' = [records EXCEPT ![up[w].a] = up[w].o]
    BY <1>3, Zenon DEF Upload, UpOutputAsk, UpOutputBack, UpRecordAsk, UpRecordBack, store
  <2>2. up[w].pc = "inRecord" => up[w].o \in Outputs
    BY Zenon DEF IInv, Busy
  <2> QED
    BY <1>1, <2>1, <2>2, Zenon
<1>4. ASSUME \/ (\E o \in Outputs : Evict(o)) \/ Prune \/ ProtocolClose \/ Exits \/ BreakerTick
             \/ New \/ UNCHANGED vars
      PROVE  records' = records
  BY <1>4, Zenon DEF Evict, Prune, PruneRemove, PruneStat, Pruning, ProtocolClose, Exits,
     ProtocolDrained, DrainUploads, ServeReturns, Close, BreakerTick, New, store, vars
<1> QED
  BY <1>2, <1>3, <1>4, Zenon DEF Next, Working

\* On a machine without leftovers, with a tier that neither fails nor evicts,
\* no get takes a record for a dangling one, however it interleaves with the
\* uploads and the pruner: a readable record behind is only ever replaced
\* (gobuild.go Get, dropDangling).
THEOREM RecordsStay == Spec => GoodRecordsStay
<1> DEFINE A == ~cfg.warm /\ ~cfg.fails /\ ~cfg.evicts =>
                  \A a \in Actions : records[a] \in Outputs => records'[a] \in Outputs
<1>1. ASSUME IInv, Sound, [Next]_vars PROVE [A]_vars
  <2> SUFFICES ASSUME Fresh
               PROVE  \A a \in Actions : records[a] \in Outputs => records'[a] \in Outputs
    BY Zenon DEF Fresh
  <2>1. CASE behind # "bucket"
    BY <1>1, <2>1, RecordsLeft, Zenon
  <2>2. CASE behind = "bucket" /\ Working
    BY <1>1, <2>2, WorkingSound, Zenon DEF Sound
  <2>3. CASE New \/ UNCHANGED vars
    <3>1. records' = records
      BY <2>3, Zenon DEF New, vars, store
    <3> QED
      BY <3>1, Zenon
  <2> QED
    BY <1>1, <2>1, <2>2, <2>3, Zenon DEF Next
<1>2. Spec => []Sound
  BY InitSound, SoundKept, Invariant, PTL DEF Spec
<1>3. Spec => [][A]_vars
  BY <1>1, <1>2, Invariant, PTL DEF Spec
<1> QED
  BY <1>3 DEF GoodRecordsStay
=============================================================================
