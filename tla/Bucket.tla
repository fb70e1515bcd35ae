------------------------------- MODULE Bucket -------------------------------
(***************************************************************************)
(* One object in the bucket tier (engine/bucket/bucket.go), its copy on    *)
(* the volume in front of it and its metadata on the way through both, and *)
(* the counters that telemetry.WrapTier keeps of the calls                 *)
(* (telemetry/tier.go, telemetry/recorder.go).                             *)
(*                                                                         *)
(* Callers put, get, stat and delete the same key at the same time.  A     *)
(* call is the steps between which the others run: the staging of the      *)
(* body, each attempt of the SDK at the request, each section under the    *)
(* recorder's mutex, each read of a body.  The object store and the SDK    *)
(* are modelled by the answers the code tells apart.                       *)
(***************************************************************************)
EXTENDS Meta, FiniteSets

CONSTANTS
    Callers,
    Configs,         \* what each caller puts, and the setting (see Init)
    spillThreshold,  \* the length from which a body is staged in a file
    MaxAttempts,     \* how often the SDK sends one request
    MaxCalls         \* bound: calls per caller

ASSUME BucketAssumption ==
    /\ spillThreshold \in Nat \ {0}
    /\ MaxAttempts \in Nat \ {0}
    /\ MaxCalls \in Nat
    /\ "nobody" \notin Callers /\ "foreign" \notin Callers

\* At any moment finitely many requests are under way.
ASSUME CallersAssumption == IsFiniteSet(Callers)

VARIABLES
    cfg,     \* the setting: puts, start, spelling, front, faults
    store,   \* the object in the bucket
    disk,    \* the copy in the tier in front
    call,    \* the call each caller is in or has made last
    made,    \* the calls each caller has begun
    temps,   \* the callers whose staged file exists
    rec,     \* the Recorder's counters for this front-end and tier
    was,     \* history: whose object the store held during the call
    tally    \* history: what the tier answered and moved

vars == <<cfg, store, disk, call, made, temps, rec, was, tally>>

Ops == {"get", "put", "stat", "delete"}
Outcomes == {"hit", "miss", "error", "dropped"}
Results == {"nil", "notfound", "exists", "error"}

Absent == [by |-> "nobody"]

\* An object this tier did not write: no metadata, and no caller's bytes.
Foreign == [by |-> "foreign", len |-> 1, md |-> metadataFor([ModTime |-> 0,
                Immutable |-> FALSE]), type |-> StoreType]

\* puts: what each caller puts.  start: what the bucket holds at first.
\* spelling: how it sends back the names of metadata.  front: there is a disk
\* tier in front.  faults: the store may refuse or fail, and so may staging.
ASSUME BucketConfigs ==
    \A c \in Configs :
        /\ c.puts \in [Callers -> [meta : Meta, len : Nat, whole : BOOLEAN]]
        /\ c.start \in {Absent, Foreign} /\ c.spelling \in Spellings
        /\ c.front \in BOOLEAN /\ c.faults \in BOOLEAN

NoMeta == [Size |-> 0, ModTime |-> 0, ContentType |-> "", Immutable |-> FALSE]

\* A call: what it is and how it ended, whose object it was given, of which
\* length and with which metadata; the bytes moved, the attempts left.
Call(pc, op, left) ==
    [pc |-> pc, op |-> op, res |-> "error", by |-> "nobody", len |-> 0,
     meta |-> NoMeta, n |-> 0, left |-> left]

Init ==
    /\ cfg \in Configs
    /\ store = cfg.start
    /\ disk = Absent
    /\ call = [c \in Callers |-> Call("idle", "stat", 0)]
    /\ made = [c \in Callers |-> 0]
    /\ temps = {}
    /\ rec = [get |-> [o \in Outcomes |-> 0], put |-> [o \in Outcomes |-> 0],
              ops |-> [o \in Ops |-> 0], bytesRead |-> 0, bytesWritten |-> 0]
    /\ was = [c \in Callers |-> {}]
    /\ tally = [res |-> [o \in Ops |-> [r \in Results |-> 0]],
                read |-> 0, written |-> 0]

At(c, pc) == call[c].pc = pc
Goto(c, pc) == call' = [call EXCEPT ![c].pc = pc]

\* The object caller c puts, as the tiers get it: [meta, len, whole].
Source(c) == cfg.puts[c]

\* Seeded fault: If-None-Match is never sent.
ConditionalNever(c) == FALSE

\* An immutable object is put with If-None-Match.
Conditional(c) == Received(Source(c).meta).Immutable

\* The wrapped tier returns r to WrapTier, having consumed n bytes of a body.
Answer(c, r, n) ==
    /\ call' = [call EXCEPT ![c].pc = "observe", ![c].res = r, ![c].n = n,
                         ![c].left = 0]
    /\ tally' = [tally EXCEPT !.res[call[c].op][r] = @ + 1,
                              !.written = @ + n]

-----------------------------------------------------------------------------
(* The store and the SDK                                                   *)

Answers == {"ok", "404", "412", "409", "403", "503", "lost"}

\* The store's answers that the SDK tries again, and a request that was
\* carried out and whose answer never arrived.
Retried == {"503", "lost"}

Faults(carriedOut) ==
    IF cfg.faults
    THEN {[store |-> store, ans |-> a] : a \in {"403", "503"}}
           \cup {[store |-> carriedOut, ans |-> "lost"]}
    ELSE {}

\* A conditional request is refused when there is an object, and may be
\* refused as a conflict while another request for the key is under way.
PutObject(c, object) ==
    IF Conditional(c) /\ store # Absent
    THEN {[store |-> store, ans |-> "412"]} \cup Faults(store)
    ELSE {[store |-> object, ans |-> "ok"]} \cup Faults(object)
           \cup (IF cfg.faults /\ Conditional(c)
                 THEN {[store |-> store, ans |-> "409"]} ELSE {})

GetObject ==
    {[store |-> store, ans |-> IF store = Absent THEN "404" ELSE "ok"]}
        \cup Faults(store)

DeleteObject ==
    {[store |-> Absent, ans |-> "ok"]} \cup Faults(Absent)
        \cup (IF store = Absent THEN {[store |-> store, ans |-> "404"]}
              ELSE {})

isNotFound(ans) == ans = "404"

\* Seeded fault: a conflict is taken for an object that is there.
isPreconditionFailedAny(ans) == ans \in {"412", "409"}

isPreconditionFailed(ans) == ans = "412"

-----------------------------------------------------------------------------
(* Put                                                                     *)

\* Disk.Put of by's body of length n: an immutable object stays, and a
\* header that does not fit is an error.
DiskPut(by, m, n) ==
    IF ~fits(m) \/ (m.Immutable /\ disk # Absent) THEN disk
    ELSE [by |-> by, header |-> encodeHeader(m, n)]

Begin(c, op, pc) ==
    /\ At(c, "idle")
    /\ made[c] < MaxCalls
    /\ made' = [made EXCEPT ![c] = @ + 1]
    /\ call' = [call EXCEPT ![c] = Call(pc, op, MaxAttempts)]

\* Chain.Put drains the body, writes the tier in front, whose error is the
\* caller's, and then this one; without a chain this tier is called at once.
PutBegin(c) ==
    LET m == Received(Source(c).meta)
    IN  /\ Begin(c, "put", "stage")
        /\ cfg.front => Source(c).whole /\ fits(m)
        /\ disk' = IF cfg.front THEN DiskPut(c, m, Source(c).len) ELSE disk
        /\ UNCHANGED <<cfg, store, temps, rec, tally>>

\* stage, the part in memory: a short body is read whole, or fails; of a
\* long one the first spillThreshold bytes are read, and a file is created.
StageHead(c) ==
    LET s == Source(c)
    IN  /\ At(c, "stage")
        /\ \/ /\ s.len < spillThreshold /\ s.whole
              /\ Goto(c, "send")
              /\ UNCHANGED <<temps, tally>>
           \/ /\ s.len < spillThreshold /\ ~s.whole
              /\ Answer(c, "error", s.len)
              /\ UNCHANGED temps
           \/ /\ s.len >= spillThreshold
              /\ Goto(c, "copy")
              /\ temps' = temps \cup {c}
              /\ UNCHANGED tally
           \/ /\ s.len >= spillThreshold /\ cfg.faults
              /\ Answer(c, "error", spillThreshold)
              /\ UNCHANGED temps
        /\ UNCHANGED <<cfg, store, disk, made, rec>>

\* stage, the file: written, filled with the rest of the body and rewound.
\* Each failure releases it.
StageCopy(c) ==
    LET s == Source(c)
    IN  /\ At(c, "copy")
        /\ \/ s.whole /\ Goto(c, "send") /\ UNCHANGED <<temps, tally>>
           \/ /\ ~s.whole \/ cfg.faults
              /\ Answer(c, "error", s.len)
              /\ temps' = temps \ {c}
        /\ UNCHANGED <<cfg, store, disk, made, rec>>

\* The object as the store keeps it.
Sent(c) ==
    LET m == Received(Source(c).meta)
    IN  [by |-> c, len |-> Source(c).len,
         md |-> Spelled(metadataFor(m), cfg.spelling),
         type |-> IF m.ContentType # "" THEN m.ContentType ELSE StoreType]

\* The request is sent; when it has been answered for good the staged body
\* is released.  Answers the SDK retries are sent again while it may.
PutSend(c) ==
    /\ At(c, "send")
    /\ \E r \in PutObject(c, Sent(c)) :
        /\ store' = r.store
        /\ IF r.ans \in Retried /\ call[c].left > 1
           THEN /\ call' = [call EXCEPT ![c].left = @ - 1]
                /\ UNCHANGED <<temps, tally>>
           ELSE /\ Answer(c, IF r.ans = "ok" THEN "nil"
                             ELSE IF isPreconditionFailed(r.ans)
                                  THEN "exists" ELSE "error",
                          Source(c).len)
                /\ temps' = temps \ {c}
    /\ UNCHANGED <<cfg, disk, made, rec>>

-----------------------------------------------------------------------------
(* Get, Stat and Delete                                                    *)

\* A Get or Stat that the tier in front answers does not reach this one.
AskBegin(c, op) ==
    /\ op \in {"get", "stat"}
    /\ disk = Absent
    /\ Begin(c, op, "ask")
    /\ UNCHANGED <<cfg, store, disk, temps, rec, tally>>

\* Disk.Get and Disk.Stat, as the server answers its client.
FrontAnswers(c, op) ==
    /\ op \in {"get", "stat"}
    /\ disk # Absent
    /\ At(c, "idle")
    /\ made[c] < MaxCalls
    /\ made' = [made EXCEPT ![c] = @ + 1]
    /\ call' = [call EXCEPT ![c] =
                  [pc |-> "idle", op |-> op, res |-> "nil", by |-> disk.by,
                   len |-> disk.header.Size, meta |-> Served(metaOf(disk.header)),
                   n |-> 0, left |-> 0]]
    /\ UNCHANGED <<cfg, store, disk, temps, rec, tally>>

\* The wrapped tier's answer to a Get or Stat.
Found(c, res) ==
    IF res = "nil"
    THEN [pc |-> "observe", op |-> call[c].op, res |-> res, by |-> store.by,
          len |-> store.len, n |-> 0, left |-> 0,
          meta |-> metaFrom(store.md, store.type, store.len, StoreTime)]
    ELSE [Call("observe", call[c].op, 0) EXCEPT !.res = res]

Ask(c) ==
    /\ At(c, "ask")
    /\ \E r \in GetObject :
        IF r.ans \in Retried /\ call[c].left > 1
        THEN /\ call' = [call EXCEPT ![c].left = @ - 1]
             /\ UNCHANGED tally
        ELSE LET res == IF r.ans = "ok" THEN "nil"
                        ELSE IF isNotFound(r.ans) THEN "notfound" ELSE "error"
             IN  /\ call' = [call EXCEPT ![c] = Found(c, res)]
                 /\ tally' = [tally EXCEPT !.res[call[c].op][res] = @ + 1]
    /\ UNCHANGED <<cfg, store, disk, made, temps, rec>>

\* Chain.Delete: the tier in front first.
DeleteBegin(c) ==
    /\ Begin(c, "delete", "delete")
    /\ disk' = Absent
    /\ UNCHANGED <<cfg, store, temps, rec, tally>>

Delete(c) ==
    /\ At(c, "delete")
    /\ \E r \in DeleteObject :
        /\ store' = r.store
        /\ IF r.ans \in Retried /\ call[c].left > 1
           THEN /\ call' = [call EXCEPT ![c].left = @ - 1]
                /\ UNCHANGED tally
           ELSE Answer(c, IF r.ans = "ok" \/ isNotFound(r.ans) THEN "nil"
                          ELSE "error", 0)
    /\ UNCHANGED <<cfg, disk, made, temps, rec>>

-----------------------------------------------------------------------------
(* WrapTier and the Recorder: each step is one section under its mutex     *)

Observe(c) ==
    /\ At(c, "observe")
    /\ rec' = [rec EXCEPT !.ops[call[c].op] = @ + 1]
    /\ Goto(c, CASE call[c].op = "put" -> "bytes"
                 [] call[c].op = "get" -> "count"
                 [] OTHER -> "idle")
    /\ UNCHANGED <<cfg, store, disk, made, temps, tally>>

\* What the tier consumed of the body, whatever came of it.
CountWritten(c) ==
    /\ At(c, "bytes")
    /\ rec' = [rec EXCEPT !.bytesWritten = @ + call[c].n]
    /\ Goto(c, "count")
    /\ UNCHANGED <<cfg, store, disk, made, temps, tally>>

\* On a write, "miss" is the ordinary case and "hit" an object that was there.
outcome(op, res) ==
    CASE res = "nil" -> IF op = "get" THEN "hit" ELSE "miss"
      [] res = "notfound" /\ op = "get" -> "miss"
      [] res = "exists" /\ op = "put" -> "hit"
      [] OTHER -> "error"

Count(c) ==
    LET o == outcome(call[c].op, call[c].res)
    IN  /\ At(c, "count")
        /\ rec' = IF call[c].op = "get" THEN [rec EXCEPT !.get[o] = @ + 1]
                  ELSE [rec EXCEPT !.put[o] = @ + 1]
        /\ Goto(c, IF call[c].op = "get" /\ o = "hit" THEN "body" ELSE "idle")
        /\ UNCHANGED <<cfg, store, disk, made, temps, tally>>

\* countingReadCloser.Read of a part of the body.
BodyRead(c) ==
    /\ At(c, "body")
    /\ call[c].n < call[c].len
    /\ call' = [call EXCEPT ![c].n = @ + 1]
    /\ tally' = [tally EXCEPT !.read = @ + 1]
    /\ UNCHANGED <<cfg, store, disk, made, temps, rec>>

Whole(c) == call[c].n = call[c].len

\* Seeded fault: every Close reports the bytes.
BodyCloseEach(c) ==
    /\ call[c].pc \in {"body", "closed"}
    /\ rec' = [rec EXCEPT !.bytesRead = @ + call[c].n]
    /\ Goto(c, IF At(c, "body") THEN "closed" ELSE "idle")
    /\ UNCHANGED <<cfg, store, disk, made, temps, tally>>

\* countingReadCloser.Close, when the body has been read, has broken off or
\* is not wanted any more; callers that close again report nothing.
BodyClose(c) ==
    /\ call[c].pc \in {"body", "closed"}
    /\ rec' = IF At(c, "body") THEN [rec EXCEPT !.bytesRead = @ + call[c].n]
              ELSE rec
    /\ Goto(c, IF At(c, "body") THEN "closed" ELSE "idle")
    /\ UNCHANGED <<cfg, store, disk, made, temps, tally>>

\* Chain.Get has the whole body, writes it into the tier in front and hands
\* it to the client.
FaultForward(c) ==
    /\ At(c, "closed")
    /\ cfg.front /\ Whole(c)
    /\ disk' = DiskPut(call[c].by, call[c].meta, call[c].n)
    /\ call' = [call EXCEPT ![c].pc = "idle", ![c].meta = Served(@)]
    /\ UNCHANGED <<cfg, store, made, temps, rec, tally>>

-----------------------------------------------------------------------------

PutStep(c) == PutBegin(c) \/ StageHead(c) \/ StageCopy(c) \/ PutSend(c)
AskStep(c) == Ask(c) \/ \E op \in Ops : AskBegin(c, op) \/ FrontAnswers(c, op)
DeleteStep(c) == DeleteBegin(c) \/ Delete(c)
CountStep(c) == Observe(c) \/ CountWritten(c) \/ Count(c)
BodyStep(c) == BodyRead(c) \/ BodyClose(c) \/ FaultForward(c)

Step(c) ==
    PutStep(c) \/ AskStep(c) \/ DeleteStep(c) \/ CountStep(c) \/ BodyStep(c)

\* Whose objects the store has held since each call under way began.
Watch ==
    was' = [d \in Callers |->
              IF At(d, "idle")
              THEN IF made'[d] = made[d] THEN was[d] ELSE {store.by}
              ELSE was[d] \cup {store'.by}]

Next == (\E c \in Callers : Step(c)) /\ Watch

Spec == Init /\ [][Next]_vars

-----------------------------------------------------------------------------
(* Snapshot: what the admin API's Stats would report                       *)

sum(m) == m["hit"] + m["miss"] + m["error"] + m["dropped"]

Snapshot ==
    [Gets |-> sum(rec.get), Hits |-> rec.get["hit"],
     Misses |-> rec.get["miss"], Puts |-> sum(rec.put),
     Errors |-> rec.get["error"] + rec.put["error"],
     Dropped |-> rec.get["dropped"] + rec.put["dropped"],
     BytesRead |-> rec.bytesRead, BytesWritten |-> rec.bytesWritten,
     Ops |-> rec.ops]

-----------------------------------------------------------------------------
(* Properties                                                              *)

Pcs == {"idle", "stage", "copy", "send", "ask", "delete", "observe", "bytes",
        "count", "body", "closed"}

\* The type invariant; a body is never read past its end.
TypeOK ==
    /\ cfg \in Configs
    /\ call \in [Callers -> [pc : Pcs, op : Ops, res : Results,
                  by : Callers \cup {"nobody", "foreign"}, len : Nat,
                  meta : Meta, n : Nat, left : 0 .. MaxAttempts]]
    /\ store.by \in Callers \cup {"nobody", "foreign"}
    /\ disk.by \in Callers \cup {"nobody", "foreign"}
    /\ \A c \in Callers :
        At(c, "body") => call[c].n <= call[c].len
    /\ made \in [Callers -> 0 .. MaxCalls]
    /\ temps \subseteq Callers

Answered(c) == call[c].pc \notin {"stage", "copy", "send", "ask", "delete"}

\* m is what a reader may be told of the object that by has put.  A zero
\* time stays zero or becomes the store's, as does that of an object put by
\* something else.
Kept(by, m) ==
    IF by \in Callers
    THEN LET put == Source(by)
         IN  /\ m.Size = put.len /\ m.Immutable = put.meta.Immutable
             /\ IF put.meta.ModTime # 0 THEN m.ModTime = put.meta.ModTime
                ELSE m.ModTime \in {0, StoreTime}
             /\ put.meta.ContentType # "" =>
                    m.ContentType = put.meta.ContentType
    ELSE m.ModTime = StoreTime /\ ~m.Immutable

\* The metadata a Get or Stat returns are those of the Put whose bytes it
\* returns, from whichever tier, over the wire and back: the exact time, the
\* type, the immutability, and the length that was stored (bucket.go
\* metadataFor, metaFrom; tier.go Meta.ModTime).
MetaKept ==
    \A c \in Callers :
        call[c].op \in {"get", "stat"} /\ Answered(c) /\ call[c].res = "nil" =>
            Kept(call[c].by, call[c].meta)

\* No object in the bucket comes from a body whose reader failed, however far
\* the staging had got (bucket.go stage).
UploadsWhole == store.by \in Callers => Source(store.by).whole

\* A staged file is there exactly while a Put needs it: no way out of stage
\* or of Put leaves one behind (bucket.go stage's release).
StagedReleased ==
    \A c \in Callers :
        c \in temps <=>
            \/ At(c, "copy")
            \/ At(c, "send") /\ Source(c).len >= spillThreshold

\* While all callers put the key as immutable the bytes in the bucket are
\* never replaced, whatever the order of the requests and their retries: the
\* store decides the race (bucket.go Put, IfNoneMatch).
WrittenOnce ==
    [][(\A c \in Callers : Source(c).meta.Immutable) /\ store # Absent =>
        store' \in {store, Absent}]_vars

\* Every answer is true of the bucket at some moment of its call.  A Put that
\* returns nil had its object there, and one that returns ErrExists met an
\* object: an answer that never arrived or a conflict is neither.  A miss
\* means that the object was absent: a refusal or an outage is an error, which
\* no caller takes for "not cached" (bucket.go isPreconditionFailed,
\* isNotFound).
AnswersTrue ==
    \A c \in Callers :
        Answered(c) =>
            /\ call[c].op = "put" /\ call[c].res = "nil" => c \in was[c]
            /\ call[c].op = "put" /\ call[c].res = "exists" => was[c] \ {"nobody"} # {}
            /\ call[c].res = "notfound" => "nobody" \in was[c]

\* Between calls the snapshot says what the tier answered and moved: every
\* read and write under its outcome, bytes as they were read and once, Stats
\* and Deletes timed and not counted (telemetry tier.go, recorder.go).
CountersExact ==
    (\A c \in Callers :
        At(c, "idle") \/ ~Answered(c)) =>
        LET res == tally.res
            all(op) == res[op]["nil"] + res[op]["notfound"]
                         + res[op]["exists"] + res[op]["error"]
        IN  Snapshot =
              [Gets |-> all("get"), Hits |-> res["get"]["nil"],
               Misses |-> res["get"]["notfound"], Puts |-> all("put"),
               Errors |-> res["get"]["error"] + res["put"]["error"],
               Dropped |-> 0,
               BytesRead |-> tally.read, BytesWritten |-> tally.written,
               Ops |-> [op \in Ops |-> all(op)]]
=============================================================================
