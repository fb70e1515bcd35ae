-------------------------------- MODULE Admin --------------------------------
(***************************************************************************)
(* The administrative calls (admin/rpc.go) beside the traffic: wipes of a  *)
(* prefix from the bucket, in pages and batches (engine/bucket/bucket.go), *)
(* and from the disk tier, wipes of one key, and a listing that is read    *)
(* page by page (cmd/ci-cache/admin.go).  Around them Puts, fault-ins,     *)
(* uploads, evictions and the start-up walk change both tiers.             *)
(*                                                                         *)
(* A key is a number: keys are listed in the order of these numbers.  The  *)
(* disk tier's own steps are the subject of Disk; here a write and its     *)
(* entry are one step, an operator's removals as many as there.            *)
(***************************************************************************)
EXTENDS Naturals, FiniteSets, FiniteSetsExt

CONSTANTS
    Admins,      \* operators, each making one call
    Clients,     \* requests of builds
    Keys,        \* the keys of the cache
    Under,       \* those under the prefix that is wiped
    deleteBatch, \* keys in one request to delete
    PageSize,    \* entries on one page of a listing
    Configs      \* the settings a behaviour may run in

ASSUME KeysAssumption ==
    /\ Keys \subseteq Nat \ {0} /\ IsFiniteSet(Keys) /\ Under \subseteq Keys
    /\ deleteBatch \in Nat \ {0} /\ PageSize \in Nat \ {0}

\* ops: the operators' calls.  traffic: the clients'.  faults: "bucket" for a
\* store that fails requests, "refuse" for one that fails some keys of a
\* batch, "unlink" for files that cannot be removed.  cold: the process has
\* just started.  evicts: the collector is busy.  tiers: 1 without a bucket.
\* disk, bucket: what there is in the beginning.  admins: the operators who
\* call.  MaxCalls: a bound on the calls of clients.
ASSUME ConfigsAssumption ==
    \A c \in Configs :
        /\ c.ops \subseteq {"WipeBucket", "WipeDisk", "WipeKey", "List"}
        /\ c.traffic \subseteq {"put", "get"}
        /\ c.faults \subseteq {"bucket", "refuse", "unlink"}
        /\ c.cold \in BOOLEAN /\ c.evicts \in BOOLEAN /\ c.tiers \in {1, 2}
        /\ c.admins \subseteq Admins /\ c.MaxCalls \in Nat
        /\ c.disk \subseteq Keys /\ c.bucket \subseteq Keys

VARIABLES
    cfg,         \* the setting
    bucket,      \* objects in the bucket
    files,       \* objects on the volume
    index,       \* objects in the disk tier's index
    cold,        \* the start-up walk is running
    tombs,       \* keys removed meanwhile
    queue,       \* uploads waiting
    client,      \* what each client is doing
    calls,       \* calls of clients so far
    op,          \* what each operator's call is doing
    excused,     \* history: keys that a wipe's traffic may bring back
    balance      \* history: entries the index took, less those reported wiped

tiers == <<bucket, files, index, cold, tombs, queue>>
vars == <<cfg, tiers, client, calls, op, excused, balance>>

Fails(f) == f \in cfg.faults

\* token is the last key of the page before, page what is left of this one,
\* more whether the store has another; pending is the next batch.  todo is
\* the disk tier's snapshot, key the entry it has come to.  held is what was
\* in the index all along, seen what a listing has shown.
NewCall ==
    [pc |-> "idle", name |-> "none", key |-> 0, token |-> 0, page |-> {}, more |-> FALSE,
     pending |-> {}, entries |-> 0, todo |-> {}, failed |-> FALSE, res |-> "none",
     held |-> {}, seen |-> {}, twice |-> FALSE]

Quiet == [pc |-> "idle", key |-> 0]

At(a, pc) == op[a].pc = pc
Set(a, r) == op' = [op EXCEPT ![a] = r]
Ends(r, res) == [NewCall EXCEPT !.pc = "done", !.name = r.name, !.res = res, !.entries = r.entries,
                                !.held = r.held, !.seen = r.seen, !.twice = r.twice]
Wipes(a) == op[a].name = "WipeBucket"

\* The first n elements of a set of keys, in order.
First(S, n) == {k \in S : Cardinality({j \in S : j < k}) < n}

-----------------------------------------------------------------------------
(* The disk tier.                                                          *)

\* Listings under way no longer count on k.
Forget(k) == [a \in Admins |-> [op[a] EXCEPT !.held = @ \ {k}]]

Remember(k) == tombs' = IF cold THEN tombs \cup {k} ELSE tombs

\* observe, and the walk: the file is known from now on, unless it was
\* removed since the process started.
addIfAbsent(k) ==
    IF k \in index \cup tombs
    THEN UNCHANGED <<index, balance>>
    ELSE index' = index \cup {k} /\ balance' = balance + 1

set(k) ==
    /\ files' = files \cup {k} /\ index' = index \cup {k} /\ tombs' = tombs \ {k}
    /\ balance' = balance + (IF k \in index THEN 0 ELSE 1)

WalkAdd(k) ==
    /\ cold /\ k \in files
    /\ addIfAbsent(k)
    /\ UNCHANGED <<bucket, files, cold, tombs, queue, client, calls, op, excused>>

WalkFinish ==
    /\ cold /\ files \subseteq index \cup tombs
    /\ cold' = FALSE /\ tombs' = {}
    /\ UNCHANGED <<bucket, files, index, queue, client, calls, op, excused, balance>>

Evict(k) ==
    /\ cfg.evicts /\ k \in index
    /\ index' = index \ {k} /\ Remember(k)
    /\ files' = files \ {k} \/ (Fails("unlink") /\ UNCHANGED files)
    /\ op' = Forget(k)
    /\ UNCHANGED <<bucket, cold, queue, client, calls, excused, balance>>

-----------------------------------------------------------------------------
(* Clients.                                                                *)

Does(c, pc, k) == client' = [client EXCEPT ![c] = [pc |-> pc, key |-> k]]

Calls(c, name) ==
    /\ name \in cfg.traffic /\ client[c].pc = "idle" /\ calls < cfg.MaxCalls /\ calls' = calls + 1

\* A Put of k, which wipes under way do not answer for.
PutBegin(c, k) ==
    /\ Calls(c, "put") /\ Does(c, "put", k)
    /\ excused' = [a \in Admins |-> IF Wipes(a) THEN excused[a] \cup {k} ELSE excused[a]]
    /\ UNCHANGED <<tiers, op, balance>>

\* A Get that hits the disk, one that misses everywhere, and one that has
\* read the bucket and holds the object.
GetBegin(c, k) ==
    /\ Calls(c, "get")
    /\ IF k \in files
       THEN addIfAbsent(k) /\ UNCHANGED client
       ELSE /\ IF k \in bucket /\ cfg.tiers = 2 THEN Does(c, "fault", k) ELSE UNCHANGED client
            /\ UNCHANGED <<index, balance>>
    /\ UNCHANGED <<bucket, files, cold, tombs, queue, op, excused>>

\* The disk tier's Put, of a client or of a fault-in: it stores the object,
\* or finds that it is there.  A client's then goes on to the queue.
Commit(c) ==
    /\ client[c].pc \in {"put", "fault"}
    /\ IF client[c].key \in files THEN UNCHANGED <<files, index, tombs, balance>> ELSE set(client[c].key)
    /\ IF client[c].pc = "put" /\ cfg.tiers = 2
       THEN Does(c, "offer", client[c].key) ELSE client' = [client EXCEPT ![c] = Quiet]
    /\ UNCHANGED <<bucket, cold, queue, calls, op, excused>>

\* The queue takes the object, or is full.
Offer(c) ==
    /\ client[c].pc = "offer" /\ client' = [client EXCEPT ![c] = Quiet]
    /\ queue' = queue \cup {client[c].key} \/ UNCHANGED queue
    /\ UNCHANGED <<bucket, files, index, cold, tombs, calls, op, excused, balance>>

\* A worker of the queue puts the object, under the condition that there is
\* none: what the bucket has already stays.  A failed upload is dropped.
Upload(k) ==
    /\ k \in queue /\ queue' = queue \ {k}
    /\ bucket' = bucket \cup {k} \/ (Fails("bucket") /\ UNCHANGED bucket)
    /\ UNCHANGED <<files, index, cold, tombs, client, calls, op, excused, balance>>

-----------------------------------------------------------------------------
(* Bucket.DeletePrefix.                                                    *)

\* What a listing's page adds to the next batch.  A full batch is deleted at
\* once, one that is not when there are no more pages, and then it is the
\* disk's turn.
Fill(r) ==
    LET take == First(r.page, deleteBatch - Cardinality(r.pending))
        batch == r.pending \cup take
        rest == r.page \ take
    IN  [r EXCEPT !.pending = batch, !.page = rest,
            !.pc = IF Cardinality(batch) = deleteBatch \/ (~r.more /\ batch # {}) THEN "flush"
                   ELSE IF r.more THEN "list" ELSE "snapshot"]

\* What ListObjectsV2 may answer: at least one of the keys that are left and
\* at most a batch, from the first on.
Pages(S) == {First(S, n) : n \in 1 .. deleteBatch}

ListPage(a) ==
    /\ At(a, "list")
    /\ LET left == {k \in bucket \cap Under : k > op[a].token} IN
       \/ \E page \in Pages(left) :
             Set(a, Fill([op[a] EXCEPT !.page = page, !.more = (page # left),
                                       !.token = IF page = {} THEN @ ELSE Max(page)]))
       \/ Fails("bucket") /\ Set(a, Ends(op[a], "error"))
    /\ UNCHANGED <<tiers, client, calls, excused, balance>>

\* Seeded fault: the errors of single keys are not read.
FlushUnread(a) ==
    /\ At(a, "flush")
    /\ \E refused \in (IF Fails("refuse") THEN SUBSET op[a].pending ELSE {{}}) :
          bucket' = bucket \ (op[a].pending \ refused)
    /\ Set(a, Fill([op[a] EXCEPT !.pending = {}, !.entries = @ + Cardinality(op[a].pending)]))
    /\ UNCHANGED <<files, index, cold, tombs, queue, client, calls, excused, balance>>

\* DeleteObjects: the request fails, or the answer names keys that were
\* refused, or all of the batch is gone.
Flush(a) ==
    /\ At(a, "flush")
    /\ \/ Fails("bucket") /\ Set(a, Ends(op[a], "error")) /\ UNCHANGED bucket
       \/ \E refused \in (IF Fails("refuse") THEN SUBSET op[a].pending ELSE {{}}) :
             /\ bucket' = bucket \ (op[a].pending \ refused)
             /\ Set(a, IF refused # {} THEN Ends(op[a], "error")
                       ELSE Fill([op[a] EXCEPT !.pending = {},
                                               !.entries = @ + Cardinality(op[a].pending)]))
    /\ UNCHANGED <<files, index, cold, tombs, queue, client, calls, excused, balance>>

-----------------------------------------------------------------------------
(* Disk.DeletePrefix.                                                      *)

\* The index is read once.  Fault-ins that hold an object at this moment may
\* write it afterwards.
Snapshot(a) ==
    /\ At(a, "snapshot")
    /\ Set(a, [op[a] EXCEPT !.pc = "remove", !.todo = index \cap Under])
    /\ excused' = [excused EXCEPT ![a] = @ \cup {client[c].key : c \in {d \in Clients : client[d].pc = "fault"}}]
    /\ UNCHANGED <<tiers, client, calls, balance>>

\* Seeded fault: an entry that somebody else removed is counted too.
RemoveEntryBlind(a, k) ==
    /\ At(a, "remove") /\ k \in op[a].todo
    /\ index' = index \ {k} /\ Remember(k)
    /\ op' = [Forget(k) EXCEPT ![a] = [op[a] EXCEPT !.todo = @ \ {k}, !.pc = "unlink", !.key = k]]
    /\ UNCHANGED <<bucket, files, cold, queue, client, calls, excused, balance>>

\* The next entry leaves the index, unless somebody else got there first.
RemoveEntry(a, k) ==
    /\ At(a, "remove") /\ k \in op[a].todo
    /\ index' = index \ {k} /\ Remember(k)
    /\ LET r == [op[a] EXCEPT !.todo = @ \ {k}]
       IN  op' = [Forget(k) EXCEPT ![a] = IF k \in index THEN [r EXCEPT !.pc = "unlink", !.key = k] ELSE r]
    /\ UNCHANGED <<bucket, files, cold, queue, client, calls, excused, balance>>

\* Its file goes, and it is counted; or the file stays, and the wipe goes on
\* and answers with an error in the end.
UnlinkEntry(a) ==
    /\ At(a, "unlink")
    /\ LET r == [op[a] EXCEPT !.pc = "remove", !.key = 0]
       IN  \/ /\ files' = files \ {op[a].key} /\ Set(a, r)
              /\ balance' = balance - 1
           \/ /\ Fails("unlink") /\ Set(a, [r EXCEPT !.failed = TRUE])
              /\ UNCHANGED <<files, balance>>
    /\ UNCHANGED <<bucket, index, cold, tombs, queue, client, calls, excused>>

\* The end of the RPC.
WipeEnd(a) ==
    /\ At(a, "remove") /\ op[a].todo = {}
    /\ Set(a, Ends(op[a], IF op[a].failed THEN "error" ELSE "ok"))
    /\ UNCHANGED <<tiers, client, calls, excused, balance>>

-----------------------------------------------------------------------------
(* The RPCs.                                                               *)

Begins(a, name) == name \in cfg.ops /\ a \in cfg.admins /\ At(a, "idle")

\* An argument that is not a prefix of this cache's keys, and an installation
\* without a bucket, are refused.
WipeBucket(a) ==
    /\ Begins(a, "WipeBucket")
    /\ LET r == [NewCall EXCEPT !.name = "WipeBucket"] IN
       \/ Set(a, Ends(NewCall, "InvalidArgument"))
       \/ cfg.tiers = 1 /\ Set(a, Ends(r, "FailedPrecondition"))
       \/ cfg.tiers = 2 /\ Set(a, [r EXCEPT !.pc = "list"])
    /\ excused' = [excused EXCEPT ![a] =
                     queue \cup {client[c].key : c \in {d \in Clients : client[d].pc \in {"put", "offer"}}}]
    /\ UNCHANGED <<tiers, client, calls, balance>>

\* A prefix, or with k one exact key, or nothing, which is refused.
WipeDisk(a) ==
    /\ Begins(a, "WipeDisk")
    /\ \/ Set(a, [NewCall EXCEPT !.name = "WipeDisk", !.pc = "snapshot"])
       \/ Set(a, Ends(NewCall, "InvalidArgument"))
    /\ UNCHANGED <<tiers, client, calls, excused, balance>>

WipeKey(a, k) ==
    /\ Begins(a, "WipeKey")
    /\ Set(a, [NewCall EXCEPT !.name = "WipeKey", !.pc = "stat", !.key = k])
    /\ UNCHANGED <<tiers, client, calls, excused, balance>>

\* deleteOne looks for the object, whose size it reports, and an object that
\* is not there is no error.
deleteOne(a) ==
    /\ At(a, "stat")
    /\ IF op[a].key \in files
       THEN addIfAbsent(op[a].key) /\ Set(a, [op[a] EXCEPT !.pc = "delete"])
       ELSE Set(a, Ends(op[a], "ok")) /\ UNCHANGED <<index, balance>>
    /\ UNCHANGED <<bucket, files, cold, tombs, queue, client, calls, excused>>

\* Disk.Delete takes the entry and then the file.
DeleteEntry(a) ==
    /\ At(a, "delete")
    /\ index' = index \ {op[a].key} /\ Remember(op[a].key)
    /\ op' = [Forget(op[a].key) EXCEPT ![a] = [op[a] EXCEPT !.pc = "unlinkOne"]]
    /\ UNCHANGED <<bucket, files, cold, queue, client, calls, excused, balance>>

DeleteFile(a) ==
    /\ At(a, "unlinkOne")
    /\ \/ files' = files \ {op[a].key} /\ Set(a, Ends(op[a], "ok"))
       \/ Fails("unlink") /\ Set(a, Ends(op[a], "error")) /\ UNCHANGED files
    /\ UNCHANGED <<bucket, index, cold, tombs, queue, client, calls, excused, balance>>

-----------------------------------------------------------------------------
(* The listing.                                                            *)

\* ci-cache list asks for page after page.
ListBegin(a) ==
    /\ Begins(a, "List")
    /\ Set(a, [NewCall EXCEPT !.name = "List", !.pc = "page", !.held = index \cap Under])
    /\ UNCHANGED <<tiers, client, calls, excused, balance>>

\* Seeded fault: the last key of a page is on the next one too.
keptAgain(token) == {k \in index \cap Under : k >= token}

\* What the index holds beyond the token.
kept(token) == {k \in index \cap Under : k > token}

\* Disk.List: the first entries of the rest, and a token if there are more.
List(a) ==
    /\ At(a, "page")
    /\ LET rest == kept(op[a].token)
           page == First(rest, PageSize)
           r == [op[a] EXCEPT !.seen = @ \cup page, !.twice = @ \/ page \cap op[a].seen # {}]
       IN  Set(a, IF page = rest THEN Ends(r, "ok") ELSE [r EXCEPT !.token = Max(page)])
    /\ UNCHANGED <<tiers, client, calls, excused, balance>>

-----------------------------------------------------------------------------
(* The whole.                                                              *)

Wipe(a) ==
    \/ ListPage(a) \/ Flush(a) \/ Snapshot(a) \/ (\E k \in Keys : RemoveEntry(a, k))
    \/ UnlinkEntry(a) \/ WipeEnd(a) \/ deleteOne(a) \/ DeleteEntry(a) \/ DeleteFile(a)

RPC(a) == WipeBucket(a) \/ WipeDisk(a) \/ (\E k \in Keys : WipeKey(a, k)) \/ ListBegin(a)

Traffic ==
    \/ \E c \in Clients : (\E k \in Keys : PutBegin(c, k) \/ GetBegin(c, k)) \/ Commit(c) \/ Offer(c)
    \/ \E k \in Keys : Upload(k) \/ Evict(k) \/ WalkAdd(k)
    \/ WalkFinish

Serves(a) == (Wipe(a) \/ List(a)) /\ UNCHANGED cfg

Next ==
    \/ \E a \in Admins : Serves(a) \/ (RPC(a) /\ UNCHANGED cfg)
    \/ Traffic /\ UNCHANGED cfg

\* A volume whose index was loaded, or one whose walk is about to begin.
Init ==
    /\ cfg \in Configs
    /\ files = cfg.disk /\ bucket = cfg.bucket
    /\ cold = cfg.cold /\ index = (IF cold THEN {} ELSE files)
    /\ tombs = {} /\ queue = {}
    /\ client = [c \in Clients |-> Quiet] /\ calls = 0
    /\ op = [a \in Admins |-> NewCall]
    /\ excused = [a \in Admins |-> {}] /\ balance = Cardinality(index)

Spec == Init /\ [][Next]_vars

-----------------------------------------------------------------------------
(* Properties.                                                             *)

\* Files that another wipe has taken from the index and is about to remove.
Unlinking == {op[a].key : a \in {b \in Admins : op[b].pc \in {"unlink", "unlinkOne"}}}

\* After WipeBucket has succeeded nothing under the prefix is left in either
\* tier, but for what Puts, uploads and fault-ins that ran beside it brought.
WipedIsGone ==
    \A a \in Admins :
        Wipes(a) /\ op[a].res = "ok" => (bucket \cup (files \ Unlinking)) \cap Under \subseteq excused[a]

\* It is so when the index is complete: not during the start-up walk, and not
\* after files could not be unlinked (rpc.go WipeBucket; bucket.go
\* DeletePrefix; disk.go DeletePrefix).
WipeSticks == ~cfg.cold /\ ~Fails("unlink") => WipedIsGone

\* Wipes that run together, or beside evictions, do not get in each other's
\* way.  What they report as removed was there to be removed, once; none asks
\* the store for more keys than one request takes; and none fails because
\* another got there first (rpc.go WipeDisk, deleteOne; bucket.go
\* DeletePrefix).
WipesCompose ==
    /\ balance >= Cardinality(index)
    /\ \A a \in Admins :
          /\ op[a].entries <= Cardinality(Under)
          /\ Cardinality(op[a].pending) <= deleteBatch
          /\ cfg.faults = {} => op[a].res # "error"

\* A listing shows every object that was there all along, and none twice,
\* although each page is cut from the index as it is by then (rpc.go List).
ListComplete ==
    \A a \in Admins : op[a].name = "List" /\ op[a].res = "ok" => op[a].held \subseteq op[a].seen /\ ~op[a].twice
=============================================================================
