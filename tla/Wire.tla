-------------------------------- MODULE Wire ---------------------------------
(***************************************************************************)
(* The cache service on the wire: the remote tier of an agent              *)
(* (engine/remote/remote.go) on one end of a stream and the handlers of    *)
(* the server (server/cacheservice.go), behind its concurrency gate        *)
(* (server/server.go), on the other.  Server adds the life of the process. *)
(*                                                                         *)
(* Bodies are counted in chunks.  The connection holds a few chunks of a   *)
(* stream in each direction, which is HTTP/2's flow control; the stream's  *)
(* end, its trailer and its cancellation overtake nothing.  The chain      *)
(* behind the handlers is a disk tier in front of a bucket, which buffers  *)
(* a body and leaves the upload to the queue, or a disk tier alone.        *)
(***************************************************************************)
EXTENDS Naturals, FiniteSets

CONSTANTS
    Calls,       \* calls of clients, each made at most once
    Keys,
    Len,         \* chunks of a whole object
    Window,      \* chunks of one stream the connection holds
    QueueSize,   \* entries the write-behind queue holds
    None

VARIABLES
    cfg,         \* the setting, see Server
    call,        \* both ends of each call, and what is between them
    stored,      \* chunks of the object on the server's disk; None: no object
    queue,       \* objects waiting for the bucket
    closed,      \* the queue takes no more
    skipped      \* history: objects a full queue did not take

wireVars == <<call, stored, queue, closed, skipped>>

\* tiers: disk alone (1), or disk and bucket (2).  Immutable: as the Put says.
\* limit: the concurrency limit.
\* ops: what clients do.  sourceFails, tierFails, full: bodies that cannot be
\* read by the client, a disk that fails, a disk without room.
WireConfig(c) ==
    /\ c.tiers \in {1, 2} /\ c.limit \in Nat \ {0} /\ c.Immutable \in BOOLEAN /\ c.ops \subseteq {"get", "put", "stat"}
    /\ c.sourceFails \in BOOLEAN /\ c.tierFails \in BOOLEAN /\ c.full \in BOOLEAN

ASSUME SizesAssumption ==
    /\ Len \in Nat /\ Window \in Nat \ {0} /\ QueueSize \in Nat
    /\ None \notin Nat

\* A call.  Its client: cpc, chunks moved, and out, what the call returned.
\* Its handler: hpc, chunks moved, the length of the file it reads, and the
\* tier's error it met.  Between them: chunks under way, the half-close, the
\* code of the response, and whether the client has gone or was cut off.
NoCall == [op |-> "none", key |-> None, cpc |-> "idle", n |-> 0, out |-> "none",
           hpc |-> "idle", m |-> 0, size |-> 0, err |-> "none",
           wire |-> 0, fin |-> FALSE, resp |-> "none", gone |-> FALSE]

TierErrors == {"nil", "ErrNotFound", "ErrExists", "ErrNoSpace", "Canceled",
               "DeadlineExceeded", "other"}

Codes == {"none", "ok", "NotFound", "AlreadyExists", "ResourceExhausted",
          "Canceled", "DeadlineExceeded", "Internal", "Unavailable"}

Outs == TierErrors \cup {"none", "Unavailable", "body"}

\* Of a call both ends have done with, only the outcome matters.
Settled(s) ==
    IF s.cpc # "over" \/ s.hpc # "over" THEN s
    ELSE [NoCall EXCEPT !.op = s.op, !.key = s.key, !.cpc = "over", !.hpc = "over",
                        !.out = s.out, !.err = s.err, !.gone = s.gone,
                        !.n = IF s.op = "get" /\ s.out = "nil" THEN s.n ELSE 0,
                        !.size = IF s.op = "get" /\ s.out = "nil" THEN s.size ELSE 0]

Set(c, s) == call' = [call EXCEPT ![c] = Settled(s)]
Client(c, pc) == call[c].cpc = pc
Handler(c, pc) == call[c].hpc = pc

Handling == {c \in Calls : call[c].hpc \notin {"idle", "arrived", "over"}}

-----------------------------------------------------------------------------
(* Errors on the wire.                                                     *)

toConnectError(err) ==
    CASE err = "nil"         -> "ok"
      [] err = "ErrNotFound" -> "NotFound"
      [] err = "ErrExists"   -> "AlreadyExists"
      [] err = "ErrNoSpace"  -> "ResourceExhausted"
      [] err \in {"Canceled", "DeadlineExceeded"} -> err
      [] OTHER               -> "Internal"

fromConnectError(code) ==
    CASE code = "ok"                -> "nil"
      [] code = "NotFound"          -> "ErrNotFound"
      [] code = "AlreadyExists"     -> "ErrExists"
      [] code = "ResourceExhausted" -> "ErrNoSpace"
      [] code \in {"Canceled", "DeadlineExceeded", "Unavailable"} -> code
      [] OTHER                      -> "other"

\* The client's call returns.
Out(s, out) == [s EXCEPT !.cpc = "over", !.out = out]

\* The handler returns, with what it met in the tier.
Respond(s, err) == [s EXCEPT !.hpc = "over", !.err = err, !.resp = toConnectError(err)]

-----------------------------------------------------------------------------
(* Clients.                                                                *)

CallBegin(c, op, k) ==
    /\ Client(c, "idle") /\ op \in cfg.ops
    /\ Set(c, [NoCall EXCEPT !.op = op, !.key = k, !.hpc = "arrived",
                             !.cpc = CASE op = "put" -> "send" [] op = "get" -> "meta"
                                       [] op = "stat" -> "receive"])
    /\ UNCHANGED <<stored, queue, closed, skipped>>

\* Remote.Put, one chunk.
PutSend(c) ==
    /\ Client(c, "send") /\ call[c].n < Len /\ call[c].wire < Window
    /\ Set(c, [call[c] EXCEPT !.n = @ + 1, !.wire = @ + 1])
    /\ UNCHANGED <<stored, queue, closed, skipped>>

\* The body's end: the stream is closed, and the response awaited.
PutEnd(c) ==
    /\ Client(c, "send") /\ call[c].n = Len
    /\ Set(c, [call[c] EXCEPT !.fin = TRUE, !.cpc = "receive"])
    /\ UNCHANGED <<stored, queue, closed, skipped>>

\* The body cannot be read to its end: the same, and the error is returned.
PutSourceFails(c) ==
    /\ Client(c, "send") /\ cfg.sourceFails
    /\ Set(c, [call[c] EXCEPT !.fin = TRUE, !.cpc = "receiveFailed"])
    /\ UNCHANGED <<stored, queue, closed, skipped>>

\* Seeded fault: the end of the stream is noticed only by a Send that would
\* otherwise go through.
closePutBlocked(c) ==
    /\ Client(c, "send") /\ Handler(c, "over") /\ call[c].wire < Window
    /\ Set(c, Out(call[c], fromConnectError(call[c].resp)))
    /\ UNCHANGED <<stored, queue, closed, skipped>>

\* A Send meets a stream the server has ended: CloseAndReceive has the reason.
closePut(c) ==
    /\ Client(c, "send") /\ Handler(c, "over")
    /\ Set(c, Out(call[c], fromConnectError(call[c].resp)))
    /\ UNCHANGED <<stored, queue, closed, skipped>>

\* The response of a Put or a Stat.
Receive(c) ==
    /\ call[c].cpc \in {"receive", "receiveFailed"} /\ Handler(c, "over")
    /\ Set(c, Out(call[c], IF Client(c, "receiveFailed") THEN "body"
                           ELSE fromConnectError(call[c].resp)))
    /\ UNCHANGED <<stored, queue, closed, skipped>>

\* Remote.Get: the first message is the metadata, or there is none.
GetMeta(c) ==
    /\ Client(c, "meta")
    /\ \/ call[c].size > 0 /\ Set(c, [call[c] EXCEPT !.cpc = "read"])
       \/ call[c].size = 0 /\ Handler(c, "over") /\ Set(c, Out(call[c], fromConnectError(call[c].resp)))
    /\ UNCHANGED <<stored, queue, closed, skipped>>

\* getStream.Read: chunks, then the end of the file or the stream's error.
GetRead(c) ==
    /\ Client(c, "read")
    /\ \/ call[c].wire > 0 /\ Set(c, [call[c] EXCEPT !.n = @ + 1, !.wire = @ - 1])
       \/ /\ call[c].wire = 0 /\ Handler(c, "over")
          /\ Set(c, Out(call[c], fromConnectError(call[c].resp)))
    /\ UNCHANGED <<stored, queue, closed, skipped>>

\* The idle timer, a deadline or the caller ends the call; or the connection
\* breaks.  What is under way to the client is lost.
Cancel(c) ==
    /\ call[c].cpc \notin {"idle", "over"}
    /\ Set(c, Out([call[c] EXCEPT !.gone = TRUE, !.wire = IF @ > 0 /\ call[c].op = "get" THEN 0 ELSE @],
                  "Canceled"))
    /\ UNCHANGED <<stored, queue, closed, skipped>>

-----------------------------------------------------------------------------
(* Handlers.                                                               *)

\* The gate: a handler beyond the limit is not started.
limit(c) ==
    /\ Handler(c, "arrived")
    /\ IF Cardinality(Handling) < cfg.limit
       THEN Set(c, [call[c] EXCEPT !.hpc = "begin"])
       ELSE Set(c, [call[c] EXCEPT !.hpc = "over", !.resp = "Unavailable", !.err = "Unavailable"])
    /\ UNCHANGED <<stored, queue, closed, skipped>>

\* cacheService.Stat; the chain's Stat turns every failure into a miss.
Stat(c) ==
    /\ Handler(c, "begin") /\ call[c].op = "stat"
    /\ \/ stored[call[c].key] # None /\ Set(c, Respond(call[c], "nil"))
       \/ (stored[call[c].key] = None \/ cfg.tierFails) /\ Set(c, Respond(call[c], "ErrNotFound"))
    /\ UNCHANGED <<stored, queue, closed, skipped>>

\* cacheService.Get opens the object and sends its metadata, size and all.
GetOpen(c) ==
    LET size == stored[call[c].key] IN
    /\ Handler(c, "begin") /\ call[c].op = "get"
    /\ \/ /\ size # None
          /\ Set(c, [call[c] EXCEPT !.size = size + 1, !.hpc = "send"])
       \/ size = None /\ Set(c, Respond(call[c], "ErrNotFound"))
       \/ cfg.tierFails /\ Set(c, Respond(call[c], "other"))
    /\ UNCHANGED <<stored, queue, closed, skipped>>

\* Its chunks, the end, an error of the tier, or a client that is not there.
GetSend(c) ==
    /\ Handler(c, "send")
    /\ \/ /\ call[c].m + 1 < call[c].size /\ call[c].wire < Window /\ ~call[c].gone
          /\ Set(c, [call[c] EXCEPT !.m = @ + 1, !.wire = @ + 1])
       \/ call[c].m + 1 = call[c].size /\ Set(c, Respond(call[c], "nil"))
       \/ cfg.tierFails /\ Set(c, Respond(call[c], "other"))
       \/ call[c].gone /\ Set(c, Respond(call[c], "Canceled"))
    /\ UNCHANGED <<stored, queue, closed, skipped>>

\* An immutable object that is there already.
Refused(c) == cfg.Immutable /\ stored[call[c].key] # None

\* cacheService.Put has the header.  A disk tier alone refuses what it has
\* and what it has no room for before it reads a byte.
PutHeader(c) ==
    /\ Handler(c, "begin") /\ call[c].op = "put"
    /\ \/ cfg.tiers = 1 /\ Refused(c) /\ Set(c, Respond(call[c], "ErrExists"))
       \/ cfg.tiers = 1 /\ cfg.full /\ Set(c, Respond(call[c], "ErrNoSpace"))
       \/ ~(cfg.tiers = 1 /\ Refused(c)) /\ Set(c, [call[c] EXCEPT !.hpc = "body"])
    /\ UNCHANGED <<stored, queue, closed, skipped>>

\* Seeded fault: a stream that breaks off is read as one that ends.
PutBodyEnds(c) ==
    /\ Handler(c, "body")
    /\ \/ call[c].wire > 0 /\ Set(c, [call[c] EXCEPT !.m = @ + 1, !.wire = @ - 1])
       \/ /\ call[c].gone \/ (call[c].wire = 0 /\ call[c].fin)
          /\ Set(c, [call[c] EXCEPT !.hpc = "commit"])
    /\ UNCHANGED <<stored, queue, closed, skipped>>

\* streamBody.Read, into the chain's buffer or the disk tier's temp file.
PutBody(c) ==
    /\ Handler(c, "body")
    /\ \/ call[c].wire > 0 /\ Set(c, [call[c] EXCEPT !.m = @ + 1, !.wire = @ - 1])
       \/ call[c].wire = 0 /\ call[c].fin /\ Set(c, [call[c] EXCEPT !.hpc = "commit"])
       \/ call[c].gone /\ Set(c, Respond(call[c], "Canceled"))
    /\ UNCHANGED <<stored, queue, closed, skipped>>

\* The disk tier's Put, or the end of it, which does not compare what was
\* read with the size the header announced.
PutCommit(c) ==
    /\ Handler(c, "commit")
    /\ \/ /\ cfg.tiers = 2 /\ Refused(c)
          /\ Set(c, [call[c] EXCEPT !.hpc = "behind"]) /\ UNCHANGED stored
       \/ /\ ~(cfg.tiers = 2 /\ Refused(c))
          /\ stored' = [stored EXCEPT ![call[c].key] = call[c].m]
          /\ IF cfg.tiers = 2 THEN Set(c, [call[c] EXCEPT !.hpc = "behind"])
                              ELSE Set(c, Respond(call[c], "nil"))
       \/ cfg.tiers = 2 /\ cfg.full /\ Set(c, Respond(call[c], "ErrNoSpace")) /\ UNCHANGED stored
       \/ cfg.tierFails /\ Set(c, Respond(call[c], "other")) /\ UNCHANGED stored
       \/ call[c].gone /\ Set(c, Respond(call[c], "Canceled")) /\ UNCHANGED stored
    /\ UNCHANGED <<queue, closed, skipped>>

\* The queue is offered the object and the client gets its response, whether
\* it was taken or not.
PutBehind(c) ==
    LET k == call[c].key IN
    /\ Handler(c, "behind")
    /\ IF ~closed /\ Cardinality(queue) < QueueSize
       THEN queue' = queue \cup {k} /\ UNCHANGED skipped
       ELSE skipped' = (IF closed THEN skipped ELSE skipped \cup {k}) /\ UNCHANGED queue
    /\ Set(c, Respond(call[c], "nil"))
    /\ UNCHANGED <<stored, closed>>

-----------------------------------------------------------------------------

ClientStep(c) ==
    PutSend(c) \/ PutEnd(c) \/ PutSourceFails(c) \/ closePut(c) \/ Receive(c) \/ GetMeta(c) \/ GetRead(c)

HandlerStep(c) ==
    Stat(c) \/ GetOpen(c) \/ GetSend(c) \/ PutHeader(c) \/ PutBody(c) \/ PutCommit(c) \/ PutBehind(c)

WireInit ==
    /\ call = [c \in Calls |-> NoCall]
    /\ stored \in [Keys -> {None, Len}]
    /\ queue = {} /\ closed = FALSE /\ skipped = {}
=============================================================================
