------------------------------- MODULE Server --------------------------------
(***************************************************************************)
(* The server process (cmd/ci-cache/serve.go, server/server.go) around its *)
(* streams (Wire) and its readiness answer (Readiness): the write-behind   *)
(* queue's uploads, the listeners, and the drain that a signal starts,     *)
(* which goes from the listeners to the queue and to the disk tier's index *)
(* under one deadline.                                                     *)
(*                                                                         *)
(* UploadQueue and Disk show what the queue's Stop and the disk tier's     *)
(* Close do inside; here each is one or two steps.                         *)
(***************************************************************************)
EXTENDS Wire, Readiness

CONSTANT
    Configs      \* the settings a behaviour may run in

\* probes: there are readiness probes.  leaves: they may be abandoned.
\* stops: there may be a signal.  stalls: clients may stop in the middle of a
\* stream.  breaks: listeners may fail.  flips: so may disk and bucket.
\* wipes: an operator may use the admin service.
ASSUME ServerConfigsAssumption ==
    \A c \in Configs :
        /\ WireConfig(c) /\ c.probes \in BOOLEAN /\ c.leaves \in BOOLEAN
        /\ c.stops \in BOOLEAN /\ c.stalls \in BOOLEAN /\ c.breaks \in BOOLEAN
        /\ c.flips \in BOOLEAN /\ c.wipes \in BOOLEAN

VARIABLES
    life,        \* where runServe is
    accepting,   \* the data listener takes connections
    adminUp,     \* the admin listener has not failed
    adminCall,   \* an admin call, a wipe for instance, is under way
    expired,     \* the drain's deadline has passed
    bucket,      \* objects the queue has uploaded
    saved        \* objects in the index the disk tier's Close has written

lifeVars == <<life, accepting, adminUp, adminCall, expired, bucket, saved>>
vars == <<cfg, wireVars, readyVars, lifeVars>>

Over == life \in {"exited", "killed"}

-----------------------------------------------------------------------------
(* Streams and uploads while the process lives.                            *)

Arrive(c) == \E op \in {"put", "get", "stat"}, k \in Keys : CallBegin(c, op, k)

\* A request reaches the handler, or a server that takes no more.
Accept(c) ==
    \/ life = "serving" /\ accepting /\ limit(c)
    \/ /\ ~(life = "serving" /\ accepting) /\ Handler(c, "arrived")
       /\ Set(c, [call[c] EXCEPT !.hpc = "over", !.resp = "Unavailable", !.err = "Unavailable"])
       /\ UNCHANGED <<stored, queue, closed, skipped>>

\* The queue's workers.
Upload(k) ==
    /\ k \in queue
    /\ queue' = queue \ {k} /\ bucket' = bucket \cup {k}
    /\ UNCHANGED <<call, stored, closed, skipped, life, accepting, adminUp, adminCall, expired, saved>>

-----------------------------------------------------------------------------
(* runServe.                                                               *)

\* The admin listener fails: from now on only a signal is waited for.
AdminFails ==
    /\ cfg.breaks /\ life = "serving" /\ adminUp /\ adminUp' = FALSE
    /\ UNCHANGED <<wireVars, life, accepting, adminCall, expired, bucket, saved>>

\* A call of the admin service begins on its listener, and ends.  It has no
\* deadline: a wipe takes as long as the bucket takes.
AdminCall ==
    /\ cfg.wipes /\ ~Over
    /\ \/ ~adminCall /\ life = "serving" /\ adminUp /\ adminCall' = TRUE
       \/ adminCall /\ adminCall' = FALSE
    /\ UNCHANGED <<wireVars, life, accepting, adminUp, expired, bucket, saved>>

\* The data listener fails: runServe returns, without any drain, unless it is
\* past the point where it would hear of it.
ServeFails ==
    /\ cfg.breaks /\ life = "serving" /\ accepting /\ accepting' = FALSE
    /\ life' = IF adminUp THEN "killed" ELSE life
    /\ UNCHANGED <<wireVars, adminUp, adminCall, expired, bucket, saved>>

\* Seeded fault: the queue is stopped before the listeners.
SignalStopsQueue ==
    /\ cfg.stops /\ life = "serving" /\ life' = "shutdown"
    /\ closed' = TRUE
    /\ UNCHANGED <<call, stored, queue, skipped, accepting, adminUp, adminCall, expired, bucket, saved>>

\* A signal: the listeners take no more.
Signal ==
    /\ cfg.stops /\ life = "serving" /\ life' = "shutdown"
    /\ UNCHANGED <<wireVars, accepting, adminUp, adminCall, expired, bucket, saved>>

\* Seeded fault: the drain waits for its requests as long as they take.
ShutdownWaits ==
    /\ life = "shutdown" /\ life' = "admin"
    /\ Handling = {}
    /\ UNCHANGED <<wireVars, accepting, adminUp, adminCall, expired, bucket, saved>>

\* srv.Shutdown returns when no request is left, or at the deadline, when it
\* closes the connections of those that are.
Shutdown ==
    /\ life = "shutdown" /\ life' = "admin"
    /\ \/ Handling = {} /\ UNCHANGED <<call, expired>>
       \/ /\ Handling # {} /\ expired' = TRUE
          /\ call' = [c \in Calls |->
                        IF call[c].hpc \in {"idle", "over"} THEN call[c] ELSE [call[c] EXCEPT !.gone = TRUE]]
    /\ UNCHANGED <<stored, queue, closed, skipped, accepting, adminUp, adminCall, bucket, saved>>

\* adminSrv.Shutdown: the same for the admin service, whose calls go on when
\* the deadline has passed.  Then the queue is closed.
ShutdownAdmin ==
    /\ life = "admin" /\ life' = "flush"
    /\ \/ ~adminCall /\ UNCHANGED expired
       \/ adminCall /\ expired' = TRUE
    /\ closed' = TRUE
    /\ UNCHANGED <<call, stored, queue, skipped, accepting, adminUp, adminCall, bucket, saved>>

\* drainQueue: everything is uploaded, or the deadline passes.
drainQueue ==
    /\ life = "flush" /\ life' = "close"
    /\ \/ queue = {} /\ UNCHANGED expired
       \/ queue # {} /\ expired' = TRUE
    /\ UNCHANGED <<wireVars, accepting, adminUp, adminCall, bucket, saved>>

\* The collector is stopped and the disk tier closed, which saves its index.
CloseDisk ==
    /\ life = "close" /\ life' = "saved"
    /\ saved' = {k \in Keys : stored[k] # None}
    /\ UNCHANGED <<wireVars, accepting, adminUp, adminCall, expired, bucket>>

\* runServe returns once the telemetry is flushed.
Exit ==
    /\ life = "saved" /\ life' = "exited"
    /\ UNCHANGED <<wireVars, accepting, adminUp, adminCall, expired, bucket, saved>>

\* A second signal ends the process where it is.
SecondInterrupt ==
    /\ life \in {"shutdown", "admin", "flush", "close", "saved"} /\ life' = "killed"
    /\ UNCHANGED <<wireVars, accepting, adminUp, adminCall, expired, bucket, saved>>

\* A client whose connection is closed, or whose server is gone.
CutOff(c) ==
    /\ (Over \/ call[c].gone) /\ call[c].cpc \notin {"idle", "over"}
    /\ Set(c, Out([call[c] EXCEPT !.gone = TRUE], "Canceled"))
    /\ UNCHANGED <<stored, queue, closed, skipped>>

-----------------------------------------------------------------------------
(* The whole.                                                              *)

DoesClient(c) == (CutOff(c) \/ (~Over /\ ClientStep(c))) /\ UNCHANGED <<cfg, readyVars, lifeVars>>
DoesHandler(c) == ~Over /\ (Accept(c) \/ HandlerStep(c)) /\ UNCHANGED <<cfg, readyVars, lifeVars>>
DoesCancel(c) == ~Over /\ (Arrive(c) \/ Cancel(c)) /\ UNCHANGED <<cfg, readyVars, lifeVars>>
DoesUpload == ~Over /\ (\E k \in Keys : Upload(k)) /\ UNCHANGED <<cfg, readyVars>>
DoesStop == (Shutdown \/ ShutdownAdmin \/ drainQueue \/ CloseDisk \/ Exit) /\ UNCHANGED <<cfg, readyVars>>
Happens == (AdminFails \/ AdminCall \/ ServeFails \/ Signal \/ SecondInterrupt) /\ UNCHANGED <<cfg, readyVars>>
DoesProbe(p) == cfg.probes /\ ~Over /\ ProbeStep(p) /\ UNCHANGED <<cfg, wireVars, lifeVars>>
ProbeHappens(p) ==
    /\ cfg.probes /\ ~Over
    /\ ProbeBegin(p) \/ (cfg.leaves /\ ProbeGone(p))
    /\ UNCHANGED <<cfg, wireVars, lifeVars>>
Elsewhere ==
    /\ cfg.probes /\ ~Over
    /\ ReadyTick \/ (cfg.flips /\ \E d \in Deps : Flip(d))
    /\ UNCHANGED <<cfg, wireVars, lifeVars>>

Next ==
    \/ \E c \in Calls : DoesClient(c) \/ DoesHandler(c) \/ DoesCancel(c)
    \/ DoesUpload \/ DoesStop \/ Happens
    \/ \E p \in Probes : DoesProbe(p) \/ ProbeHappens(p)
    \/ Elsewhere

Init ==
    /\ cfg \in Configs /\ WireInit /\ ReadyInit
    /\ life = "serving" /\ accepting = TRUE /\ adminUp = TRUE /\ expired = FALSE
    /\ adminCall = FALSE /\ bucket = {} /\ saved = {}

Spec == Init /\ [][Next]_vars

\* Goroutines run, the deadline of the drain passes, and clients go on with
\* their streams where they do not stall.  A call has finitely many steps, so
\* that all of them may share one condition.
Fairness ==
    /\ WF_vars(\E c \in Calls : DoesHandler(c) \/ ((Over \/ ~cfg.stalls) /\ DoesClient(c)))
    /\ WF_vars(DoesUpload) /\ WF_vars(DoesStop)
    /\ \A p \in Probes : WF_vars(DoesProbe(p))

FairSpec == Spec /\ Fairness

-----------------------------------------------------------------------------
(* Properties.                                                             *)

\* A client that was told its Put succeeded has left the whole object on the
\* server's disk, also when the server ended the stream before the body did,
\* when the connection broke, and when another client put it first.  A reader
\* that comes to the end of the file has every chunk of the object the handler
\* opened.  And what a chain decides by, a miss, an object that exists, a full
\* disk, the client's chain learns as the server's chain met it (remote.go
\* Put, getStream.Read, fromConnectError; cacheservice.go Put, Get,
\* toConnectError).
AnswersTrue ==
    \A c \in Calls :
        /\ call[c].op = "put" /\ call[c].out = "nil" /\ ~cfg.sourceFails => stored[call[c].key] = Len
        /\ call[c].op = "get" /\ call[c].out = "nil" => call[c].n + 1 = call[c].size
        /\ /\ call[c].out \notin {"none", "body"} /\ ~call[c].gone
           /\ call[c].err \in {"nil", "ErrNotFound", "ErrExists", "ErrNoSpace"}
           => call[c].out = call[c].err

\* A drain that ends in time loses nothing a client was told is stored: it is
\* in the saved index and, with a bucket behind, uploaded, unless a full
\* queue had not taken it (serve.go runServe, server.go Shutdown).
OrderlyStop ==
    life = "exited" /\ ~expired =>
        \A c \in Calls :
            call[c].op = "put" /\ call[c].out = "nil" =>
                /\ call[c].key \in saved
                /\ cfg.tiers = 2 => call[c].key \in bucket \cup skipped

\* However clients stall, a signal leads to the end of the process (serve.go
\* runServe: the drain's deadline, then Close).
StopEnds == life = "shutdown" ~> Over

\* Every call returns: a server that refuses a body without reading it, a
\* gate that is closed, a broken connection leave no client waiting (remote.go
\* Put, closePut).  And every probe is answered, whoever ran the checks and
\* whatever they found (server.go readiness.check).
CallsEnd ==
    /\ (~cfg.stalls /\ \E c \in Calls : call[c].cpc # "idle")
         ~> \A c \in Calls : call[c].cpc \in {"idle", "over"}
    /\ \A p \in Probes : Probing(p, "check") ~> Probing(p, "idle") \/ Over

\* Whoever is told "ready" is told of checks that passed no longer ago than
\* an answer is believed and a run may take, although probes share runs and
\* answers.  The same for "not ready": a replica is not taken out for what is
\* over, as long as no probe is abandoned while its checks run (server.go
\* readiness.check, run).
ReadinessRecent ==
    [][\A p \in Probes : probe[p].answer = "none" =>
         /\ probe'[p].answer = "ready" => \A d \in Deps : dep[d].up \/ dep[d].since <= Lag
         /\ ~cfg.leaves /\ probe'[p].answer = "not ready" =>
              \E d \in Deps : ~dep[d].up \/ dep[d].since <= Lag]_vars

\* An immutable object can be trusted once it is there: it is the whole body its
\* client put (tier.go Meta.Immutable; remote.go Put, cacheservice.go Put).
StoredWhole == \A k \in Keys : stored[k] \in {None, Len}
=============================================================================
