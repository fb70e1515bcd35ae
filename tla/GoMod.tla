-------------------------------- MODULE GoMod --------------------------------
(***************************************************************************)
(* The Go module proxy front-end (frontend/gomod/gomod.go) and the cacher  *)
(* it gives to the goproxy library (frontend/gomod/cacher.go): requests    *)
(* for one name run side by side over a tier that evicts and may fail, and *)
(* over an upstream proxy that publishes, fails or hangs.                  *)
(*                                                                         *)
(* goproxy is a library, and modelled by what the package relies on: a     *)
(* moving answer is fetched and looked up only when that fails, a version's*)
(* file is looked up and fetched only when that misses, a fetch is tried   *)
(* several times, an upstream that fails is reported as 404 or as 500, and *)
(* a request with Disable-Module-Fetch is answered from the cache or with  *)
(* 404.                                                                    *)
(*                                                                         *)
(* An answer is stood for by the upstream's revision it shows.  Time is    *)
(* relative: requests hold the time they have left, entries their age.     *)
(***************************************************************************)
EXTENDS Naturals

CONSTANTS
    Reqs,        \* requests that may be under way at once
    ListTTL,     \* how long a moving answer is believed
    Timeout,     \* how long one request may take
    MaxRev,      \* bound on the upstream's revisions
    Configs      \* the settings a behaviour may run in

\* name: what is asked for.  fails: the upstream may answer with an error; it
\* may always keep silent.  evicts, tierFails: what the tier may do.  legacy:
\* the legacy prefix is set.
\* A version's file that is none of the three is refused by goproxy itself.
Names == {n \in [root : {"module", "sumdb"},
                 file : {"latest", "list", "version", "branch", "other"},
                 ext : {"info", "mod", "zip", "none"}] :
             n.file = "version" => n.ext # "none"}

ASSUME TimesAssumption == ListTTL \in Nat /\ Timeout \in Nat \ {0} /\ MaxRev \in Nat
ASSUME GoModConfigsAssumption ==
    \A c \in Configs :
        /\ c.name \in Names /\ c.fails \in BOOLEAN
        /\ c.evicts \in BOOLEAN /\ c.tierFails \in BOOLEAN /\ c.legacy \in BOOLEAN

\* The age from which on contents are not told apart.  A request that has n
\* ticks left can wait for n - 1 of them between two calls that succeed.
Ancient == ListTTL + 2 * (Timeout - 1)

VARIABLES
    cfg,
    rev,         \* the upstream's revision; 0 while it knows nothing of the name
    entry,       \* the tier's object: its revision, the age of its ModTime, and
                 \* history: how long ago the upstream said so.  Revision 0: none
    legacy,      \* the revision under the legacy key; 0: none
    req          \* the request in each slot

vars == <<cfg, rev, entry, legacy, req>>

NoEntry == [rev |-> 0, mod |-> ListTTL, age |-> Ancient]

\* A request: the time left; whether Disable-Module-Fetch is set; whether the
\* upstream was asked, which the fallback depends on; the recorder's failure;
\* the content in hand and its age; the status sent.  History: whether a call
\* of its own failed, whether the upstream said 404, and whether an entry was
\* there all along, until the time was over.
Idle == [pc |-> "idle", left |-> 0, gated |-> FALSE, asked |-> FALSE, failure |-> FALSE,
         rev |-> 0, age |-> 0, status |-> 0, broke |-> FALSE, said |-> FALSE, held |-> FALSE]

-----------------------------------------------------------------------------
(* Names.                                                                  *)

\* How long an answer may be believed: a version's file and a record of the
\* checksum database for ever, a tree head, a list, a branch for a while.
classify(n) ==
    IF \/ n.root = "sumdb" /\ n.file # "latest"
       \/ n.root = "module" /\ n.file = "version" /\ n.ext \in {"info", "mod", "zip"}
    THEN "immutable" ELSE "ttl"

\* goproxy asks the upstream before its cache.
FetchesFirst(n) == n.root = "sumdb" \/ n.file # "version"

-----------------------------------------------------------------------------
(* Answers.                                                                *)

Set(r, q) == req' = [req EXCEPT ![r] = q]
At(r, pc) == req[r].pc = pc

\* The request is over; what is known of the answer stays until the next.
Sent(q, status) ==
    [q EXCEPT !.pc = "idle", !.status = status, !.failure = FALSE, !.gated = FALSE,
              !.left = 0, !.rev = 0, !.age = IF q.asked THEN 0 ELSE q.age]

\* badGatewayWriter.WriteHeader: goproxy's verdict on the module, unless the
\* recorder knows that the upstream was the problem.
WriteHeader(q, status) ==
    Sent(q, IF status # 200 /\ q.failure THEN 502 ELSE status)

\* goproxy has nothing: the upstream's 404, or its own word for a failure.
Verdicts(q) == IF q.said THEN {404} ELSE {404, 500}

Refuse(r, q) == \E status \in Verdicts(q) : Set(r, WriteHeader(q, status))

\* The tier answers: it does not fail, and the context is not done.
TierAnswers(r) == req[r].left > 0

\* Any call of the tier may fail where tiers fail, and does so once the
\* context is done.
TierFails(r) == cfg.tierFails \/ req[r].left = 0
-----------------------------------------------------------------------------
(* serve.                                                                  *)

Begin(r) ==
    /\ At(r, "idle")
    /\ Set(r, [Idle EXCEPT !.left = Timeout, !.held = entry.rev # 0,
                           !.pc = IF classify(cfg.name) = "ttl" THEN "fresh"
                                  ELSE IF FetchesFirst(cfg.name) THEN "fetch" ELSE "cache"])
    /\ UNCHANGED <<cfg, rev, entry, legacy>>

\* Seeded fault: the age of an entry is not looked at.
FreshAny(r) ==
    /\ At(r, "fresh")
    /\ LET held == entry.rev # 0 IN
       Set(r, [req[r] EXCEPT !.gated = held, !.pc = IF held THEN "cache" ELSE "fetch"])
    /\ UNCHANGED <<cfg, rev, entry, legacy>>

\* cacher.fresh: a Stat that fails, and a TTL of zero, are not fresh.
Fresh(r) ==
    LET isFresh == entry.rev # 0 /\ entry.mod < ListTTL IN
    /\ At(r, "fresh")
    /\ \/ /\ TierAnswers(r) /\ isFresh
          /\ Set(r, [req[r] EXCEPT !.gated = TRUE, !.pc = "cache"])
       \/ /\ ~isFresh \/ TierFails(r)
          /\ Set(r, [req[r] EXCEPT !.pc = "fetch"])
    /\ UNCHANGED <<cfg, rev, entry, legacy>>

\* The cache had nothing: the gate is dropped and the recorder emptied, or
\* the file is fetched, or this was the last resort.
Miss(r, q) ==
    IF q.gated \/ ~q.asked
    THEN Set(r, [q EXCEPT !.pc = "fetch", !.gated = FALSE, !.failure = FALSE])
    ELSE Refuse(r, q)

\* Seeded fault: the gated attempt's 404 is the answer.
CacheGetGated(r) ==
    /\ At(r, "cache")
    /\ IF entry.rev # 0 THEN Set(r, WriteHeader([req[r] EXCEPT !.rev = entry.rev, !.age = entry.age], 200))
       ELSE IF req[r].gated THEN Set(r, WriteHeader(req[r], 404))
       ELSE Miss(r, req[r])
    /\ UNCHANGED <<cfg, rev, entry, legacy>>

\* Seeded fault: an entry that is too old is a miss.
CacheGetFresh(r) ==
    /\ At(r, "cache")
    /\ IF TierAnswers(r) /\ entry.rev # 0 /\ entry.mod < ListTTL
       THEN Set(r, WriteHeader([req[r] EXCEPT !.rev = entry.rev, !.age = entry.age], 200))
       ELSE Miss(r, req[r])
    /\ UNCHANGED <<cfg, rev, entry, legacy>>

\* cacher.Get, which does not look at the age.  An error is a miss and does
\* not lead to the legacy key.
CacheGet(r) ==
    /\ At(r, "cache")
    /\ \/ /\ TierAnswers(r) /\ entry.rev # 0
          /\ Set(r, WriteHeader([req[r] EXCEPT !.rev = entry.rev, !.age = entry.age], 200))
       \/ /\ TierAnswers(r) /\ entry.rev = 0
          /\ IF cfg.legacy THEN Set(r, [req[r] EXCEPT !.pc = "legacy"]) ELSE Miss(r, req[r])
       \/ TierFails(r) /\ Miss(r, req[r])
    /\ UNCHANGED <<cfg, rev, entry, legacy>>

LegacyGet(r) ==
    /\ At(r, "legacy")
    /\ \/ /\ TierAnswers(r) /\ legacy # 0
          /\ Set(r, WriteHeader([req[r] EXCEPT !.rev = legacy, !.age = Ancient], 200))
       \/ (legacy = 0 \/ TierFails(r)) /\ Miss(r, req[r])
    /\ UNCHANGED <<cfg, rev, entry, legacy>>

-----------------------------------------------------------------------------
(* The upstream, through the transport that records its failures.          *)

Ask(r) ==
    /\ At(r, "fetch")
    /\ Set(r, [req[r] EXCEPT !.pc = "asking", !.asked = TRUE])
    /\ UNCHANGED <<cfg, rev, entry, legacy>>

\* The fetch has failed: a moving answer is looked for in the cache, for a
\* file that was done before.
GiveUp(r, q) ==
    IF FetchesFirst(cfg.name) THEN Set(r, [q EXCEPT !.pc = "cache"]) ELSE Refuse(r, q)

Answers(r) ==
    /\ At(r, "asking") /\ req[r].left > 0
    /\ IF rev > 0 THEN Set(r, [req[r] EXCEPT !.pc = "put", !.rev = rev, !.age = 0])
       ELSE GiveUp(r, [req[r] EXCEPT !.said = TRUE])
    /\ UNCHANGED <<cfg, rev, entry, legacy>>

\* RoundTrip fails, or answers 5xx or 429: recorded, and tried again or not.
RoundTrip(r) ==
    LET q == [req[r] EXCEPT !.broke = TRUE, !.failure = TRUE] IN
    /\ At(r, "asking") /\ (cfg.fails \/ req[r].left = 0)
    /\ GiveUp(r, q) \/ (req[r].left > 0 /\ Set(r, [q EXCEPT !.pc = "fetch"]))
    /\ UNCHANGED <<cfg, rev, entry, legacy>>

Fetched(r) == [rev |-> req[r].rev, mod |-> 0, age |-> req[r].age]

\* cacher.Put, with the time of the write as ModTime; whatever becomes of it
\* the client is served.  An immutable entry that is there stays.
CachePut(r) ==
    LET kept == classify(cfg.name) = "immutable" /\ entry.rev # 0 IN
    /\ At(r, "put")
    /\ \/ TierAnswers(r) /\ entry' = (IF kept THEN entry ELSE Fetched(r))
       \/ TierFails(r) /\ UNCHANGED entry
    /\ Set(r, WriteHeader(req[r], 200))
    /\ UNCHANGED <<cfg, rev, legacy>>

-----------------------------------------------------------------------------
(* What happens on its own.                                                *)

Publish == rev < MaxRev /\ rev' = rev + 1 /\ UNCHANGED <<cfg, entry, legacy, req>>

Evict ==
    /\ cfg.evicts /\ entry.rev # 0
    /\ entry' = NoEntry
    /\ req' = [r \in Reqs |-> IF At(r, "idle") THEN req[r] ELSE [req[r] EXCEPT !.held = FALSE]]
    /\ UNCHANGED <<cfg, rev, legacy>>

Older(age, cap) == IF age < cap THEN age + 1 ELSE cap

\* A tick, for every request under way and for what is stored.
Tick ==
    /\ entry' = [entry EXCEPT !.mod = Older(@, ListTTL), !.age = Older(@, Ancient)]
    /\ req' = [r \in Reqs |->
                 IF At(r, "idle") THEN req[r]
                 ELSE [req[r] EXCEPT !.left = IF @ > 0 THEN @ - 1 ELSE 0,
                                     !.held = @ /\ req[r].left > 1,
                                     !.age = IF At(r, "put") THEN Older(@, Ancient) ELSE @]]
    /\ UNCHANGED <<cfg, rev, legacy>>

-----------------------------------------------------------------------------
(* The whole.                                                              *)

\* What the code does by itself; the upstream answers or fails as it likes,
\* until the context is done.
Step(r) ==
    \/ Fresh(r) \/ CacheGet(r) \/ LegacyGet(r) \/ Ask(r) \/ CachePut(r)
    \/ (req[r].left = 0 /\ RoundTrip(r))

Upstream(r) == Answers(r) \/ (req[r].left > 0 /\ RoundTrip(r))

Next ==
    \/ \E r \in Reqs : Begin(r) \/ Step(r) \/ Upstream(r)
    \/ Publish \/ Evict \/ Tick

Init ==
    /\ cfg \in Configs /\ rev \in {0, 1}
    /\ entry \in {NoEntry, [NoEntry EXCEPT !.rev = 1]}
    /\ legacy \in (IF cfg.legacy THEN {0, 1} ELSE {0})
    /\ req = [r \in Reqs |-> Idle]

Spec == Init /\ [][Next]_vars

-----------------------------------------------------------------------------
(* Properties.                                                             *)

\* A client is told 404 only when the upstream itself said so to this very
\* request: neither an outage, nor an entry that is evicted after it was found
\* fresh, nor an error of the tier turns into "no such version".  And 502 is
\* about a failure of the request's own calls: the outage one request met is
\* never reported to another (gomod.go serveGated, badGatewayWriter; cacher.go Get).
StatusTrue ==
    \A r \in Reqs :
        /\ req[r].status = 404 => req[r].said
        /\ req[r].status = 502 => req[r].broke

\* A moving answer that is given without asking the upstream is what the
\* upstream said at most ListTTL ago, give or take the time two requests may
\* take: the one that wrote it and the one that reads it (cacher.go fresh).
FreshEnough ==
    \A r \in Reqs :
        /\ req[r].status = 200 /\ ~req[r].asked /\ ~cfg.legacy
        /\ cfg.name.file # "version" /\ cfg.name.root = "module"
        => req[r].age < Ancient

\* An entry that is in the tier all along is served, however old it is, when
\* the upstream cannot be asked, unless it takes the request's whole time to
\* find that out (cacher.go Get, which leaves age to fresh).
StaleSurvivesOutage ==
    \A r \in Reqs : At(r, "idle") /\ req[r].held /\ ~cfg.tierFails => req[r].status = 200
=============================================================================
