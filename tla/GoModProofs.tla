----------------------------- MODULE GoModProofs -----------------------------
(***************************************************************************)
(* Theorems about the module proxy, for any number of requests, any TTL    *)
(* and timeout, and any settings of the upstream and of the tier.          *)
(***************************************************************************)
EXTENDS GoMod, TLAPS

-----------------------------------------------------------------------------
(* The inductive invariant, request by request.                            *)

Fields == {"pc", "left", "gated", "asked", "failure", "rev", "age", "status",
           "broke", "said", "held"}

Typed(q) ==
    /\ DOMAIN q = Fields
    /\ q.pc \in {"idle", "fresh", "cache", "legacy", "fetch", "asking", "put"}
    /\ q.left \in 0 .. Timeout /\ q.rev \in Nat /\ q.age \in 0 .. Ancient
    /\ q.status \in {0, 200, 404, 500, 502}
    /\ q.gated \in BOOLEAN /\ q.asked \in BOOLEAN /\ q.failure \in BOOLEAN
    /\ q.broke \in BOOLEAN /\ q.said \in BOOLEAN /\ q.held \in BOOLEAN

\* An object was written by a request in time: its content is older than its
\* ModTime by less than the time a request may take.
EntryOK(e) ==
    /\ DOMAIN e = {"rev", "mod", "age"}
    /\ e.rev \in Nat /\ e.mod \in 0 .. ListTTL /\ e.age \in 0 .. Ancient
    /\ e.mod < ListTTL => e.age < e.mod + Timeout

\* What the recorder holds is the request's own failure; a cache-only attempt
\* comes before any fetch; and the cache is the last resort only of a request
\* whose fetch has failed, by the upstream's word or by a failure.
Fallback(q) ==
    /\ q.pc # "idle" => q.status = 0
    /\ q.failure => q.broke
    /\ q.gated => q.pc \in {"cache", "legacy"} /\ ~q.asked
    /\ q.pc \in {"asking", "put"} => q.asked
    /\ q.pc \in {"cache", "legacy"} /\ q.asked => q.said \/ q.failure
    /\ q.pc = "put" => q.rev > 0
    /\ q.pc = "legacy" => cfg.legacy /\ ~q.held

\* A moving answer is read without asking only behind the gate, and then the
\* object was found fresh while this request was under way; what is fetched
\* is no older than the request.
Young(q) ==
    /\ q.pc \in {"cache", "legacy"} /\ ~q.asked /\ classify(cfg.name) = "ttl" => q.gated
    /\ q.gated => ListTTL > 0
    /\ q.gated /\ q.left > 0 /\ entry.rev # 0 => entry.age + q.left < ListTTL + 2 * Timeout - 1
    /\ q.pc = "put" /\ q.left > 0 => q.age + q.left <= Timeout

\* A request that could count on its object still can, and where the cache
\* comes first it has been looked at.
Counted(q) ==
    /\ q.held /\ q.pc # "idle" => entry.rev # 0 /\ q.left > 0
    /\ ~FetchesFirst(cfg.name) /\ ~cfg.tierFails /\ q.pc \in {"fetch", "asking"} => ~q.held
    /\ q.pc = "fresh" => FetchesFirst(cfg.name) /\ ~q.asked

\* What the client was told.
Told(q) ==
    /\ q.status = 404 => q.said
    /\ q.status = 502 => q.broke
    /\ /\ q.status = 200 /\ ~q.asked /\ ~cfg.legacy
       /\ cfg.name.file # "version" /\ cfg.name.root = "module"
       => q.age < Ancient
    /\ q.pc = "idle" /\ q.held /\ ~cfg.tierFails => q.status = 200

Good(q) == Typed(q) /\ Fallback(q) /\ Young(q) /\ Counted(q) /\ Told(q)

IInv ==
    /\ cfg \in Configs /\ rev \in Nat /\ legacy \in Nat /\ EntryOK(entry)
    /\ DOMAIN req = Reqs
    /\ \A r \in Reqs : Good(req[r])

-----------------------------------------------------------------------------

(* Facts about names and times.                                            *)

\* What moves is fetched before it is looked up: goproxy's order and classify
\* agree on which names those are (cacher.go classify).
LEMMA MovingIsFetched ==
    ASSUME NEW n \in Names
    PROVE  /\ classify(n) \in {"immutable", "ttl"}
           /\ classify(n) = "ttl" => FetchesFirst(n)
           /\ n.file # "version" /\ n.root = "module" => classify(n) = "ttl"
BY DEF Names, classify, FetchesFirst

\* What is assumed of the TTL and of the request timeout (config.go).
LEMMA TimesOK ==
    /\ ListTTL \in Nat /\ Timeout \in Nat /\ Timeout > 0
    /\ Ancient \in Nat /\ Ancient = ListTTL + 2 * Timeout - 2
BY TimesAssumption DEF Ancient

\* Every configuration names one file of the protocol and decides each fault.
LEMMA ConfigOK ==
    ASSUME IInv
    PROVE  /\ cfg.name \in Names /\ cfg.fails \in BOOLEAN /\ cfg.evicts \in BOOLEAN
           /\ cfg.tierFails \in BOOLEAN /\ cfg.legacy \in BOOLEAN
BY GoModConfigsAssumption DEF IInv

\* A step of one request that leaves the rest alone.
LEMMA OneRequest ==
    ASSUME IInv, NEW r \in Reqs, NEW q, Good(q), Set(r, q), UNCHANGED <<cfg, rev, entry, legacy>>
    PROVE  IInv'
<1>1. /\ cfg' = cfg /\ rev' = rev /\ entry' = entry /\ legacy' = legacy
      /\ DOMAIN req' = Reqs /\ req'[r] = q /\ \A s \in Reqs \ {r} : req'[s] = req[s]
  BY DEF IInv, Set
<1>2. ASSUME NEW s \in Reqs PROVE Good(req[s])'
  <2>1. Good(req'[s])
    BY <1>1 DEF IInv
  <2> QED
    BY <1>1, <2>1 DEF Good, Fallback, Young, Counted, Told
<1> QED
  BY <1>1, <1>2 DEF IInv

-----------------------------------------------------------------------------
(* Answers.                                                                *)

\* What WriteHeader leaves of a request.
LEMMA SentFields ==
    ASSUME NEW q, Typed(q), NEW status \in {200, 404, 500}
    PROVE  LET z == WriteHeader(q, status)
           IN  /\ Typed(z)
               /\ z.pc = "idle" /\ ~z.gated /\ ~z.failure
               /\ z.asked = q.asked /\ z.said = q.said /\ z.broke = q.broke /\ z.held = q.held
               /\ z.status = IF status # 200 /\ q.failure THEN 502 ELSE status
               /\ ~q.asked => z.age = q.age
BY TimesOK DEF Sent, Typed, Fields, WriteHeader

\* A request under way that is answered 200 with what it has in hand.
LEMMA AnsweredOK ==
    ASSUME IInv, NEW q, Typed(q),
           \/ q.asked \/ cfg.legacy \/ q.age < Ancient
           \/ cfg.name.file = "version" \/ cfg.name.root # "module"
    PROVE  Good(WriteHeader(q, 200))
<1> DEFINE z == WriteHeader(q, 200)
<1>1. /\ Typed(z) /\ z.pc = "idle" /\ ~z.gated /\ ~z.failure /\ z.status = 200
      /\ z.asked = q.asked /\ (~q.asked => z.age = q.age)
  BY SentFields
<1> HIDE DEF z
<1>2. Good(z)
  BY <1>1 DEF Good, Fallback, Young, Counted, Told
<1> QED
  BY <1>2 DEF z

\* A refusal: the request has no object to count on and knows why it has
\* nothing to say.
LEMMA RefusedOK ==
    ASSUME IInv, NEW r \in Reqs, NEW q, Typed(q), q.failure => q.broke, ~q.held \/ cfg.tierFails,
           q.said \/ q.failure, Refuse(r, q), UNCHANGED <<cfg, rev, entry, legacy>>
    PROVE  IInv'
<1>1. PICK status \in {404, 500} : (q.said => status = 404) /\ Set(r, WriteHeader(q, status))
  BY DEF Refuse, Verdicts
<1> DEFINE z == WriteHeader(q, status)
<1>2. /\ Typed(z) /\ z.pc = "idle" /\ ~z.gated /\ ~z.failure
      /\ z.said = q.said /\ z.broke = q.broke /\ z.held = q.held
      /\ z.status = IF q.failure THEN 502 ELSE status
  BY <1>1, SentFields
<1>3. Set(r, z)
  BY <1>1
<1> HIDE DEF z
<1>4. Good(z)
  BY <1>1, <1>2 DEF Good, Fallback, Young, Counted, Told
<1> QED
  BY <1>3, <1>4, OneRequest

-----------------------------------------------------------------------------
(* The steps of a request.                                                 *)

\* A request that begins has answered nothing (gomod.go serve).
LEMMA BeginOK ==
    ASSUME IInv, NEW r \in Reqs, Begin(r)
    PROVE  IInv'
<1> DEFINE q == [Idle EXCEPT !.left = Timeout, !.held = entry.rev # 0,
                             !.pc = IF classify(cfg.name) = "ttl" THEN "fresh"
                                    ELSE IF FetchesFirst(cfg.name) THEN "fetch" ELSE "cache"]
<1>1. Set(r, q) /\ UNCHANGED <<cfg, rev, entry, legacy>>
  BY DEF Begin
<1>2. /\ DOMAIN q = Fields /\ q.left = Timeout /\ q.status = 0
      /\ q.held \in BOOLEAN /\ (q.held <=> entry.rev # 0)
      /\ q.gated \in BOOLEAN /\ q.failure \in BOOLEAN /\ q.asked \in BOOLEAN
      /\ q.broke \in BOOLEAN /\ q.said \in BOOLEAN /\ ~q.gated /\ ~q.failure /\ ~q.asked
      /\ q.rev = 0 /\ q.age = 0
      /\ q.pc = IF classify(cfg.name) = "ttl" THEN "fresh"
                ELSE IF FetchesFirst(cfg.name) THEN "fetch" ELSE "cache"
  BY Zenon DEF Fields, Idle
<1>3. Good(q)
  <2> HIDE DEF q
  <2>1. Typed(q)
    BY <1>2, TimesOK DEF Typed
  <2> QED
    BY <1>2, <2>1, TimesOK, ConfigOK, MovingIsFetched DEF Good, Fallback, Young, Counted, Told
<1> QED
  BY <1>1, <1>3, OneRequest

\* The freshness gate lets through entries younger than the TTL (cacher.go fresh).
LEMMA FreshOK ==
    ASSUME IInv, NEW r \in Reqs, Fresh(r)
    PROVE  IInv'
<1> DEFINE q == req[r]
           gate == [q EXCEPT !.gated = TRUE, !.pc = "cache"]
           past == [q EXCEPT !.pc = "fetch"]
<1>1. Good(q) /\ q.pc = "fresh" /\ EntryOK(entry) /\ UNCHANGED <<cfg, rev, entry, legacy>>
  BY DEF IInv, Fresh, At
<1>2. CASE Set(r, gate) /\ TierAnswers(r) /\ entry.rev # 0 /\ entry.mod < ListTTL
  <2>1. entry.age + q.left < ListTTL + 2 * Timeout - 1 /\ ListTTL > 0
    BY <1>1, <1>2, TimesOK DEF EntryOK, Good, Typed
  <2>2. Good(gate)
    BY <1>1, <1>2, <2>1 DEF Good, Typed, Fields, Fallback, Young, Counted, Told
  <2> QED
    BY <1>1, <1>2, <2>2, OneRequest
<1>3. CASE Set(r, past)
  <2>1. Good(past)
    BY <1>1 DEF Good, Typed, Fields, Fallback, Young, Counted, Told
  <2> QED
    BY <1>1, <1>3, <2>1, OneRequest
<1> QED
  BY <1>2, <1>3 DEF Fresh

\* The cache has nothing, for a request that has no object to count on.
LEMMA MissOK ==
    ASSUME IInv, NEW r \in Reqs, req[r].pc \in {"cache", "legacy"},
           ~req[r].held \/ cfg.tierFails, Miss(r, req[r]), UNCHANGED <<cfg, rev, entry, legacy>>
    PROVE  IInv'
<1> DEFINE q == req[r]
           z == [q EXCEPT !.pc = "fetch", !.gated = FALSE, !.failure = FALSE]
<1>1. Good(q)
  BY DEF IInv
<1>2. CASE q.gated \/ ~q.asked
  <2>1. Good(z)
    BY <1>1, <1>2 DEF Good, Typed, Fields, Fallback, Young, Counted, Told
  <2>2. Set(r, z)
    BY <1>2 DEF Miss
  <2> QED
    BY <2>1, <2>2, OneRequest
<1>3. CASE ~(q.gated \/ ~q.asked)
  <2>1. Refuse(r, q)
    BY <1>3 DEF Miss
  <2>2. Typed(q) /\ (q.failure => q.broke) /\ (q.said \/ q.failure)
    BY <1>1, <1>3 DEF Good, Typed, Fallback
  <2> QED
    BY <2>1, <2>2, RefusedOK
<1> QED
  BY <1>2, <1>3

\* A hit carries the revision and the age of the entry it read (cacher.go Get).
LEMMA CacheGetOK ==
    ASSUME IInv, NEW r \in Reqs, CacheGet(r)
    PROVE  IInv'
<1> DEFINE q == req[r]
           hit == [q EXCEPT !.rev = entry.rev, !.age = entry.age]
<1>1. Good(q) /\ q.pc = "cache" /\ EntryOK(entry) /\ UNCHANGED <<cfg, rev, entry, legacy>>
  BY DEF IInv, CacheGet, At
<1>2. CASE TierAnswers(r) /\ entry.rev # 0 /\ Set(r, WriteHeader(hit, 200))
  <2>1. Typed(hit) /\ hit.asked = q.asked /\ hit.age = entry.age
    BY <1>1 DEF Good, Typed, Fields, EntryOK
  <2>2. \/ q.asked \/ entry.age < Ancient
        \/ cfg.name.file = "version" \/ cfg.name.root # "module"
    <3>1. CASE q.gated
      <4>1. entry.age + q.left < ListTTL + 2 * Timeout - 1 /\ q.left > 0
        BY <1>1, <1>2, <3>1 DEF Good, Young, TierAnswers
      <4> QED
        BY <1>1, <4>1, TimesOK DEF Good, Typed, EntryOK
    <3>2. CASE ~q.gated
      BY <1>1, <3>2, ConfigOK, MovingIsFetched DEF Good, Typed, Young
    <3> QED
      BY <3>1, <3>2
  <2>3. Good(WriteHeader(hit, 200))
    BY <2>1, <2>2, AnsweredOK, Zenon
  <2> QED
    BY <1>1, <1>2, <2>3, OneRequest
<1>3. CASE TierAnswers(r) /\ entry.rev = 0 /\ cfg.legacy /\ Set(r, [q EXCEPT !.pc = "legacy"])
  <2>1. Good([q EXCEPT !.pc = "legacy"])
    BY <1>1, <1>3 DEF Good, Typed, Fields, Fallback, Young, Counted, Told
  <2> QED
    BY <1>1, <1>3, <2>1, OneRequest
<1>4. CASE (entry.rev = 0 \/ TierFails(r)) /\ Miss(r, q)
  <2>1. ~q.held \/ cfg.tierFails
    BY <1>1, <1>4 DEF Good, Counted, TierFails
  <2> QED
    BY <1>1, <1>4, <2>1, MissOK
<1> QED
  BY <1>2, <1>3, <1>4 DEF CacheGet

\* A hit under the legacy key is as old as an entry can be (cacher.go Get).
LEMMA LegacyGetOK ==
    ASSUME IInv, NEW r \in Reqs, LegacyGet(r)
    PROVE  IInv'
<1> DEFINE q == req[r]
           hit == [q EXCEPT !.rev = legacy, !.age = Ancient]
<1>1. Good(q) /\ q.pc = "legacy" /\ UNCHANGED <<cfg, rev, entry, legacy>>
  BY DEF IInv, LegacyGet, At
<1>2. cfg.legacy /\ ~q.held
  BY <1>1 DEF Good, Fallback
<1>3. CASE Set(r, WriteHeader(hit, 200))
  <2>1. Typed(hit)
    BY <1>1, TimesOK DEF IInv, Good, Typed, Fields
  <2>2. Good(WriteHeader(hit, 200))
    BY <1>2, <2>1, AnsweredOK
  <2> QED
    BY <1>1, <1>3, <2>2, OneRequest
<1>4. CASE Miss(r, q)
  BY <1>1, <1>2, <1>4, MissOK
<1> QED
  BY <1>3, <1>4 DEF LegacyGet

\* Asking a proxy changes only the request itself (gomod.go RoundTrip).
LEMMA AskOK ==
    ASSUME IInv, NEW r \in Reqs, Ask(r)
    PROVE  IInv'
<1> DEFINE q == req[r]
           z == [q EXCEPT !.pc = "asking", !.asked = TRUE]
<1>1. Good(q) /\ q.pc = "fetch" /\ Set(r, z) /\ UNCHANGED <<cfg, rev, entry, legacy>>
  BY DEF IInv, Ask, At
<1>2. Good(z)
  BY <1>1 DEF Good, Typed, Fields, Fallback, Young, Counted, Told
<1> QED
  BY <1>1, <1>2, OneRequest

\* A fetch that has failed, by the upstream's word or by a failure.
LEMMA GiveUpOK ==
    ASSUME IInv, NEW r \in Reqs, NEW q, Good(q), q.pc = "asking", q.said \/ q.failure,
           GiveUp(r, q), UNCHANGED <<cfg, rev, entry, legacy>>
    PROVE  IInv'
<1>1. CASE FetchesFirst(cfg.name)
  <2>1. Set(r, [q EXCEPT !.pc = "cache"])
    BY <1>1 DEF GiveUp
  <2>2. Good([q EXCEPT !.pc = "cache"])
    BY <1>1 DEF Good, Typed, Fields, Fallback, Young, Counted, Told
  <2> QED
    BY <2>1, <2>2, OneRequest
<1>2. CASE ~FetchesFirst(cfg.name)
  <2>1. Refuse(r, q)
    BY <1>2 DEF GiveUp
  <2>2. Typed(q) /\ (q.failure => q.broke) /\ (~q.held \/ cfg.tierFails)
    BY <1>2, ConfigOK DEF Good, Fallback, Counted
  <2> QED
    BY <2>1, <2>2, RefusedOK
<1> QED
  BY <1>1, <1>2

\* A proxy that answers, answers with the module's present revision (gomod.go RoundTrip).
LEMMA AnswersOK ==
    ASSUME IInv, NEW r \in Reqs, Answers(r)
    PROVE  IInv'
<1> DEFINE q == req[r]
           got == [q EXCEPT !.pc = "put", !.rev = rev, !.age = 0]
           none == [q EXCEPT !.said = TRUE]
<1>1. Good(q) /\ q.pc = "asking" /\ UNCHANGED <<cfg, rev, entry, legacy>>
  BY DEF IInv, Answers, At
<1>2. CASE rev > 0 /\ Set(r, got)
  <2>1. Good(got)
    BY <1>1, <1>2, TimesOK DEF IInv, Good, Typed, Fields, Fallback, Young, Counted, Told
  <2> QED
    BY <1>1, <1>2, <2>1, OneRequest
<1>3. CASE GiveUp(r, none)
  <2>1. Good(none) /\ none.pc = "asking" /\ none.said
    BY <1>1 DEF Good, Typed, Fields, Fallback, Young, Counted, Told
  <2> QED
    BY <1>1, <1>3, <2>1, GiveUpOK, Zenon
<1> QED
  BY <1>2, <1>3 DEF Answers

\* A fetch that is tried again.
LEMMA AgainOK ==
    ASSUME NEW q, Good(q), q.pc = "asking"
    PROVE  Good([q EXCEPT !.pc = "fetch"])
BY DEF Good, Typed, Fields, Fallback, Young, Counted, Told

\* A proxy that breaks is remembered as a failure (gomod.go RoundTrip).
LEMMA RoundTripOK ==
    ASSUME IInv, NEW r \in Reqs, RoundTrip(r)
    PROVE  IInv'
<1> DEFINE q == [req[r] EXCEPT !.broke = TRUE, !.failure = TRUE]
           z == [q EXCEPT !.pc = "fetch"]
<1>1. Good(req[r]) /\ req[r].pc = "asking" /\ UNCHANGED <<cfg, rev, entry, legacy>>
  BY DEF IInv, RoundTrip, At
<1>2. Good(q) /\ q.pc = "asking" /\ q.failure
  BY <1>1 DEF Good, Typed, Fields, Fallback, Young, Counted, Told
<1>3. CASE GiveUp(r, q)
  BY <1>1, <1>2, <1>3, GiveUpOK, Zenon
<1>4. CASE Set(r, z)
  <2>1. Good(z)
    BY <1>2, AgainOK, Zenon
  <2> QED
    BY <1>1, <1>4, <2>1, OneRequest
<1> QED
  BY <1>3, <1>4 DEF RoundTrip

-----------------------------------------------------------------------------
(* The steps that change the object.                                       *)

\* What is stored is replaced while r is at "put", or is kept: the others can
\* count on it as before.
LEMMA CachePutOK ==
    ASSUME IInv, NEW r \in Reqs, CachePut(r)
    PROVE  IInv'
<1> DEFINE q == req[r]
           z == WriteHeader(q, 200)
<1>1. /\ Good(q) /\ q.pc = "put" /\ EntryOK(entry)
      /\ cfg' = cfg /\ rev' = rev /\ legacy' = legacy /\ Set(r, z)
  BY DEF IInv, CachePut, At
<1>2. Good(z)
  BY <1>1, AnsweredOK DEF Good, Fallback
<1>3. CASE entry' = entry
  BY <1>1, <1>2, <1>3, OneRequest
<1>4. CASE entry' = Fetched(r) /\ TierAnswers(r)
  <2>1. /\ DOMAIN entry' = {"rev", "mod", "age"}
        /\ entry'.rev = q.rev /\ entry'.mod = 0 /\ entry'.age = q.age
    BY <1>4 DEF Fetched
  <2>2. q.rev > 0 /\ q.age + q.left <= Timeout /\ q.left > 0
    BY <1>1, <1>4 DEF Good, Fallback, Young, TierAnswers
  <2>3. EntryOK(entry') /\ entry'.rev # 0 /\ entry'.age < Timeout
    BY <1>1, <2>1, <2>2, TimesOK DEF EntryOK, Good, Typed
  <2>4. DOMAIN req' = Reqs /\ req'[r] = z /\ \A s \in Reqs \ {r} : req'[s] = req[s]
    BY <1>1 DEF IInv, Set
  <2>5. ASSUME NEW s \in Reqs PROVE Good(req[s])'
    <3>1. Good(req'[s])
      BY <1>2, <2>4 DEF IInv
    <3>2. PICK p : p = req'[s]
      OBVIOUS
    <3>3. Typed(p) /\ Fallback(p) /\ Young(p) /\ Counted(p) /\ Told(p)
      BY <3>1, <3>2 DEF Good
    <3>4. Young(p)'
      <4>1. ListTTL > 0 => entry'.age + p.left < ListTTL + 2 * Timeout - 1
        BY <2>3, <3>3, TimesOK DEF Typed, EntryOK
      <4> QED
        BY <1>1, <3>3, <4>1 DEF Young
    <3>5. Fallback(p)' /\ Counted(p)' /\ Told(p)'
      BY <1>1, <2>3, <3>3 DEF Fallback, Counted, Told
    <3> QED
      BY <3>2, <3>3, <3>4, <3>5 DEF Good, Typed
  <2> QED
    BY <1>1, <2>3, <2>4, <2>5 DEF IInv
<1> QED
  BY <1>3, <1>4 DEF CachePut

\* An eviction takes the entry away from every request under way.
LEMMA EvictOK ==
    ASSUME IInv, Evict
    PROVE  IInv'
<1>1. /\ cfg' = cfg /\ rev' = rev /\ legacy' = legacy /\ entry' = NoEntry
      /\ req' = [r \in Reqs |-> IF At(r, "idle") THEN req[r] ELSE [req[r] EXCEPT !.held = FALSE]]
  BY DEF Evict
<1>2. EntryOK(entry') /\ entry'.rev = 0
  BY <1>1, TimesOK DEF NoEntry, EntryOK
<1>3. ASSUME NEW s \in Reqs PROVE Good(req[s])'
  <2>1. PICK p : p = req[s]
    OBVIOUS
  <2>2. Typed(p) /\ Fallback(p) /\ Young(p) /\ Counted(p) /\ Told(p)
    BY <2>1 DEF IInv, Good
  <2>3. req'[s] = IF p.pc = "idle" THEN p ELSE [p EXCEPT !.held = FALSE]
    BY <1>1, <2>1 DEF At
  <2>4. CASE p.pc = "idle"
    <3>1. Fallback(p)' /\ Young(p)' /\ Counted(p)' /\ Told(p)'
      BY <1>1, <1>2, <2>2, <2>4 DEF Fallback, Young, Counted, Told
    <3> QED
      BY <2>2, <2>3, <2>4, <3>1 DEF Good, Typed
  <2>5. CASE p.pc # "idle"
    <3>1. PICK z : z = [p EXCEPT !.held = FALSE]
      BY Zenon
    <3>2. Typed(z) /\ Fallback(z)' /\ Young(z)' /\ Counted(z)' /\ Told(z)'
      BY <1>1, <1>2, <2>2, <2>5, <3>1 DEF Typed, Fields, Fallback, Young, Counted, Told
    <3> QED
      BY <2>3, <2>5, <3>1, <3>2 DEF Good, Typed
  <2> QED
    BY <2>4, <2>5
<1> QED
  BY <1>1, <1>2, <1>3 DEF IInv

\* A tick moves every request's time and the object's ages together.
LEMMA TickOK ==
    ASSUME IInv, Tick
    PROVE  IInv'
<1>1. /\ cfg' = cfg /\ rev' = rev /\ legacy' = legacy
      /\ entry' = [entry EXCEPT !.mod = Older(@, ListTTL), !.age = Older(@, Ancient)]
  BY Zenon DEF Tick
<1>2. /\ DOMAIN entry' = {"rev", "mod", "age"} /\ entry'.rev = entry.rev
      /\ entry'.mod = Older(entry.mod, ListTTL) /\ entry'.age = Older(entry.age, Ancient)
  BY <1>1 DEF IInv, EntryOK
<1>3. entry'.age \in 0 .. Ancient /\ entry'.age <= entry.age + 1
  BY <1>2, TimesOK DEF IInv, EntryOK, Older
<1>4. EntryOK(entry')
  BY <1>2, <1>3, TimesOK DEF IInv, EntryOK, Older
<1>5. ASSUME NEW s \in Reqs PROVE Good(req[s])'
  <2>1. PICK p : p = req[s]
    OBVIOUS
  <2>2. Typed(p) /\ Fallback(p) /\ Young(p) /\ Counted(p) /\ Told(p)
    BY <2>1 DEF IInv, Good
  <2>3. req'[s] = IF p.pc = "idle" THEN p
                  ELSE [p EXCEPT !.left = IF @ > 0 THEN @ - 1 ELSE 0,
                                 !.held = @ /\ p.left > 1,
                                 !.age = IF p.pc = "put" THEN Older(@, Ancient) ELSE @]
    BY <2>1, Zenon DEF Tick, At
  <2>4. CASE p.pc = "idle"
    <3>1. Fallback(p)' /\ Young(p)' /\ Counted(p)' /\ Told(p)'
      BY <1>1, <2>2, <2>4 DEF Fallback, Young, Counted, Told
    <3> QED
      BY <2>2, <2>3, <2>4, <3>1 DEF Good, Typed
  <2>5. CASE p.pc # "idle"
    <3>1. PICK z : z = req'[s]
      OBVIOUS
    <3>2. /\ DOMAIN z = Fields /\ z.pc = p.pc /\ z.gated = p.gated /\ z.asked = p.asked
          /\ z.failure = p.failure /\ z.rev = p.rev /\ z.status = p.status
          /\ z.broke = p.broke /\ z.said = p.said
          /\ z.left = IF p.left > 0 THEN p.left - 1 ELSE 0
          /\ z.held = (p.held /\ p.left > 1)
          /\ z.age = IF p.pc = "put" THEN Older(p.age, Ancient) ELSE p.age
      <4>1. z = [p EXCEPT !.left = IF @ > 0 THEN @ - 1 ELSE 0,
                          !.held = @ /\ p.left > 1,
                          !.age = IF p.pc = "put" THEN Older(@, Ancient) ELSE @]
        BY <2>3, <2>5, <3>1, Zenon
      <4>2. DOMAIN p = Fields
        BY <2>2 DEF Typed
      <4>3. z.left = (IF p.left > 0 THEN p.left - 1 ELSE 0) /\ z.held = (p.held /\ p.left > 1)
        BY <4>1, <4>2, Zenon DEF Fields
      <4> QED
        BY <4>1, <4>2, <4>3 DEF Fields
    <3>3. z.held \in BOOLEAN /\ (z.held <=> p.held /\ p.left > 1)
      BY <3>2, Zenon
    <3>4. z.left \in 0 .. Timeout /\ (z.left > 0 => z.left + 1 = p.left)
      BY <2>2, <3>2, TimesOK DEF Typed
    <3>5. z.age \in 0 .. Ancient /\ z.age <= p.age + 1
      BY <2>2, <3>2, TimesOK DEF Typed, Older
    <3>6. Typed(z)
      BY <2>2, <3>2, <3>4, <3>5, <3>3 DEF Typed
    <3>7. Young(z)'
      <4>1. z.left > 0 => entry'.age + z.left <= entry.age + p.left /\ z.age + z.left <= p.age + p.left
        BY <1>3, <2>2, <3>4, <3>5, TimesOK DEF IInv, EntryOK, Typed
      <4>2. z.left > 0 => p.left > 0
        BY <2>2, <3>4, TimesOK DEF Typed
      <4>3. /\ entry.age + p.left \in Nat /\ entry'.age + z.left \in Nat
            /\ p.age + p.left \in Nat /\ z.age + z.left \in Nat
        BY <1>3, <2>2, <3>6, TimesOK DEF IInv, EntryOK, Typed
      <4> QED
        BY <1>1, <1>2, <2>2, <3>2, <4>1, <4>2, <4>3, TimesOK DEF Young
    <3>8. Fallback(z)' /\ Told(z)'
      BY <1>1, <2>2, <2>5, <3>2, <3>3 DEF Fallback, Told
    <3>9. Counted(z)'
      BY <1>1, <1>2, <2>2, <3>2, <3>3, TimesOK DEF Counted, Typed
    <3> QED
      BY <3>1, <3>6, <3>7, <3>8, <3>9 DEF Good, Typed
  <2> QED
    BY <2>4, <2>5
<1>6. DOMAIN req' = Reqs
  BY Zenon DEF Tick
<1> QED
  BY <1>1, <1>4, <1>5, <1>6 DEF IInv

-----------------------------------------------------------------------------
(* The theorems.                                                           *)

\* Every step of the front-end, of goproxy, of the upstream and of the tier
\* keeps the invariant.
THEOREM Invariant == Spec => []IInv
<1>1. Init => IInv
  <2> SUFFICES ASSUME Init PROVE IInv
    OBVIOUS
  <2>1. EntryOK(entry) /\ rev \in Nat /\ legacy \in Nat /\ cfg \in Configs /\ DOMAIN req = Reqs
    BY TimesOK DEF Init, NoEntry, EntryOK
  <2>2. Typed(Idle) /\ Idle.pc = "idle" /\ Idle.status = 0 /\ ~Idle.held /\ ~Idle.failure /\ ~Idle.gated
    BY TimesOK DEF Idle, Typed, Fields
  <2>3. ASSUME NEW r \in Reqs PROVE Good(req[r])
    <3>1. req[r] = Idle
      BY DEF Init
    <3> QED
      BY <2>2, <3>1 DEF Good, Fallback, Young, Counted, Told
  <2> QED
    BY <2>1, <2>3 DEF IInv
<1>2. IInv /\ [Next]_vars => IInv'
  <2> SUFFICES ASSUME IInv, [Next]_vars PROVE IInv'
    OBVIOUS
  <2>1. CASE UNCHANGED vars
    BY <2>1 DEF vars, IInv, Good, Typed, Fallback, Young, Counted, Told
  <2>2. CASE Publish
    <3>1. rev' \in Nat /\ UNCHANGED <<cfg, entry, legacy, req>>
      BY <2>2 DEF Publish, IInv
    <3> QED
      BY <3>1 DEF IInv, Good, Typed, Fallback, Young, Counted, Told
  <2>3. ASSUME NEW r \in Reqs, Begin(r) \/ Step(r) \/ Upstream(r) PROVE IInv'
    BY <2>3, BeginOK, FreshOK, CacheGetOK, LegacyGetOK, AskOK, CachePutOK, RoundTripOK, AnswersOK
       DEF Step, Upstream
  <2> QED
    BY <2>1, <2>2, <2>3, EvictOK, TickOK DEF Next
<1> QED
  BY <1>1, <1>2, PTL DEF Spec

\* "No such version" is the upstream's own word, said to this request, and
\* "bad gateway" is about a call this request made, with any number of them
\* side by side (gomod.go serveGated, badGatewayWriter).
THEOREM StatusIsTrue == Spec => []StatusTrue
<1>1. IInv => StatusTrue
  <2> SUFFICES ASSUME IInv, NEW r \in Reqs
               PROVE  (req[r].status = 404 => req[r].said) /\ (req[r].status = 502 => req[r].broke)
    BY Zenon DEF StatusTrue
  <2>1. Told(req[r])
    BY DEF IInv, Good
  <2> QED
    BY <2>1 DEF Told
<1> QED
  BY <1>1, Invariant, PTL

\* Whatever the TTL and the timeout, a moving answer that is given without
\* asking the upstream is younger than the TTL and twice the time a request
\* may wait (cacher.go fresh).
THEOREM AnswersAreFresh == Spec => []FreshEnough
<1>1. IInv => FreshEnough
  BY DEF IInv, Good, Told, FreshEnough
<1> QED
  BY <1>1, Invariant, PTL

\* An outage of the upstream never hides an object that is there (cacher.go
\* Get).
THEOREM OutagesAreSurvived == Spec => []StaleSurvivesOutage
<1>1. IInv => StaleSurvivesOutage
  BY DEF IInv, Good, Told, StaleSurvivesOutage, At
<1> QED
  BY <1>1, Invariant, PTL
=============================================================================
