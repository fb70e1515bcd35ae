----------------------------- MODULE ChainProofs -----------------------------
(***************************************************************************)
(* Theorems about the chain, for any number of tiers and goroutines, any   *)
(* versions and contents, and any settings.                                *)
(***************************************************************************)
EXTENDS Chain, TLAPS

-----------------------------------------------------------------------------
(* The inductive invariant.                                                *)

Fields == {"pc", "res", "i", "v", "id", "led", "after"}

\* No tier fails or deletes, and only the front one evicts.
Quiet == cfg.Faults = {} /\ "delete" \notin cfg.Ops /\ ~cfg.WriteBehind /\ cfg.Evicts \subseteq {0}

\* The tiers behind the first hold an object, up to tier n.
Filled(n) == \A j \in Tiers : 0 < j /\ j < n => store[j] # None

\* What a call carries is an object, and it is at a tier that is there; and
\* only a Get that reads runs the function of the group.
Typed(q) ==
    /\ DOMAIN q = Fields /\ q.pc \in PCs /\ q.i \in Tiers
    /\ q.led \in BOOLEAN /\ q.after \in BOOLEAN
    /\ q.pc \in {"forward", "putFront", "put"} => q.v \in Versions
    /\ q.pc \in {"read", "put"} => q.i > 0
    /\ q.pc \in {"front", "join"} => q.res = "none"
    /\ q.led => q.pc \in {"idle", "read", "forward", "open", "unlink"}

\* While all is quiet, a Put fills the tiers one by one, and so no Get that
\* begins when they are filled misses.
Served(q) ==
    Quiet =>
       /\ q.pc # "delete"
       /\ q.pc = "put" => Filled(q.i)
       /\ q.after => written
       /\ q.led /\ q.after => q.res # "miss"

StoreOK ==
    /\ store \in [Tiers -> Versions \cup {None}] /\ written \in BOOLEAN
    /\ \A p \in pending : p[1] \in Tiers /\ p[1] > 0 /\ p[2] \in Versions
    /\ Quiet => pending = {} /\ (written => Filled(N))

CInv ==
    /\ StoreOK
    /\ DOMAIN call = Callers /\ \A c \in Callers : Typed(call[c]) /\ Served(call[c])

Holds(c, f) == call[c].pc \in {"forward", "open", "unlink"} /\ call[c].id = f

\* Who holds no temp file has 0 for one.
FInv == 0 \notin files /\ TempRemoved

-----------------------------------------------------------------------------
(* Frames.                                                                 *)

\* The tiers behind the first stay as full as they are.
Fuller ==
    /\ store' \in [Tiers -> Versions \cup {None}]
    /\ Quiet => \A j \in Tiers : j > 0 /\ store[j] # None => store'[j] # None

\* A call that does not move is served in the next state as in this one.
LEMMA StillServed ==
    ASSUME NEW q, Served(q), Fuller, q.i \in Tiers, cfg' = cfg, written => written'
    PROVE  Served(q)'
BY DEF Served, Fuller, Filled, Quiet

\* One call moves.
LEMMA OneCall ==
    ASSUME CInv, NEW c \in Callers, NEW q, Typed(q), Served(q)', call' = [call EXCEPT ![c] = q],
           StoreOK', Fuller, cfg' = cfg, written => written'
    PROVE  CInv'
<1>1. /\ DOMAIN call' = Callers /\ call'[c] = q
      /\ \A d \in Callers \ {c} : call'[d] = call[d]
  BY DEF CInv
<1>2. ASSUME NEW d \in Callers PROVE Typed(call[d])' /\ Served(call[d])'
  <2>1. CASE d = c
    BY <1>1, <2>1 DEF Typed
  <2>2. CASE d # c
    <3>1. PICK p : p = call[d]
      OBVIOUS
    <3>2. Typed(p) /\ Served(p)
      BY <3>1 DEF CInv
    <3>3. Served(p)'
      BY <3>2, StillServed DEF Typed
    <3> QED
      BY <1>1, <2>2, <3>1, <3>2, <3>3 DEF Typed
  <2> QED
    BY <2>1, <2>2
<1> QED
  BY <1>1, <1>2 DEF CInv

\* One call moves, and the tiers stay as they are.
LEMMA OneCallReads ==
    ASSUME CInv, NEW c \in Callers, NEW q, Typed(q), Served(q), call' = [call EXCEPT ![c] = q],
           UNCHANGED <<cfg, store, pending, written>>
    PROVE  CInv'
<1>1. StoreOK' /\ Fuller
  BY DEF CInv, StoreOK, Fuller, Quiet, Filled
<1>2. Served(q)'
  BY <1>1, StillServed DEF Typed
<1> QED
  BY <1>1, <1>2, OneCall, Zenon

\* Nobody moves.
LEMMA NobodyMoves ==
    ASSUME CInv, call' = call, StoreOK', Fuller, cfg' = cfg, written => written'
    PROVE  CInv'
<1>1. ASSUME NEW d \in Callers PROVE Typed(call[d])' /\ Served(call[d])'
  <2>1. PICK p : p = call[d]
    OBVIOUS
  <2>2. Typed(p) /\ Served(p)
    BY <2>1 DEF CInv
  <2>3. Served(p)'
    BY <2>2, StillServed DEF Typed
  <2> QED
    BY <2>1, <2>2, <2>3 DEF Typed
<1> QED
  BY <1>1 DEF CInv

\* A tier is written: it holds the object, or what it had.
LEMMA TierPutOK ==
    ASSUME StoreOK, NEW i \in Tiers, NEW v \in Versions, TierPut(i, v), cfg' = cfg
    PROVE  /\ Fuller
           /\ Quiet => store'[i] # None
<1>1. None \notin Versions /\ store \in [Tiers -> Versions \cup {None}]
  BY VersionsAssumption DEF StoreOK
<1>2. CASE store' = [store EXCEPT ![i] = IF cfg.Immutable /\ @ # None THEN @ ELSE v]
  <2>1. \A j \in Tiers : store'[j] \in Versions \cup {None} /\ (store[j] # None => store'[j] # None)
    BY <1>1, <1>2
  <2>2. store'[i] # None /\ store' \in [Tiers -> Versions \cup {None}]
    BY <1>1, <1>2
  <2> QED
    BY <2>1, <2>2 DEF Fuller
<1>3. CASE Fails("put") /\ UNCHANGED store
  BY <1>1, <1>3 DEF Fuller, Fails, Quiet
<1> QED
  BY <1>2, <1>3 DEF TierPut

-----------------------------------------------------------------------------
(* The steps of calls.                                                     *)

\* A call begins (chain.go Get, Put, Stat, Delete).
LEMMA BeginOK ==
    ASSUME CInv, NEW c \in Callers, Begin(c)
    PROVE  CInv'
<1>1. UNCHANGED <<cfg, store, pending, written>>
  BY DEF Begin, GetBegin, StatBegin, DeleteBegin, PutBegin
<1>2. ASSUME NEW op, NEW pc \in PCs \ {"read", "put", "forward"}, NEW v, Starts(c, op, pc, v),
             pc = "putFront" => v \in Versions, pc = "delete" => op = "delete"
      PROVE  CInv'
  <2> DEFINE q == [Idle("none") EXCEPT !.pc = pc, !.v = v, !.after = written]
  <2>1. /\ DOMAIN q = Fields /\ q.pc = pc /\ q.res = "none" /\ q.v = v /\ q.i = 0 /\ q.led \in BOOLEAN /\ ~q.led
        /\ q.after \in BOOLEAN /\ (q.after <=> written)
    BY DEF Idle, Fields, CInv, StoreOK
  <2>2. call' = [call EXCEPT ![c] = q] /\ op \in cfg.Ops
    BY <1>2 DEF Starts
  <2> HIDE DEF q
  <2>3. 0 \in Tiers
    BY NAssumption DEF Tiers
  <2>4. Typed(q)
    BY <1>2, <2>1, <2>3 DEF Typed
  <2>5. Served(q)
    BY <1>2, <2>1, <2>2 DEF Served, Quiet
  <2> QED
    BY <1>1, <2>2, <2>4, <2>5, OneCallReads, Zenon
<1>3. CASE GetBegin(c)
  BY <1>2, <1>3 DEF GetBegin, PCs
<1>4. CASE StatBegin(c)
  BY <1>2, <1>4 DEF StatBegin, PCs
<1>5. CASE DeleteBegin(c)
  BY <1>2, <1>5 DEF DeleteBegin, PCs
<1>6. CASE \E v \in Versions : PutBegin(c, v)
  BY <1>2, <1>6 DEF PutBegin, PCs
<1> QED
  BY <1>3, <1>4, <1>5, <1>6 DEF Begin

\* A call returns, and can still be asked how it ended.
LEMMA EndsOK ==
    ASSUME CInv, NEW c \in Callers, NEW res, NEW v, Ends(c, res, v),
           res = "miss" => ~call[c].led,
           StoreOK', Fuller, cfg' = cfg, written => written'
    PROVE  CInv'
<1>1. PICK s : s = call[c]
  OBVIOUS
<1>2. Typed(s) /\ Served(s)
  BY <1>1 DEF CInv
<1>3. PICK q : q = [s EXCEPT !.pc = "idle", !.res = res, !.v = v]
  OBVIOUS
<1>4. call' = [call EXCEPT ![c] = q]
  BY <1>1, <1>3 DEF Ends
<1>5. /\ DOMAIN q = Fields /\ q.pc = "idle" /\ q.res = res /\ q.i = s.i
      /\ q.led \in BOOLEAN /\ (q.led <=> s.led) /\ q.after \in BOOLEAN /\ (q.after <=> s.after)
  BY <1>2, <1>3 DEF Typed, Fields
<1>6. Typed(q)
  BY <1>2, <1>5 DEF Typed, PCs
<1>7. Served(q)
  BY <1>1, <1>2, <1>5 DEF Served
<1>8. Served(q)'
  BY <1>6, <1>7, StillServed DEF Typed
<1> QED
  BY <1>4, <1>6, <1>8, OneCall, Zenon

\* A call goes on to another place or another tier.
LEMMA MovesOK ==
    ASSUME CInv, NEW c \in Callers, NEW pc \in PCs, NEW i \in Tiers,
           pc \in {"front", "join"} => call[c].res = "none",
           pc \in {"forward", "putFront", "put"} => call[c].v \in Versions,
           pc \in {"read", "put"} => i > 0,
           call[c].led => pc \in {"idle", "read", "forward", "open", "unlink"},
           pc = "delete" => call[c].pc = "delete",
           pc = "put" /\ Quiet => Filled(i)',
           call' = [call EXCEPT ![c] = [@ EXCEPT !.pc = pc, !.i = i]],
           StoreOK', Fuller, cfg' = cfg, written => written'
    PROVE  CInv'
<1>1. PICK s : s = call[c]
  OBVIOUS
<1>2. Typed(s) /\ Served(s)
  BY <1>1 DEF CInv
<1>3. PICK q : q = [s EXCEPT !.pc = pc, !.i = i]
  OBVIOUS
<1>4. call' = [call EXCEPT ![c] = q]
  BY <1>1, <1>3
<1>5. /\ DOMAIN q = Fields /\ q.pc = pc /\ q.res = s.res /\ q.i = i /\ q.v = s.v
      /\ q.led \in BOOLEAN /\ (q.led <=> s.led) /\ q.after \in BOOLEAN /\ (q.after <=> s.after)
  BY <1>2, <1>3 DEF Typed, Fields
<1>6. Typed(q)
  BY <1>1, <1>2, <1>5 DEF Typed
<1>7. Served(s)'
  BY <1>2, StillServed DEF Typed
<1>8. Served(q)'
  <2>1. Quiet' <=> Quiet
    BY DEF Quiet
  <2> QED
    BY <1>1, <1>2, <1>5, <1>7, <2>1 DEF Served
<1> QED
  BY <1>4, <1>6, <1>8, OneCall, Zenon

\* The tiers of a step that only reads them.
LEMMA ReadsOK ==
    ASSUME CInv, UNCHANGED <<cfg, store, pending, written>>
    PROVE  StoreOK' /\ Fuller
BY DEF CInv, StoreOK, Fuller, Quiet, Filled

\* The same where it stays at its tier, or at its place.
LEMMA SamePlace ==
    ASSUME CInv, NEW c \in Callers
    PROVE  /\ \A pc : [call EXCEPT ![c].pc = pc] =
                      [call EXCEPT ![c] = [@ EXCEPT !.pc = pc, !.i = call[c].i]]
           /\ \A i : [call EXCEPT ![c].i = i] =
                     [call EXCEPT ![c] = [@ EXCEPT !.pc = call[c].pc, !.i = i]]
<1>1. PICK s : s = call[c]
  OBVIOUS
<1>2. DOMAIN s = Fields /\ DOMAIN call = Callers
  BY <1>1 DEF CInv, Typed
<1>3. \A pc : [s EXCEPT !.pc = pc] = [s EXCEPT !.pc = pc, !.i = s.i]
  BY <1>2, Zenon DEF Fields
<1>4. \A i : [s EXCEPT !.i = i] = [s EXCEPT !.pc = s.pc, !.i = i]
  BY <1>2, Zenon DEF Fields
<1> QED
  BY <1>1, <1>3, <1>4, Zenon

\* The function of the group returns: a Get that is told of a miss did not
\* begin after a Put had returned, or only waited (chain.go Get).
LEMMA ReturnsOK ==
    ASSUME CInv, NEW c \in Callers, NEW pc \in {"idle", "open"}, NEW res, NEW v, NEW id,
           Returns(c, pc, res, v, id),
           res = "miss" /\ Quiet => ~call[c].after,
           StoreOK', Fuller, cfg' = cfg, written' = written
    PROVE  CInv'
<1>1. ASSUME NEW d \in Callers PROVE Typed(call[d])' /\ Served(call[d])'
  <2>1. PICK s : s = call[d]
    OBVIOUS
  <2>2. Typed(s) /\ Served(s)
    BY <2>1 DEF CInv
  <2>3. PICK q : q = call'[d]
    OBVIOUS
  <2>4. CASE d = c \/ s.pc = "wait"
    <3>1. q = [s EXCEPT !.pc = pc, !.res = res, !.v = v, !.id = id]
      BY <2>1, <2>3, <2>4, Zenon DEF Returns
    <3>2. /\ DOMAIN q = Fields /\ q.pc = pc /\ q.res = res /\ q.i = s.i
          /\ q.led \in BOOLEAN /\ (q.led <=> s.led) /\ q.after \in BOOLEAN /\ (q.after <=> s.after)
      BY <2>2, <3>1 DEF Typed, Fields
    <3>3. Typed(q)
      BY <2>2, <3>2 DEF Typed, PCs
    <3>4. s.led => d = c
      BY <2>2, <2>4 DEF Typed
    <3>5. Served(q)
      BY <2>1, <2>2, <3>2, <3>4 DEF Served
    <3>6. Served(q)'
      BY <3>3, <3>5, StillServed DEF Typed
    <3> QED
      BY <2>3, <3>3, <3>6 DEF Typed
  <2>5. CASE ~(d = c \/ s.pc = "wait")
    <3>1. q = s
      BY <2>1, <2>3, <2>5, Zenon DEF Returns
    <3>2. Served(q)'
      BY <2>2, <3>1, StillServed DEF Typed
    <3> QED
      BY <2>2, <2>3, <3>1, <3>2 DEF Typed
  <2> QED
    BY <2>4, <2>5
<1>2. DOMAIN call' = Callers
  BY Zenon DEF Returns
<1> QED
  BY <1>1, <1>2 DEF CInv

\* The tiers of a step that writes one of them.
LEMMA WritesOK ==
    ASSUME StoreOK, Fuller, cfg' = cfg, written' = written, pending' \subseteq pending
    PROVE  StoreOK'
BY DEF StoreOK, Fuller, Quiet, Filled

\* The steps of a Get (chain.go Get, fault-in under singleflight).
LEMMA GetOK ==
    ASSUME CInv, NEW c \in Callers, cfg' = cfg,
           GetFront(c) \/ GetJoin(c) \/ GetOpen(c) \/ GetUnlink(c)
    PROVE  CInv'
<1>1. UNCHANGED <<cfg, store, pending, written>> /\ StoreOK' /\ Fuller
  BY ReadsOK DEF GetFront, GetJoin, GetOpen, GetUnlink
<1>2. Typed(call[c])
  BY DEF CInv
<1>3. ASSUME NEW pc \in {"join", "wait", "unlink"}, call' = [call EXCEPT ![c].pc = pc],
             call[c].pc \in {"front", "join", "open"}, pc # "unlink" => call[c].pc # "open"
      PROVE  CInv'
  <2>1. call' = [call EXCEPT ![c] = [@ EXCEPT !.pc = pc, !.i = call[c].i]]
    BY <1>3, SamePlace, Zenon
  <2>2. /\ call[c].i \in Tiers /\ (call[c].led => pc = "unlink") /\ pc \in PCs
        /\ pc = "join" => call[c].res = "none"
    BY <1>2, <1>3 DEF Typed, PCs
  <2> QED
    BY <1>1, <2>1, <2>2, MovesOK, Zenon
<1>4. CASE GetFront(c)
  <2>1. CASE Ends(c, "hit", store[0])
    BY <1>1, <2>1, EndsOK
  <2>2. CASE call' = [call EXCEPT ![c].pc = "join"]
    BY <1>3, <1>4, <2>2 DEF GetFront
  <2> QED
    BY <1>4, <2>1, <2>2 DEF GetFront
<1>5. CASE GetJoin(c)
  <2>1. CASE call' = [call EXCEPT ![c] = [@ EXCEPT !.pc = "read", !.i = 1, !.led = TRUE]]
    <3>1. PICK s : s = call[c]
      OBVIOUS
    <3>2. PICK q : q = [s EXCEPT !.pc = "read", !.i = 1, !.led = TRUE]
      OBVIOUS
    <3>3. /\ DOMAIN q = Fields /\ q.pc = "read" /\ q.res = s.res /\ q.i = 1
          /\ q.led \in BOOLEAN /\ q.after \in BOOLEAN /\ (q.after <=> s.after)
      BY <1>2, <3>1, <3>2 DEF Typed, Fields
    <3>4. 1 \in Tiers
      BY NAssumption DEF Tiers
    <3>5. Typed(q)
      BY <3>3, <3>4 DEF Typed, PCs
    <3>6. Served(s) /\ s.res # "miss"
      BY <1>2, <1>5, <3>1 DEF CInv, Typed, GetJoin
    <3>7. Served(q)
      BY <3>3, <3>6 DEF Served
    <3>8. call' = [call EXCEPT ![c] = q]
      BY <2>1, <3>1, <3>2
    <3> QED
      BY <1>1, <3>5, <3>7, <3>8, OneCallReads, Zenon
  <2>2. CASE call' = [call EXCEPT ![c].pc = "wait"]
    BY <1>3, <1>5, <2>2 DEF GetJoin
  <2> QED
    BY <1>5, <2>1, <2>2 DEF GetJoin
<1>6. CASE GetOpen(c)
  BY <1>1, <1>3, <1>6, EndsOK DEF GetOpen
<1>7. CASE GetUnlink(c)
  BY <1>1, <1>7, EndsOK DEF GetUnlink
<1> QED
  BY <1>4, <1>5, <1>6, <1>7

\* The function asks a tier; behind a Put that has returned, all of them have
\* the object.
LEMMA GetTierOK ==
    ASSUME CInv, NEW c \in Callers, cfg' = cfg, GetTier(c)
    PROVE  CInv'
<1>1. UNCHANGED <<cfg, store, pending, written>> /\ StoreOK' /\ Fuller
  BY ReadsOK DEF GetTier
<1>2. PICK s : s = call[c]
  OBVIOUS
<1>3. Typed(s) /\ Served(s) /\ s.pc = "read" /\ s.i \in Tiers /\ s.i > 0
  BY <1>2 DEF CInv, GetTier, Typed
<1>4. CASE /\ store[s.i] # None
           /\ \E id : call' = [call EXCEPT ![c] =
                   [@ EXCEPT !.pc = "forward", !.i = s.i - 1, !.v = store[s.i], !.id = id]]
  <2>1. PICK id : call' = [call EXCEPT ![c] =
                   [@ EXCEPT !.pc = "forward", !.i = s.i - 1, !.v = store[s.i], !.id = id]]
    BY <1>4, Zenon
  <2>2. PICK q : q = [s EXCEPT !.pc = "forward", !.i = s.i - 1, !.v = store[s.i], !.id = id]
    OBVIOUS
  <2>3. /\ DOMAIN q = Fields /\ q.pc = "forward" /\ q.res = s.res /\ q.i = s.i - 1 /\ q.v = store[s.i]
        /\ q.led \in BOOLEAN /\ (q.led <=> s.led) /\ q.after \in BOOLEAN /\ (q.after <=> s.after)
    BY <1>3, <2>2 DEF Typed, Fields
  <2>4. s.i - 1 \in Tiers /\ store[s.i] \in Versions
    BY <1>3, <1>4, NAssumption DEF Tiers, CInv, StoreOK
  <2>5. Typed(q)
    BY <1>3, <2>3, <2>4 DEF Typed, PCs
  <2>6. Served(q)
    BY <1>3, <2>3 DEF Served
  <2>7. call' = [call EXCEPT ![c] = q]
    BY <1>2, <2>1, <2>2
  <2> QED
    BY <1>1, <2>5, <2>6, <2>7, OneCallReads, Zenon
<1>5. CASE s.i + 1 < N /\ call' = [call EXCEPT ![c].i = s.i + 1]
  <2>1. call' = [call EXCEPT ![c] = [@ EXCEPT !.pc = "read", !.i = s.i + 1]]
    <3>1. call' = [call EXCEPT ![c] = [@ EXCEPT !.pc = call[c].pc, !.i = s.i + 1]]
      BY <1>5, SamePlace, Zenon
    <3> QED
      BY <1>2, <1>3, <3>1, Zenon
  <2>2. s.i + 1 \in Tiers /\ s.i + 1 > 0 /\ "read" \in PCs
    BY <1>3, <1>5, NAssumption DEF Tiers, PCs
  <2> QED
    BY <1>1, <2>1, <2>2, MovesOK, Zenon
<1>6. CASE store[s.i] = None /\ Returns(c, "idle", "miss", None, 0)
  <2>1. Quiet => ~call[c].after
    <3>1. Quiet /\ written => Filled(N)
      BY DEF CInv, StoreOK
    <3>2. s.i < N
      BY <1>3, NAssumption DEF Tiers
    <3> QED
      BY <1>2, <1>3, <1>6, <3>1, <3>2 DEF Served, Filled
  <2> QED
    BY <1>1, <1>6, <2>1, ReturnsOK
<1>7. CASE Returns(c, "idle", "error", None, 0)
  BY <1>1, <1>7, ReturnsOK
<1> QED
  BY <1>2, <1>4, <1>5, <1>6, <1>7, Zenon DEF GetTier

\* What it found is written forward.
LEMMA GetForwardOK ==
    ASSUME CInv, NEW c \in Callers, cfg' = cfg, GetForward(c)
    PROVE  CInv'
<1>1. PICK s : s = call[c]
  OBVIOUS
<1>2. Typed(s) /\ Served(s) /\ s.pc = "forward" /\ s.i \in Tiers /\ s.v \in Versions
  BY <1>1 DEF CInv, GetForward, Typed
<1>3. StoreOK' /\ Fuller /\ written' = written
  BY <1>1, <1>2, TierPutOK, WritesOK DEF GetForward, CInv
<1>4. CASE s.i > 0 /\ call' = [call EXCEPT ![c].i = @ - 1]
  <2>1. call' = [call EXCEPT ![c].i = s.i - 1]
    BY <1>1, <1>4
  <2>2. call' = [call EXCEPT ![c] = [@ EXCEPT !.pc = "forward", !.i = s.i - 1]]
    <3>1. call' = [call EXCEPT ![c] = [@ EXCEPT !.pc = call[c].pc, !.i = s.i - 1]]
      BY <2>1, SamePlace, Zenon
    <3> QED
      BY <1>1, <1>2, <3>1, Zenon
  <2>3. s.i - 1 \in Tiers /\ "forward" \in PCs
    BY <1>2, <1>4, NAssumption DEF Tiers, PCs
  <2> QED
    BY <1>1, <1>2, <1>3, <2>2, <2>3, MovesOK, Zenon
<1>5. CASE Returns(c, "idle", "hit", s.v, 0)
  BY <1>3, <1>5, ReturnsOK
<1>6. CASE Returns(c, "open", "none", s.v, s.id)
  BY <1>3, <1>6, ReturnsOK
<1> QED
  BY <1>1, <1>4, <1>5, <1>6 DEF GetForward

\* The steps of a Put (chain.go Put).
LEMMA PutFrontOK ==
    ASSUME CInv, NEW c \in Callers, cfg' = cfg, PutFront(c)
    PROVE  CInv'
<1>1. PICK s : s = call[c]
  OBVIOUS
<1>2. Typed(s) /\ s.pc = "putFront" /\ s.v \in Versions /\ 0 \in Tiers /\ 1 \in Tiers
  BY <1>1, NAssumption DEF CInv, PutFront, Typed, Tiers
<1>3. written' = written /\ pending' = pending
  BY DEF PutFront
<1>4. CASE Ends(c, "error", None) /\ UNCHANGED store
  BY <1>3, <1>4, ReadsOK, EndsOK
<1>5. CASE /\ store' = [store EXCEPT ![0] = IF cfg.Immutable /\ @ # None THEN @ ELSE s.v]
           /\ call' = [call EXCEPT ![c] = [@ EXCEPT !.pc = "put", !.i = 1]]
  <2>1. TierPut(0, s.v)
    BY <1>5 DEF TierPut
  <2>2. StoreOK' /\ Fuller
    BY <1>2, <1>3, <2>1, TierPutOK, WritesOK DEF CInv
  <2>3. Filled(1)' /\ "put" \in PCs /\ ~s.led
    BY <1>2, NAssumption DEF Filled, PCs, Typed, Tiers
  <2>4. s.v \in Versions /\ 1 > 0
    BY <1>2
  <2> QED
    BY <1>1, <1>2, <1>3, <1>5, <2>2, <2>3, <2>4, MovesOK, Zenon
<1> QED
  BY <1>1, <1>4, <1>5 DEF PutFront

\* While all is quiet the Put fills one tier more, and when it has filled the
\* last it returns.
LEMMA PutBehindOK ==
    ASSUME CInv, NEW c \in Callers, cfg' = cfg, PutBehind(c)
    PROVE  CInv'
<1>1. PICK s : s = call[c]
  OBVIOUS
<1>2. Typed(s) /\ Served(s) /\ s.pc = "put" /\ s.i \in Tiers /\ s.i > 0 /\ s.v \in Versions /\ ~s.led
  BY <1>1 DEF CInv, PutBehind, Typed
<1>3. /\ Fuller
      /\ \A p \in pending' : p[1] \in Tiers /\ p[1] > 0 /\ p[2] \in Versions
      /\ Quiet => pending' = {} /\ store'[s.i] # None
  <2>1. CASE ~cfg.WriteBehind /\ TierPut(s.i, s.v) /\ UNCHANGED pending
    BY <1>2, <2>1, TierPutOK DEF CInv, StoreOK
  <2>2. CASE cfg.WriteBehind /\ pending' \subseteq pending \cup {<<s.i, s.v>>} /\ UNCHANGED store
    <3>1. ~Quiet
      BY <2>2 DEF Quiet
    <3>2. Fuller
      BY <2>2, <3>1 DEF Fuller, CInv, StoreOK
    <3>3. <<s.i, s.v>>[1] = s.i /\ <<s.i, s.v>>[2] = s.v
      OBVIOUS
    <3>4. \A p \in pending' : p \in pending \/ p = <<s.i, s.v>>
      BY <2>2
    <3> QED
      BY <1>2, <3>1, <3>2, <3>3, <3>4, Zenon DEF CInv, StoreOK
  <2> QED
    BY <1>1, <2>1, <2>2 DEF PutBehind
<1>4. Quiet => Filled(s.i + 1)'
  <2>1. \A j \in Tiers : j < s.i + 1 => j < s.i \/ j = s.i
    BY <1>2, NAssumption DEF Tiers
  <2> QED
    BY <1>2, <1>3, <2>1 DEF Served, Filled, Fuller
<1>5. CASE s.i + 1 < N /\ call' = [call EXCEPT ![c].i = s.i + 1] /\ UNCHANGED written
  <2>1. StoreOK'
    BY <1>3, <1>5 DEF CInv, StoreOK, Fuller, Quiet, Filled
  <2>2. call' = [call EXCEPT ![c] = [@ EXCEPT !.pc = "put", !.i = s.i + 1]]
    <3>1. call' = [call EXCEPT ![c] = [@ EXCEPT !.pc = call[c].pc, !.i = s.i + 1]]
      BY <1>5, SamePlace, Zenon
    <3> QED
      BY <1>1, <1>2, <3>1, Zenon
  <2>3. s.i + 1 \in Tiers /\ s.i + 1 > 0 /\ "put" \in PCs
    BY <1>2, <1>5, NAssumption DEF Tiers, PCs
  <2> QED
    BY <1>1, <1>2, <1>3, <1>4, <1>5, <2>1, <2>2, <2>3, MovesOK, Zenon
<1>6. CASE ~(s.i + 1 < N) /\ Ends(c, "ok", None) /\ written' = TRUE
  <2>1. s.i + 1 = N
    BY <1>2, <1>6, NAssumption DEF Tiers
  <2>2. Quiet' => Filled(N)'
    BY <1>4, <2>1 DEF Quiet
  <2>3. StoreOK'
    BY <1>3, <1>6, <2>2 DEF StoreOK, Fuller, Quiet
  <2> QED
    BY <1>3, <1>6, <2>3, EndsOK
<1> QED
  BY <1>1, <1>5, <1>6, Zenon DEF PutBehind

\* The steps of a Stat (chain.go Stat).
LEMMA StatTierOK ==
    ASSUME CInv, NEW c \in Callers, cfg' = cfg, StatTier(c)
    PROVE  CInv'
<1>1. UNCHANGED <<cfg, store, pending, written>> /\ StoreOK' /\ Fuller
  BY ReadsOK DEF StatTier
<1>2. PICK s : s = call[c]
  OBVIOUS
<1>3. Typed(s) /\ s.pc = "stat" /\ s.i \in Tiers /\ ~s.led
  BY <1>2 DEF CInv, StatTier, Typed
<1>4. CASE \E res, v : Ends(c, res, v)
  BY <1>1, <1>2, <1>3, <1>4, EndsOK
<1>5. CASE s.i + 1 < N /\ call' = [call EXCEPT ![c].i = s.i + 1]
  <2>1. call' = [call EXCEPT ![c] = [@ EXCEPT !.pc = "stat", !.i = s.i + 1]]
    <3>1. call' = [call EXCEPT ![c] = [@ EXCEPT !.pc = call[c].pc, !.i = s.i + 1]]
      BY <1>5, SamePlace, Zenon
    <3> QED
      BY <1>2, <1>3, <3>1, Zenon
  <2>2. s.i + 1 \in Tiers /\ "stat" \in PCs
    BY <1>3, <1>5, NAssumption DEF Tiers, PCs
  <2> QED
    BY <1>1, <1>2, <1>3, <2>1, <2>2, MovesOK, Zenon
<1> QED
  BY <1>2, <1>4, <1>5 DEF StatTier

\* The steps of a Delete (chain.go Delete): there is none while all is quiet.
LEMMA DeleteTierOK ==
    ASSUME CInv, NEW c \in Callers, cfg' = cfg, DeleteTier(c)
    PROVE  CInv'
<1>1. PICK s : s = call[c]
  OBVIOUS
<1>2. Typed(s) /\ s.pc = "delete" /\ s.i \in Tiers /\ ~s.led /\ ~Quiet
  BY <1>1 DEF CInv, DeleteTier, Typed, Served
<1>3. UNCHANGED <<pending, written>> /\ store' \in [Tiers -> Versions \cup {None}]
  <2>1. store' = store \/ store' = [store EXCEPT ![s.i] = None]
    BY <1>1 DEF DeleteTier
  <2> QED
    BY <1>2, <2>1, Zenon DEF CInv, StoreOK, DeleteTier
<1>4. StoreOK' /\ Fuller
  BY <1>2, <1>3 DEF CInv, StoreOK, Fuller, Quiet
<1>5. CASE \E res \in {"error", "deleted"} : Ends(c, res, None)
  BY <1>3, <1>4, <1>5, EndsOK
<1>6. CASE s.i + 1 < N /\ \E res : call' = [call EXCEPT ![c] = [@ EXCEPT !.i = s.i + 1, !.res = res]]
  <2>1. PICK res : call' = [call EXCEPT ![c] = [@ EXCEPT !.i = s.i + 1, !.res = res]]
    BY <1>6, Zenon
  <2>2. PICK q : q = [s EXCEPT !.i = s.i + 1, !.res = res]
    OBVIOUS
  <2>3. /\ DOMAIN q = Fields /\ q.pc = "delete" /\ q.i = s.i + 1
        /\ q.led \in BOOLEAN /\ (q.led <=> s.led) /\ q.after \in BOOLEAN
    BY <1>2, <2>2 DEF Typed, Fields
  <2>4. s.i + 1 \in Tiers
    BY <1>2, <1>6, NAssumption DEF Tiers
  <2>5. Typed(q) /\ Served(q)'
    BY <1>2, <2>3, <2>4 DEF Typed, PCs, Served, Quiet
  <2>6. call' = [call EXCEPT ![c] = q]
    BY <1>1, <2>1, <2>2
  <2> QED
    BY <1>3, <1>4, <2>5, <2>6, OneCall, Zenon
<1> QED
  BY <1>1, <1>5, <1>6, Zenon DEF DeleteTier

\* A worker of the write-behind queue uploads (queue.go flush), and a tier
\* drops an object on its own.
LEMMA UploadOK ==
    ASSUME CInv, NEW p \in pending, cfg' = cfg, Upload(p)
    PROVE  CInv'
<1>1. p[1] \in Tiers /\ p[2] \in Versions /\ StoreOK
  BY DEF CInv, StoreOK
<1>2. Fuller
  BY <1>1, TierPutOK DEF Upload
<1>3. StoreOK'
  BY <1>1, <1>2, WritesOK DEF Upload
<1> QED
  BY <1>2, <1>3, NobodyMoves DEF Upload

\* An eviction only makes a store emptier.
LEMMA EvictOK ==
    ASSUME CInv, NEW i \in Tiers, cfg' = cfg, Evict(i)
    PROVE  CInv'
<1>1. Fuller
  BY DEF CInv, StoreOK, Fuller, Evict, Quiet
<1>2. StoreOK'
  BY <1>1, WritesOK DEF Evict, CInv
<1> QED
  BY <1>1, <1>2, NobodyMoves DEF Evict

\* Every step keeps the invariant.
LEMMA ChainStepOK ==
    ASSUME CInv, [Next]_vars
    PROVE  CInv'
<1>1. ASSUME NEW c \in Callers, Begin(c) PROVE CInv'
  BY <1>1, BeginOK
<1>2. ASSUME NEW c \in Callers, Step(c) PROVE CInv'
  BY <1>2, GetOK, GetTierOK, GetForwardOK, PutFrontOK, PutBehindOK, StatTierOK, DeleteTierOK DEF Step
<1>3. ASSUME NEW p \in pending, Upload(p), cfg' = cfg PROVE CInv'
  BY <1>3, UploadOK
<1>4. ASSUME NEW i \in Tiers, Evict(i), cfg' = cfg PROVE CInv'
  BY <1>4, EvictOK
<1>5. CASE UNCHANGED vars
  BY <1>5, ReadsOK, NobodyMoves DEF vars
<1> QED
  BY <1>1, <1>2, <1>3, <1>4, <1>5 DEF Next

\* The tiers and the calls are as the invariant says in every state.
THEOREM Invariant == Spec => []CInv
<1>1. Init => CInv
  <2> SUFFICES ASSUME Init PROVE CInv
    OBVIOUS
  <2>1. StoreOK
    BY VersionsAssumption, Zenon DEF Init, StoreOK
  <2>2. ASSUME NEW c \in Callers PROVE Typed(call[c]) /\ Served(call[c])
    <3>1. 0 \in Tiers /\ call[c] = Idle("none")
      BY NAssumption DEF Tiers, Init
    <3>2. PICK q : q = Idle("none")
      OBVIOUS
    <3>3. /\ DOMAIN q = Fields /\ q.pc = "idle" /\ q.i = 0
          /\ q.led \in BOOLEAN /\ ~q.led /\ q.after \in BOOLEAN /\ ~q.after
      BY <3>2 DEF Idle, Fields
    <3>4. Typed(q) /\ Served(q)
      BY <3>1, <3>3 DEF Typed, Served, PCs
    <3> QED
      BY <3>1, <3>2, <3>4
  <2> QED
    BY <2>1, <2>2 DEF CInv, Init
<1>2. CInv /\ [Next]_vars => CInv'
  BY ChainStepOK
<1> QED
  BY <1>1, <1>2, PTL DEF Spec

\* While no tier fails or deletes and only the front one evicts, a Get that
\* begins after a Put has returned nil and reads the tiers behind itself finds
\* an object (chain.go Put, Get): however many tiers there are, and however
\* many Puts and Gets are under way.
THEOREM PutsAreFound == Spec => []CompletedPutFound
<1>1. CInv => CompletedPutFound
  BY DEF CInv, Served, Quiet, CompletedPutFound
<1> QED
  BY <1>1, Invariant, PTL

-----------------------------------------------------------------------------
(* Temp files.                                                             *)

\* Who is to remove a file goes on to do so, or the file goes.
LEMMA HoldersStay ==
    ASSUME FInv, files' \subseteq files,
           \A d \in Callers : \A f \in files' : Holds(d, f) => Holds(d, f)'
    PROVE  FInv'
BY DEF FInv, TempRemoved, Holds

\* The call that moves has no file to remove.
LEMMA EmptyHandsMove ==
    ASSUME FInv, NEW c \in Callers, files' = files,
           \A d \in Callers \ {c} : call'[d] = call[d],
           call[c].pc \notin {"forward", "open", "unlink"}
    PROVE  FInv'
<1>1. \A d \in Callers : \A f \in files' : Holds(d, f) => Holds(d, f)'
  BY DEF Holds
<1> QED
  BY <1>1, HoldersStay

\* The function returns, and whoever waited holds what it holds.
LEMMA ReturnsHold ==
    ASSUME CInv, FInv, NEW c \in Callers, NEW pc, NEW res, NEW v, NEW id,
           Returns(c, pc, res, v, id), files' = files,
           \A f \in files : Holds(c, f) => pc = "open" /\ id = f
    PROVE  FInv'
<1>1. ASSUME NEW d \in Callers, NEW f \in files', Holds(d, f) PROVE Holds(d, f)'
  <2>1. PICK s : s = call[d]
    OBVIOUS
  <2>2. PICK q : q = call'[d]
    OBVIOUS
  <2>3. DOMAIN s = Fields
    BY <2>1 DEF CInv, Typed
  <2>4. CASE d = c
    <3>1. q = [s EXCEPT !.pc = pc, !.res = res, !.v = v, !.id = id]
      BY <2>1, <2>2, <2>4, Zenon DEF Returns
    <3>2. q.pc = pc /\ q.id = id
      BY <2>3, <3>1 DEF Fields
    <3> QED
      BY <1>1, <2>2, <2>4, <3>2 DEF Holds
  <2>5. CASE d # c
    <3>1. q = s
      BY <1>1, <2>1, <2>2, <2>5, Zenon DEF Returns, Holds
    <3> QED
      BY <1>1, <2>1, <2>2, <3>1 DEF Holds
  <2> QED
    BY <2>4, <2>5
<1> QED
  BY <1>1, HoldersStay

\* A tier answers with a body that does not go through memory, and the
\* function writes it to a file (chain.go Get).
LEMMA GetTierHolds ==
    ASSUME CInv, FInv, NEW c \in Callers, GetTier(c)
    PROVE  FInv'
<1>1. PICK s : s = call[c]
  OBVIOUS
<1>2. DOMAIN s = Fields /\ s.pc = "read" /\ DOMAIN call = Callers
  BY <1>1 DEF CInv, Typed, GetTier
<1>3. ASSUME NEW id, files' = files \cup ({id} \ {0}),
             call' = [call EXCEPT ![c] =
                [@ EXCEPT !.pc = "forward", !.i = s.i - 1, !.v = store[s.i], !.id = id]]
      PROVE  FInv'
  <2>1. PICK q : q = [s EXCEPT !.pc = "forward", !.i = s.i - 1, !.v = store[s.i], !.id = id]
    OBVIOUS
  <2>2. q.pc = "forward" /\ q.id = id
    BY <1>2, <2>1 DEF Fields
  <2>3. call'[c] = q /\ \A d \in Callers \ {c} : call'[d] = call[d]
    BY <1>1, <1>2, <1>3, <2>1
  <2>4. Holds(c, id)'
    BY <2>2, <2>3 DEF Holds
  <2>5. \A d \in Callers, f \in files : Holds(d, f) => Holds(d, f)'
    BY <1>1, <1>2, <2>3 DEF Holds
  <2> QED
    BY <1>3, <2>4, <2>5 DEF FInv, TempRemoved, Holds
<1>4. CASE call' = [call EXCEPT ![c].i = s.i + 1] /\ UNCHANGED files
  <2>1. \A d \in Callers \ {c} : call'[d] = call[d]
    BY <1>2, <1>4
  <2> QED
    BY <1>1, <1>2, <1>4, <2>1, EmptyHandsMove
<1>5. CASE UNCHANGED files /\ \E res : Returns(c, "idle", res, None, 0)
  BY <1>1, <1>2, <1>5, ReturnsHold DEF Holds
<1> QED
  BY <1>1, <1>3, <1>4, <1>5, Zenon DEF GetTier

\* The file goes from the function to all the Gets that share its result, and
\* each of them removes it (chain.go Get).
LEMMA GetFileHolds ==
    ASSUME CInv, FInv, NEW c \in Callers, GetForward(c) \/ GetOpen(c) \/ GetUnlink(c)
    PROVE  FInv'
<1>1. PICK s : s = call[c]
  OBVIOUS
<1>2. DOMAIN s = Fields /\ DOMAIN call = Callers
  BY <1>1 DEF CInv, Typed
<1>3. ASSUME NEW q, call' = [call EXCEPT ![c] = q], q.pc \in {"forward", "unlink"}, q.id = s.id, files' = files
      PROVE  FInv'
  <2>1. call'[c] = q /\ \A d \in Callers \ {c} : call'[d] = call[d]
    BY <1>2, <1>3
  <2>2. \A d \in Callers : \A f \in files' : Holds(d, f) => Holds(d, f)'
    BY <1>1, <1>3, <2>1 DEF Holds
  <2> QED
    BY <1>3, <2>2, HoldersStay
<1>4. ASSUME NEW res, NEW v, Ends(c, res, v), files' = files \ {s.id}
      PROVE  FInv'
  <2>1. \A d \in Callers \ {c} : call'[d] = call[d]
    BY <1>2, <1>4 DEF Ends
  <2>2. \A d \in Callers : \A f \in files' : Holds(d, f) => Holds(d, f)'
    BY <1>1, <1>4, <2>1 DEF Holds
  <2> QED
    BY <1>4, <2>2, HoldersStay
<1>5. CASE GetForward(c)
  <2>1. CASE s.i > 0
    <3>1. PICK q : q = [s EXCEPT !.i = s.i - 1]
      BY Zenon
    <3>2. q.pc = "forward" /\ q.id = s.id
      BY <1>1, <1>2, <1>5, <3>1 DEF GetForward, Fields
    <3>3. call' = [call EXCEPT ![c] = q]
      BY <1>1, <1>2, <1>5, <2>1, <3>1 DEF GetForward
    <3> QED
      BY <1>3, <1>5, <3>2, <3>3, Zenon DEF GetForward
  <2>2. CASE Returns(c, "idle", "hit", s.v, 0) /\ s.id = 0
    <3>1. \A f \in files : ~Holds(c, f)
      BY <1>1, <2>2 DEF Holds, FInv
    <3> QED
      BY <1>5, <2>2, <3>1, ReturnsHold DEF GetForward
  <2>3. CASE Returns(c, "open", "none", s.v, s.id)
    BY <1>1, <1>5, <2>3, ReturnsHold DEF GetForward, Holds
  <2> QED
    BY <1>1, <1>5, <2>1, <2>2, <2>3 DEF GetForward
<1>6. CASE GetOpen(c)
  <2>1. CASE s.id \in files
    <3>1. PICK q : q = [s EXCEPT !.pc = "unlink"]
      BY Zenon
    <3>2. q.pc = "unlink" /\ q.id = s.id
      BY <1>2, <3>1 DEF Fields
    <3>3. call' = [call EXCEPT ![c] = q]
      BY <1>1, <1>6, <2>1, <3>1 DEF GetOpen
    <3> QED
      BY <1>3, <1>6, <3>2, <3>3, Zenon DEF GetOpen
  <2>2. CASE s.id \notin files
    <3>1. files' = files \ {s.id} /\ Ends(c, "error", None)
      BY <1>1, <1>6, <2>2 DEF GetOpen
    <3> QED
      BY <1>4, <3>1
  <2> QED
    BY <2>1, <2>2
<1>7. CASE GetUnlink(c)
  BY <1>1, <1>4, <1>7 DEF GetUnlink
<1> QED
  BY <1>5, <1>6, <1>7

\* A file of a fault-in is there only while some Get will open it or remove it
\* (chain.go Get): none is left behind, whoever shares the read and
\* however it ends.
THEOREM FilesAreRemoved == Spec => []TempRemoved
<1>1. Init => FInv
  BY DEF Init, FInv, TempRemoved
<1>2. CInv /\ FInv /\ [Next]_vars => FInv'
  <2> SUFFICES ASSUME CInv, FInv, [Next]_vars PROVE FInv'
    OBVIOUS
  <2>1. DOMAIN call = Callers
    BY DEF CInv
  <2>2. ASSUME NEW c \in Callers, Begin(c) PROVE FInv'
    <3>1. files' = files /\ call[c].pc = "idle" /\ \A d \in Callers \ {c} : call'[d] = call[d]
      BY <2>1, <2>2, Zenon DEF Begin, GetBegin, StatBegin, DeleteBegin, PutBegin, Starts
    <3> QED
      BY <3>1, EmptyHandsMove
  <2>3. ASSUME NEW c \in Callers,
               GetFront(c) \/ GetJoin(c) \/ PutFront(c) \/ PutBehind(c) \/ StatTier(c) \/ DeleteTier(c)
        PROVE  FInv'
    <3>1. files' = files /\ call[c].pc \notin {"forward", "open", "unlink"}
      BY <2>3, Zenon DEF GetFront, GetJoin, PutFront, PutBehind, StatTier, DeleteTier
    <3>2. \A d \in Callers \ {c} : call'[d] = call[d]
      BY <2>1, <2>3, Zenon DEF GetFront, GetJoin, PutFront, PutBehind, StatTier, DeleteTier, Ends
    <3> QED
      BY <3>1, <3>2, EmptyHandsMove
  <2>4. ASSUME NEW c \in Callers, Step(c) PROVE FInv'
    BY <2>3, <2>4, GetTierHolds, GetFileHolds DEF Step
  <2>5. CASE UNCHANGED <<files, call>>
    BY <2>5 DEF FInv, TempRemoved
  <2> QED
    BY <2>2, <2>4, <2>5 DEF Next, Upload, Evict, vars
<1>3. FInv => TempRemoved
  BY DEF FInv
<1> QED
  BY <1>1, <1>2, <1>3, Invariant, PTL DEF Spec
=============================================================================
