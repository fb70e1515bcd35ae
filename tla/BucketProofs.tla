---------------------------- MODULE BucketProofs ----------------------------
(***************************************************************************)
(* Theorems about the bucket tier and the encodings of an object's         *)
(* metadata, for any callers, objects, stores and numbers of attempts.     *)
(***************************************************************************)
EXTENDS Bucket, FiniteSetTheorems, TLAPS

-----------------------------------------------------------------------------
(* Encodings.                                                              *)

\* A message carries metadata to the server unchanged, and back.
LEMMA MessageExact == ASSUME NEW m \in Meta PROVE Received(m) = m /\ Served(m) = m
<1>1. m = [Size |-> m.Size, ModTime |-> m.ModTime, ContentType |-> m.ContentType,
           Immutable |-> m.Immutable]
  BY DEF Meta
<1>2. <<m.ModTime>> # <<>> /\ <<m.ModTime>>[1] = m.ModTime
  OBVIOUS
<1>3. Received(m) = m
  BY <1>1, <1>2 DEF Received, serverFromProto, remoteToProto
<1>4. Served(m) = m
  BY <1>1, <1>2 DEF Served, remoteFromProto, serverToProto
<1> QED
  BY <1>3, <1>4

\* So does the header of a file, with the length of the body that follows.
LEMMA HeaderExact ==
    ASSUME NEW m \in Meta, NEW n \in Nat
    PROVE  /\ encodeHeader(m, n) \in Meta
           /\ metaOf(encodeHeader(m, n)) = encodeHeader(m, n)
  BY DEF Meta, encodeHeader, metaOf

\* What is in the user metadata of an object, under the names as sent.
LEMMA Encoded ==
    ASSUME NEW m \in Meta
    PROVE  LET md == metadataFor(m)
               t == <<metaModTime, "sent">>
               i == <<metaImmutable, "sent">>
           IN  /\ DOMAIN md \subseteq {t, i}
               /\ t \in DOMAIN md <=> m.ModTime # 0
               /\ i \in DOMAIN md <=> m.Immutable
               /\ m.ModTime # 0 => md[t] = <<"time", m.ModTime>>
               /\ m.Immutable => md[i] = <<"true">>
<1> DEFINE t == <<metaModTime, "sent">>
           i == <<metaImmutable, "sent">>
           dom == (IF m.ModTime # 0 THEN {t} ELSE {}) \cup (IF m.Immutable THEN {i} ELSE {})
<1>1. t # i /\ t[1] = metaModTime /\ i[1] # metaModTime
  BY DEF metaModTime, metaImmutable
<1>2. metadataFor(m) = [k \in dom |-> IF k[1] = metaModTime THEN <<"time", m.ModTime>> ELSE <<"true">>]
  BY DEF metadataFor
<1>3. DOMAIN metadataFor(m) = dom
  BY <1>2
<1>4. dom \subseteq {t, i} /\ (t \in dom <=> m.ModTime # 0) /\ (i \in dom <=> m.Immutable)
  BY <1>1
<1>5. m.ModTime # 0 => metadataFor(m)[t] = <<"time", m.ModTime>>
  BY <1>1, <1>2, <1>4
<1>6. m.Immutable => metadataFor(m)[i] = <<"true">>
  BY <1>1, <1>2, <1>4
<1> QED
  BY <1>3, <1>4, <1>5, <1>6

\* It is found again under whichever spelling the store gives the names.
LEMMA Decoded ==
    ASSUME NEW m \in Meta, NEW spelling \in Spellings
    PROVE  LET md == Spelled(metadataFor(m), spelling)
           IN  /\ lookup(md, metaModTime) =
                     IF m.ModTime # 0 THEN <<"time", m.ModTime>> ELSE <<>>
               /\ lookup(md, metaImmutable) = IF m.Immutable THEN <<"true">> ELSE <<>>
<1> DEFINE at == <<metaModTime, "sent">>
           ai == <<metaImmutable, "sent">>
           t == <<metaModTime, spelling>>
           i == <<metaImmutable, spelling>>
           md == metadataFor(m)
           sd == Spelled(md, spelling)
<1>1. metaModTime # metaImmutable
  BY DEF metaModTime, metaImmutable
<1>2. DOMAIN sd = {<<k[1], spelling>> : k \in DOMAIN md}
  BY DEF Spelled
<1>3. /\ DOMAIN md \subseteq {at, ai}
      /\ at \in DOMAIN md <=> m.ModTime # 0
      /\ ai \in DOMAIN md <=> m.Immutable
      /\ m.ModTime # 0 => md[at] = <<"time", m.ModTime>>
      /\ m.Immutable => md[ai] = <<"true">>
  BY Encoded
<1>4. /\ DOMAIN sd \subseteq {t, i}
      /\ t \in DOMAIN sd <=> m.ModTime # 0
      /\ i \in DOMAIN sd <=> m.Immutable
  <2>1. at[1] = metaModTime /\ ai[1] = metaImmutable
    OBVIOUS
  <2>2. t # i
    BY <1>1
  <2> HIDE DEF md, sd
  <2> QED
    BY <1>2, <1>3, <2>1, <2>2, Zenon
<1>5. /\ t \in DOMAIN sd => sd[t] = md[at]
      /\ i \in DOMAIN sd => sd[i] = md[ai]
  <2>1. \A n \in {<<k[1], spelling>> : k \in DOMAIN md} : sd[n] = md[<<n[1], "sent">>]
    BY DEF Spelled
  <2>2. t[1] = metaModTime /\ i[1] = metaImmutable
    OBVIOUS
  <2> HIDE DEF md, sd
  <2> QED
    BY <1>2, <2>1, <2>2
<1>6. ASSUME NEW x \in {t, i}, x \in DOMAIN sd PROVE lookup(sd, x[1]) = sd[x]
  <2>1. \A k \in DOMAIN sd : k[1] = x[1] => k = x
    BY <1>1, <1>4
  <2>2. CASE spelling = "sent"
    <3>1. <<x[1], "sent">> = x
      BY <2>2
    <3> QED
      BY <1>6, <3>1 DEF lookup
  <2>3. CASE spelling # "sent"
    <3>1. <<x[1], "sent">> \notin DOMAIN sd
      BY <1>4, <2>3
    <3>2. (CHOOSE k \in DOMAIN sd : k[1] = x[1]) = x
      BY <1>6, <2>1
    <3> HIDE DEF sd
    <3> QED
      BY <1>6, <3>1, <3>2, Zenon DEF lookup
  <2> QED
    BY <2>2, <2>3
<1>7. ASSUME NEW x \in {t, i}, x \notin DOMAIN sd PROVE lookup(sd, x[1]) = <<>>
  <2>1. \A k \in DOMAIN sd : k[1] # x[1]
    BY <1>1, <1>4, <1>7
  <2>2. <<x[1], "sent">>[1] = x[1]
    OBVIOUS
  <2>3. <<x[1], "sent">> \notin DOMAIN sd
    BY <2>1, <2>2
  <2> HIDE DEF sd
  <2> QED
    BY <2>1, <2>3 DEF lookup
<1>8. t[1] = metaModTime /\ i[1] = metaImmutable
  OBVIOUS
<1> HIDE DEF md, sd
<1>9. lookup(sd, metaModTime) = IF m.ModTime # 0 THEN <<"time", m.ModTime>> ELSE <<>>
  BY <1>3, <1>4, <1>5, <1>6, <1>7, <1>8
<1>10. lookup(sd, metaImmutable) = IF m.Immutable THEN <<"true">> ELSE <<>>
  BY <1>3, <1>4, <1>5, <1>6, <1>7, <1>8
<1> QED
  BY <1>9, <1>10 DEF sd, md

\* An object comes back from the bucket with the metadata it was put with,
\* save for the zero time, which becomes the store's (bucket.go metadataFor,
\* lookup, metaFrom).
THEOREM BucketExact ==
    ASSUME NEW m \in Meta, NEW spelling \in Spellings, NEW type, NEW len \in Nat
    PROVE  metaFrom(Spelled(metadataFor(m), spelling), type, len, StoreTime) =
               [Size |-> len, ContentType |-> type,
                ModTime |-> IF m.ModTime = 0 THEN StoreTime ELSE m.ModTime,
                Immutable |-> m.Immutable]
<1> DEFINE md == Spelled(metadataFor(m), spelling)
<1>1. /\ lookup(md, metaModTime) = IF m.ModTime # 0 THEN <<"time", m.ModTime>> ELSE <<>>
      /\ lookup(md, metaImmutable) = IF m.Immutable THEN <<"true">> ELSE <<>>
  BY Decoded
<1> HIDE DEF md
<1>2. (lookup(md, metaImmutable) = <<"true">>) = m.Immutable
  BY <1>1 DEF Meta
<1>3. LET v == lookup(md, metaModTime)
          x == IF v # <<>> THEN v[2] ELSE 0
      IN  (IF x = 0 THEN StoreTime ELSE x) = IF m.ModTime = 0 THEN StoreTime ELSE m.ModTime
  BY <1>1 DEF Meta
<1>4. metaFrom(md, type, len, StoreTime) =
               [Size |-> len, ContentType |-> type,
                ModTime |-> IF m.ModTime = 0 THEN StoreTime ELSE m.ModTime,
                Immutable |-> m.Immutable]
  BY <1>2, <1>3 DEF metaFrom
<1> QED
  BY <1>4 DEF md

-----------------------------------------------------------------------------
(* The inductive invariant.                                                *)

Calls == [pc : Pcs, op : Ops, res : Results, by : Callers \cup {"nobody", "foreign"},
          len : Nat, meta : Meta, n : Nat, left : 0 .. MaxAttempts]

\* The bucket holds nothing, an object of somebody else, or what a caller put
\* from a body that was read to its end.
StoreTrue ==
    \/ store \in {Absent, Foreign}
    \/ \E b \in Callers : store = Sent(b) /\ Source(b).whole

\* The tier in front holds nothing, or a copy with the right header.
DiskTrue ==
    \/ disk = Absent
    \/ /\ disk.by \in Callers \cup {"foreign"} /\ disk.header \in Meta
       /\ Kept(disk.by, disk.header)

\* The call is at a step of its own operation.
InStep(c) ==
    /\ call[c].pc \in {"stage", "copy", "send"} => call[c].op = "put"
    /\ At(c, "ask") => call[c].op \in {"get", "stat"}
    /\ At(c, "delete") => call[c].op = "delete"
    /\ call[c].pc \in {"body", "closed"} => call[c].op = "get" /\ call[c].res = "nil"
    /\ At(c, "copy") => Source(c).len >= spillThreshold
    /\ At(c, "send") => Source(c).whole
    /\ At(c, "bytes") => call[c].op = "put"

\* A call that was given an object has its metadata, and no more than its bytes.
Given(c) ==
    call[c].op \in {"get", "stat"} /\ Answered(c) /\ call[c].res = "nil" =>
        /\ call[c].by \in Callers \cup {"foreign"}
        /\ Kept(call[c].by, call[c].meta)
        /\ call[c].meta.Size = call[c].len
        /\ call[c].n <= call[c].len

\* The staged file of a call.
Staged(c) ==
    c \in temps <=>
        \/ At(c, "copy")
        \/ At(c, "send") /\ Source(c).len >= spillThreshold

\* What the call was told was so at a moment of the call.
Told(c) ==
    /\ call[c].op = "put" /\ Answered(c) /\ call[c].res = "nil" => c \in was[c]
    /\ call[c].op = "put" /\ Answered(c) /\ call[c].res = "exists" => was[c] \ {"nobody"} # {}
    /\ Answered(c) /\ call[c].res = "notfound" => "nobody" \in was[c]

CallOK(c) == InStep(c) /\ Given(c) /\ Staged(c) /\ Told(c)

Shape ==
    /\ cfg \in Configs /\ call \in [Callers -> Calls]
    /\ made \in [Callers -> 0 .. MaxCalls] /\ temps \subseteq Callers
    /\ DOMAIN was = Callers

IInv == Shape /\ StoreTrue /\ DiskTrue /\ \A c \in Callers : CallOK(c)

-----------------------------------------------------------------------------
(* Metadata of objects.                                                    *)

\* What a caller puts.
LEMMA SourceTyped ==
    ASSUME cfg \in Configs, NEW c \in Callers
    PROVE  Source(c) \in [meta : Meta, len : Nat, whole : BOOLEAN]
  BY BucketConfigs DEF Source

\* The metadata in the bucket of what a caller has put.
LEMMA SentKept ==
    ASSUME cfg \in Configs, NEW b \in Callers
    PROVE  LET m == metaFrom(Sent(b).md, Sent(b).type, Sent(b).len, StoreTime)
           IN  m \in Meta /\ Kept(b, m) /\ m.Size = Sent(b).len /\ Sent(b).len \in Nat
<1> DEFINE p == Source(b).meta
           type == IF p.ContentType # "" THEN p.ContentType ELSE StoreType
           len == Source(b).len
<1>1. p \in Meta /\ len \in Nat
  BY SourceTyped
<1>2. cfg.spelling \in Spellings
  BY BucketConfigs
<1>3. Sent(b) = [by |-> b, len |-> len, md |-> Spelled(metadataFor(p), cfg.spelling), type |-> type]
  BY <1>1, MessageExact, Zenon DEF Sent
<1>4. type \in Types /\ p.ModTime \in Nat /\ p.Immutable \in BOOLEAN /\ StoreTime \in Nat
  BY <1>1, MetaAssumption, Zenon DEF Meta
<1> HIDE DEF p, type, len
<1>5. metaFrom(Sent(b).md, Sent(b).type, Sent(b).len, StoreTime) =
         [Size |-> len, ContentType |-> type,
          ModTime |-> IF p.ModTime = 0 THEN StoreTime ELSE p.ModTime,
          Immutable |-> p.Immutable]
  BY <1>1, <1>2, <1>3, BucketExact
<1>6. Sent(b).len = len
  BY <1>3
<1> DEFINE m == metaFrom(Sent(b).md, Sent(b).type, Sent(b).len, StoreTime)
<1>7. /\ m.Size = len /\ m.ContentType = type /\ m.Immutable = p.Immutable
      /\ m.ModTime = IF p.ModTime = 0 THEN StoreTime ELSE p.ModTime
  BY <1>5
<1>8. m \in Meta
  BY <1>1, <1>4, <1>5 DEF Meta
<1> HIDE DEF m
<1>9. Kept(b, m)
  BY <1>7, Zenon DEF Kept, p, type, len
<1> QED
  BY <1>1, <1>6, <1>7, <1>8, <1>9 DEF m

\* Those of an object that something else has put.
LEMMA ForeignKept ==
    LET m == metaFrom(Foreign.md, Foreign.type, Foreign.len, StoreTime)
    IN  m \in Meta /\ Kept("foreign", m) /\ m.Size = Foreign.len /\ Foreign.len \in Nat
<1> DEFINE md == metadataFor([ModTime |-> 0, Immutable |-> FALSE])
<1>1. DOMAIN md = {}
  BY DEF metadataFor
<1>2. Foreign = [by |-> "foreign", len |-> 1, md |-> md, type |-> StoreType]
  BY DEF Foreign
<1> HIDE DEF md
<1>3. lookup(md, metaModTime) = <<>> /\ lookup(md, metaImmutable) = <<>>
  BY <1>1 DEF lookup
<1>4. metaFrom(md, StoreType, 1, StoreTime) =
         [Size |-> 1, ContentType |-> StoreType, ModTime |-> StoreTime, Immutable |-> FALSE]
  <2>1. (lookup(md, metaImmutable) = <<"true">>) = FALSE
    BY <1>3
  <2>2. (IF lookup(md, metaModTime) # <<>> THEN lookup(md, metaModTime)[2] ELSE 0) = 0
    BY <1>3
  <2> QED
    BY <2>1, <2>2, Zenon DEF metaFrom
<1> DEFINE m == metaFrom(Foreign.md, Foreign.type, Foreign.len, StoreTime)
<1>5. m = [Size |-> 1, ContentType |-> StoreType, ModTime |-> StoreTime, Immutable |-> FALSE]
  BY <1>2, <1>4
<1> HIDE DEF m
<1>6. Kept("foreign", m)
  BY <1>5, BucketAssumption DEF Kept
<1>7. m \in Meta /\ m.Size = 1 /\ Foreign.len = 1
  BY <1>2, <1>5, MetaAssumption, Zenon DEF Meta
<1> QED
  BY <1>6, <1>7 DEF m

\* Whatever object is in the bucket.
LEMMA StoreKept ==
    ASSUME cfg \in Configs, StoreTrue, store # Absent
    PROVE  LET m == metaFrom(store.md, store.type, store.len, StoreTime)
           IN  /\ store.by \in Callers \cup {"foreign"} /\ store.len \in Nat
               /\ m \in Meta /\ Kept(store.by, m) /\ m.Size = store.len
<1>1. CASE store = Foreign
  <2>1. store.by = "foreign"
    BY <1>1 DEF Foreign
  <2> QED
    BY <1>1, <2>1, ForeignKept
<1>2. ASSUME NEW b \in Callers, store = Sent(b)
      PROVE  LET m == metaFrom(store.md, store.type, store.len, StoreTime)
             IN  /\ store.by \in Callers \cup {"foreign"} /\ store.len \in Nat
                 /\ m \in Meta /\ Kept(store.by, m) /\ m.Size = store.len
  <2>1. store.by = b
    BY <1>2, Zenon DEF Sent
  <2> QED
    BY <1>2, <2>1, SentKept
<1> QED
  BY <1>1, <1>2 DEF StoreTrue

\* A copy in the tier in front, by its header.
LEMMA CopyIs ==
    ASSUME NEW b \in Callers \cup {"foreign"}, NEW h \in Meta, Kept(b, h),
           disk' = [by |-> b, header |-> h], cfg' = cfg
    PROVE  DiskTrue'
<1>1. disk'.by = b /\ disk'.header = h
  OBVIOUS
<1>2. Kept(b, h)'
  BY Zenon DEF Kept, Source
<1> QED
  BY <1>1, <1>2, Zenon DEF DiskTrue, Kept, Source

\* A copy in the tier in front, of an object that is there whole.
LEMMA CopyKept ==
    ASSUME DiskTrue, NEW b \in Callers \cup {"foreign"}, NEW m \in Meta, Kept(b, m),
           disk' = DiskPut(b, m, m.Size), cfg' = cfg
    PROVE  DiskTrue'
<1>1. encodeHeader(m, m.Size) = m
  BY DEF Meta, encodeHeader
<1>2. disk' = disk \/ disk' = [by |-> b, header |-> m]
  BY <1>1 DEF DiskPut
<1>3. CASE disk' = disk
  BY <1>3, Zenon DEF DiskTrue, Kept, Source
<1>4. CASE disk' = [by |-> b, header |-> m]
  BY <1>4, CopyIs
<1> QED
  BY <1>2, <1>3, <1>4

-----------------------------------------------------------------------------
(* Steps of one caller.                                                    *)

\* A step of c leaves the calls of the others alone.
Else(c) ==
    /\ cfg' = cfg
    /\ \A d \in Callers \ {c} :
        call'[d] = call[d] /\ made'[d] = made[d] /\ (d \in temps' <=> d \in temps)

\* What each step of c is shown to keep.
Keeps(c) == Shape' /\ StoreTrue' /\ DiskTrue' /\ Else(c) /\ CallOK(c)'

\* A step of one caller leaves what is true of the others.
LEMMA OthersKeep ==
    ASSUME Shape, Watch, NEW c \in Callers, Else(c), NEW d \in Callers \ {c}, CallOK(d)
    PROVE  CallOK(d)'
<1>1. was[d] \subseteq was'[d]
  BY DEF Watch, Else
<1>2. call'[d] = call[d] /\ cfg' = cfg /\ (d \in temps' <=> d \in temps)
  BY DEF Else
<1>3. InStep(d)'
  BY <1>2 DEF CallOK, InStep, At, Source
<1>4. Given(d)'
  BY <1>2, Zenon DEF CallOK, Given, Answered, Kept, Source
<1>5. Staged(d)'
  BY <1>2 DEF CallOK, Staged, At, Source
<1>6. Told(d)'
  BY <1>1, <1>2 DEF CallOK, Told, Answered
<1> QED
  BY <1>3, <1>4, <1>5, <1>6 DEF CallOK

\* What the bucket holds stays true while it does not change.
LEMMA StoreStays ==
    ASSUME StoreTrue, cfg' = cfg, store' = store
    PROVE  StoreTrue'
  BY Zenon DEF StoreTrue, Sent, Source

\* What the disk holds stays true while it does not change.
LEMMA DiskStays ==
    ASSUME DiskTrue, cfg' = cfg, disk' = disk
    PROVE  DiskTrue'
  BY Zenon DEF DiskTrue, Kept, Source

\* The history of a call under way, and of one that begins.
LEMMA Watched ==
    ASSUME Watch, NEW c \in Callers
    PROVE  /\ ~At(c, "idle") => was'[c] = was[c] \cup {store'.by}
           /\ DOMAIN was' = Callers
  BY DEF Watch

\* A call that is only moved on.
LEMMA MovedOn ==
    ASSUME Shape, Watch, NEW c \in Callers, NEW r \in Calls, NEW t \in SUBSET Callers,
           cfg' = cfg, call' = [call EXCEPT ![c] = r], temps' = t,
           \A d \in Callers \ {c} : d \in t <=> d \in temps,
           \/ made' = made
           \/ made[c] < MaxCalls /\ made' = [made EXCEPT ![c] = @ + 1]
    PROVE  Shape' /\ Else(c) /\ call'[c] = r
<1>1. made' \in [Callers -> 0 .. MaxCalls] /\ \A d \in Callers \ {c} : made'[d] = made[d]
  BY BucketAssumption DEF Shape
<1>2. call' \in [Callers -> Calls] /\ call'[c] = r /\ \A d \in Callers \ {c} : call'[d] = call[d]
  BY DEF Shape
<1>3. DOMAIN was' = Callers
  BY Watched
<1> QED
  BY <1>1, <1>2, <1>3 DEF Shape, Else

-----------------------------------------------------------------------------
(* Beginnings.                                                             *)

\* A call as it begins is well formed.
LEMMA CallTyped ==
    ASSUME NEW pc \in Pcs, NEW op \in Ops, NEW left \in 0 .. MaxAttempts
    PROVE  Call(pc, op, left) \in Calls
<1>1. NoMeta \in Meta
  BY MetaAssumption, Zenon DEF NoMeta, Meta
<1> QED
  BY <1>1 DEF Call, Calls, Results

\* A call that begins has answered nothing.
LEMMA BeginKeeps ==
    ASSUME IInv, Watch, NEW c \in Callers, NEW op \in Ops, NEW pc \in Pcs,
           Begin(c, op, pc), UNCHANGED <<cfg, store, temps>>,
           \/ pc = "stage" /\ op = "put"
           \/ pc = "ask" /\ op \in {"get", "stat"}
           \/ pc = "delete" /\ op = "delete"
    PROVE  Shape' /\ StoreTrue' /\ Else(c) /\ CallOK(c)'
<1> DEFINE r == Call(pc, op, MaxAttempts)
<1>1. r \in Calls
  BY CallTyped, BucketAssumption
<1>2. r.pc = pc /\ r.op = op
  BY DEF Call
<1> HIDE DEF r
<1>3. Shape' /\ Else(c) /\ call'[c] = r
  <2>1. call' = [call EXCEPT ![c] = r]
    BY DEF Begin, r
  <2> QED
    BY <1>1, <2>1, MovedOn, Zenon DEF IInv, Shape, Begin
<1>4. InStep(c)'
  BY <1>2, <1>3 DEF InStep, At
<1>5. ~Answered(c)'
  BY <1>2, <1>3 DEF Answered
<1>6. Given(c)' /\ Told(c)'
  BY <1>5 DEF Given, Told
<1>7. Staged(c)'
  <2>1. c \notin temps
    BY DEF IInv, CallOK, Staged, Begin, At
  <2> QED
    BY <1>2, <1>3, <2>1 DEF Staged, At
<1> QED
  BY <1>3, <1>4, <1>6, <1>7, StoreStays DEF CallOK, IInv

\* A Put begins behind the header the disk in front writes (disk.go Put).
LEMMA PutBeginKeeps ==
    ASSUME IInv, Watch, NEW c \in Callers, PutBegin(c)
    PROVE  Keeps(c)
<1> DEFINE m == Received(Source(c).meta)
           h == encodeHeader(m, Source(c).len)
<1>1. Shape' /\ StoreTrue' /\ Else(c) /\ CallOK(c)'
  BY BeginKeeps DEF PutBegin, Ops, Pcs
<1>2. Source(c).meta \in Meta /\ Source(c).len \in Nat
  BY SourceTyped DEF IInv, Shape
<1>3. m = Source(c).meta
  BY <1>2, MessageExact
<1>4. h \in Meta /\ Kept(c, h)
  BY <1>2, <1>3 DEF encodeHeader, Meta, Kept
<1>5. disk' = disk \/ disk' = [by |-> c, header |-> h]
  BY DEF PutBegin, DiskPut
<1>6. cfg' = cfg
  BY DEF PutBegin
<1>7. PICK x \in Meta : x = h
  BY <1>4
<1> HIDE DEF m, h
<1>8. DiskTrue'
  <2>1. CASE disk' = disk
    BY <1>6, <2>1, DiskStays DEF IInv
  <2>2. CASE disk' = [by |-> c, header |-> x]
    BY <1>4, <1>6, <1>7, <2>2, CopyIs
  <2> QED
    BY <1>5, <1>7, <2>1, <2>2
<1> QED
  BY <1>1, <1>8 DEF Keeps

\* A Get or a Stat that the disk in front lets through begins.
LEMMA AskBeginKeeps ==
    ASSUME IInv, Watch, NEW c \in Callers, NEW op \in Ops, AskBegin(c, op)
    PROVE  Keeps(c)
<1>1. Shape' /\ StoreTrue' /\ Else(c) /\ CallOK(c)'
  BY BeginKeeps DEF AskBegin, Pcs
<1> QED
  BY <1>1, DiskStays DEF AskBegin, IInv, Keeps

\* A Delete begins.
LEMMA DeleteBeginKeeps ==
    ASSUME IInv, Watch, NEW c \in Callers, DeleteBegin(c)
    PROVE  Keeps(c)
<1>1. Shape' /\ StoreTrue' /\ Else(c) /\ CallOK(c)'
  BY BeginKeeps DEF DeleteBegin, Ops, Pcs
<1> QED
  BY <1>1 DEF DeleteBegin, DiskTrue, Keeps

\* A Get or a Stat that the disk in front answers is answered truly.
LEMMA FrontAnswersKeeps ==
    ASSUME IInv, Watch, NEW c \in Callers, NEW op \in Ops, FrontAnswers(c, op)
    PROVE  Keeps(c)
<1> DEFINE m == Served(metaOf(disk.header))
           r == [pc |-> "idle", op |-> op, res |-> "nil", by |-> disk.by,
                 len |-> disk.header.Size, meta |-> m, n |-> 0, left |-> 0]
<1>1. disk.by \in Callers \cup {"foreign"} /\ disk.header \in Meta /\ Kept(disk.by, disk.header)
  BY DEF FrontAnswers, IInv, DiskTrue
<1>2. metaOf(disk.header) = disk.header
  BY <1>1 DEF Meta, metaOf
<1>3. m = disk.header
  BY <1>1, <1>2, MessageExact
<1>4. disk.header.Size \in Nat
  BY <1>1 DEF Meta
<1>5. r \in Calls
  BY <1>1, <1>3, <1>4, BucketAssumption DEF Calls, Pcs, Results
<1>6. call' = [call EXCEPT ![c] = r]
  BY DEF FrontAnswers
<1>7. /\ r.pc = "idle" /\ r.op = op /\ r.res = "nil" /\ r.by = disk.by
      /\ r.len = disk.header.Size /\ r.meta = disk.header /\ r.n = 0
  BY <1>3
<1> HIDE DEF m, r
<1>8. Shape' /\ Else(c) /\ call'[c] = r
  BY <1>5, <1>6, MovedOn, Zenon DEF IInv, Shape, FrontAnswers
<1>9. op \in {"get", "stat"} /\ cfg' = cfg /\ disk' = disk /\ store' = store /\ temps' = temps
  BY DEF FrontAnswers
<1>10. InStep(c)' /\ Told(c)'
  BY <1>7, <1>8, <1>9 DEF InStep, Told, At
<1>11. Given(c)'
  <2>1. PICK b \in Callers \cup {"foreign"}, h \in Meta : b = disk.by /\ h = disk.header
    BY <1>1
  <2>2. call'[c].by = b /\ call'[c].meta = h /\ call'[c].len = h.Size /\ call'[c].n = 0
    BY <1>7, <1>8, <2>1
  <2>3. Kept(b, h)'
    BY <1>1, <1>9, <2>1, Zenon DEF Kept, Source
  <2>4. h.Size \in Nat /\ 0 <= h.Size
    BY DEF Meta
  <2>5. Kept(call[c].by, call[c].meta)'
    BY <2>2, <2>3, Zenon DEF Kept, Source
  <2> QED
    BY <2>2, <2>4, <2>5 DEF Given
<1>12. Staged(c)'
  <2>1. c \notin temps
    BY DEF IInv, CallOK, Staged, FrontAnswers, At
  <2> QED
    BY <1>7, <1>8, <1>9, <2>1 DEF Staged, At
<1> QED
  BY <1>8, <1>9, <1>10, <1>11, <1>12, StoreStays, DiskStays DEF CallOK, IInv, Keeps

-----------------------------------------------------------------------------
(* Steps that move a call on and steps that answer it.                     *)

\* What moving a call on changes, and what it leaves.
LEMMA GotoIs ==
    ASSUME Shape, Watch, NEW c \in Callers, NEW pc \in Pcs, Goto(c, pc),
           cfg' = cfg, made' = made, temps' \in {temps, temps \cup {c}}
    PROVE  /\ Shape' /\ Else(c)
           /\ call'[c].pc = pc /\ call'[c].op = call[c].op /\ call'[c].res = call[c].res
           /\ call'[c].by = call[c].by /\ call'[c].len = call[c].len
           /\ call'[c].meta = call[c].meta /\ call'[c].n = call[c].n
<1> DEFINE r == [call[c] EXCEPT !.pc = pc]
<1>1. r \in Calls
  BY DEF Shape, Calls
<1>2. call' = [call EXCEPT ![c] = r]
  BY DEF Goto, Shape
<1>3. /\ r.pc = pc /\ r.op = call[c].op /\ r.res = call[c].res /\ r.by = call[c].by
      /\ r.len = call[c].len /\ r.meta = call[c].meta /\ r.n = call[c].n
  BY DEF Shape, Calls
<1> HIDE DEF r
<1>4. temps' \in SUBSET Callers /\ \A d \in Callers \ {c} : d \in temps' <=> d \in temps
  BY DEF Shape
<1>5. Shape' /\ Else(c) /\ call'[c] = r
  BY <1>1, <1>2, <1>4, MovedOn, Zenon
<1> QED
  BY <1>3, <1>5

\* What deciding a call's answer changes, and what it leaves.
LEMMA AnswerIs ==
    ASSUME Shape, Watch, NEW c \in Callers, NEW res \in Results, NEW n \in Nat,
           Answer(c, res, n), cfg' = cfg, made' = made, temps' \in {temps, temps \ {c}}
    PROVE  /\ Shape' /\ Else(c)
           /\ call'[c].pc = "observe" /\ call'[c].op = call[c].op /\ call'[c].res = res
<1> DEFINE r == [call[c] EXCEPT !.pc = "observe", !.res = res, !.n = n, !.left = 0]
<1>1. r \in Calls
  <2>1. call[c] \in Calls /\ "observe" \in Pcs /\ 0 \in 0 .. MaxAttempts
    BY BucketAssumption DEF Shape, Pcs
  <2> QED
    BY <2>1, Zenon DEF Calls
<1>2. call' = [call EXCEPT ![c] = r]
  BY Zenon DEF Answer, Shape
<1>3. r.pc = "observe" /\ r.op = call[c].op /\ r.res = res
  BY DEF Shape, Calls
<1> HIDE DEF r
<1>4. temps' \in SUBSET Callers /\ \A d \in Callers \ {c} : d \in temps' <=> d \in temps
  BY DEF Shape
<1>5. Shape' /\ Else(c) /\ call'[c] = r
  BY <1>1, <1>2, <1>4, MovedOn, Zenon
<1> QED
  BY <1>3, <1>5

\* Another attempt.
LEMMA AgainIs ==
    ASSUME Shape, Watch, NEW c \in Callers, call[c].left > 1,
           call' = [call EXCEPT ![c].left = @ - 1], UNCHANGED <<cfg, made, temps>>
    PROVE  /\ Shape' /\ Else(c)
           /\ call'[c].pc = call[c].pc /\ call'[c].op = call[c].op
<1> DEFINE r == [call[c] EXCEPT !.left = @ - 1]
<1>1. r \in Calls
  BY BucketAssumption DEF Shape, Calls
<1>2. call' = [call EXCEPT ![c] = r]
  BY DEF Shape
<1>3. r.pc = call[c].pc /\ r.op = call[c].op
  BY DEF Shape, Calls
<1> HIDE DEF r
<1>4. temps' \in SUBSET Callers /\ \A d \in Callers \ {c} : d \in temps' <=> d \in temps
  BY DEF Shape
<1>5. Shape' /\ Else(c) /\ call'[c] = r
  BY <1>1, <1>2, <1>4, MovedOn, Zenon
<1> QED
  BY <1>3, <1>5

\* An answer to a Put or Delete, of which c is told what was so.
LEMMA AnswerKeeps ==
    ASSUME IInv, Watch, NEW c \in Callers, NEW res \in Results, NEW n \in Nat,
           Answer(c, res, n), UNCHANGED <<cfg, disk, made>>,
           temps' \in {temps, temps \ {c}}, c \notin temps', StoreTrue',
           call[c].op \in {"put", "delete"}, res # "notfound",
           call[c].op = "put" /\ res = "nil" => c \in was'[c],
           call[c].op = "put" /\ res = "exists" => was'[c] \ {"nobody"} # {}
    PROVE  Keeps(c)
<1>1. /\ Shape' /\ Else(c)
      /\ call'[c].pc = "observe" /\ call'[c].op = call[c].op /\ call'[c].res = res
  BY AnswerIs DEF IInv
<1>2. InStep(c)' /\ Given(c)'
  BY <1>1 DEF InStep, Given, At
<1>3. Staged(c)' /\ Told(c)'
  BY <1>1 DEF Staged, Told, At
<1> QED
  BY <1>1, <1>2, <1>3, DiskStays DEF CallOK, IInv, Keeps

\* A request that is tried again leaves the call as it was (s3.go retry).
LEMMA AgainKeeps ==
    ASSUME IInv, Watch, NEW c \in Callers, call[c].left > 1,
           call' = [call EXCEPT ![c].left = @ - 1], UNCHANGED <<cfg, disk, made, temps>>,
           StoreTrue', ~Answered(c)
    PROVE  Keeps(c)
<1>1. /\ Shape' /\ Else(c)
      /\ call'[c].pc = call[c].pc /\ call'[c].op = call[c].op
  BY AgainIs, Zenon DEF IInv
<1>2. CallOK(c)
  BY DEF IInv
<1>3. cfg' = cfg /\ temps' = temps
  OBVIOUS
<1>4. call[c].pc \notin {"body", "closed"}
  BY <1>2 DEF Answered
<1>5. InStep(c)'
  BY <1>1, <1>2, <1>3, <1>4 DEF CallOK, InStep, At, Source
<1>6. Given(c)' /\ Told(c)'
  BY <1>1 DEF Given, Told, Answered
<1>7. Staged(c)'
  BY <1>1, <1>2, <1>3 DEF CallOK, Staged, At, Source
<1> QED
  BY <1>1, <1>5, <1>6, <1>7, DiskStays DEF CallOK, IInv, Keeps

-----------------------------------------------------------------------------
(* Put.                                                                    *)

\* A body within the threshold is staged in memory (s3.go stage).
LEMMA StageHeadKeeps ==
    ASSUME IInv, Watch, NEW c \in Callers, StageHead(c)
    PROVE  Keeps(c)
<1>1. /\ Source(c).len \in Nat /\ spillThreshold \in Nat /\ c \notin temps
      /\ call[c].op = "put" /\ Shape
  BY SourceTyped, BucketAssumption DEF IInv, Shape, StageHead, CallOK, InStep, Staged, At
<1>2. UNCHANGED <<cfg, store, disk, made>> /\ StoreTrue' /\ DiskTrue'
  BY StoreStays, DiskStays DEF StageHead, IInv
<1>3. CASE \E n \in Nat : Answer(c, "error", n) /\ temps' = temps
  BY <1>1, <1>2, <1>3, AnswerKeeps DEF Results
<1>4. CASE Source(c).len < spillThreshold /\ Source(c).whole /\ Goto(c, "send") /\ temps' = temps
  <2>1. Shape' /\ Else(c) /\ call'[c].pc = "send" /\ call'[c].op = "put"
    BY <1>1, <1>2, <1>4, GotoIs DEF Pcs
  <2>2. InStep(c)' /\ Given(c)' /\ Told(c)'
    BY <1>2, <1>4, <2>1 DEF InStep, Given, Told, Answered, At, Source
  <2>3. Staged(c)'
    <3>1. ~(Source(c).len >= spillThreshold) /\ Source(c)' = Source(c)
      BY <1>1, <1>2, <1>4 DEF Source
    <3> QED
      BY <1>1, <1>4, <2>1, <3>1 DEF Staged, At
  <2> QED
    BY <1>2, <2>1, <2>2, <2>3 DEF CallOK, Keeps
<1>5. CASE Source(c).len >= spillThreshold /\ Goto(c, "copy") /\ temps' = temps \cup {c}
  <2>1. Shape' /\ Else(c) /\ call'[c].pc = "copy" /\ call'[c].op = "put"
    BY <1>1, <1>2, <1>5, GotoIs DEF Pcs
  <2>2. InStep(c)' /\ Given(c)' /\ Told(c)' /\ Staged(c)'
    BY <1>2, <1>5, <2>1 DEF InStep, Given, Told, Staged, Answered, At, Source
  <2> QED
    BY <1>2, <2>1, <2>2 DEF CallOK, Keeps
<1> QED
  BY <1>1, <1>3, <1>4, <1>5 DEF StageHead

\* A longer one is copied to a temporary file, or the file goes (s3.go stage).
LEMMA StageCopyKeeps ==
    ASSUME IInv, Watch, NEW c \in Callers, StageCopy(c)
    PROVE  Keeps(c)
<1>1. /\ Source(c).len \in Nat /\ spillThreshold \in Nat
      /\ c \in temps /\ call[c].op = "put" /\ Shape
  BY SourceTyped, BucketAssumption DEF IInv, Shape, StageCopy, CallOK, InStep, Staged, At
<1>2. UNCHANGED <<cfg, store, disk, made>> /\ StoreTrue' /\ DiskTrue'
  BY StoreStays, DiskStays DEF StageCopy, IInv
<1>3. CASE Answer(c, "error", Source(c).len) /\ temps' = temps \ {c}
  BY <1>1, <1>2, <1>3, AnswerKeeps DEF Results
<1>4. CASE Source(c).whole /\ Goto(c, "send") /\ temps' = temps
  <2>1. Shape' /\ Else(c) /\ call'[c].pc = "send" /\ call'[c].op = "put"
    BY <1>1, <1>2, <1>4, GotoIs DEF Pcs
  <2>2. InStep(c)' /\ Given(c)' /\ Told(c)'
    BY <1>2, <1>4, <2>1 DEF InStep, Given, Told, Answered, At, Source
  <2>3. Staged(c)'
    <3>1. Source(c).len >= spillThreshold /\ Source(c)' = Source(c)
      BY <1>2 DEF IInv, CallOK, InStep, StageCopy, At, Source
    <3> QED
      BY <1>1, <1>4, <2>1, <3>1 DEF Staged, At
  <2> QED
    BY <1>2, <2>1, <2>2, <2>3 DEF CallOK, Keeps
<1> QED
  BY <1>3, <1>4 DEF StageCopy

\* What the store does with a Put, and what its answer tells.
LEMMA PutObjectIs ==
    ASSUME NEW c \in Callers, NEW r \in PutObject(c, Sent(c))
    PROVE  /\ r.store \in {store, Sent(c)}
           /\ r.ans = "ok" => r.store = Sent(c)
           /\ r.ans = "412" => r.store = store /\ store # Absent
<1> DEFINE s == Sent(c)
<1>1. \A q \in Faults(store) : q.store = store /\ q.ans \notin {"ok", "412"}
  BY DEF Faults
<1>2. \A q \in Faults(s) : q.store \in {store, s} /\ q.ans \notin {"ok", "412"}
  BY DEF Faults
<1> HIDE DEF s
<1>3. \/ r \in Faults(store) \/ r \in Faults(s)
      \/ r = [store |-> store, ans |-> "412"] /\ store # Absent
      \/ r = [store |-> s, ans |-> "ok"]
      \/ r = [store |-> store, ans |-> "409"]
  BY DEF PutObject, s
<1>4. CASE r = [store |-> store, ans |-> "412"] /\ store # Absent
  BY <1>4 DEF s
<1>5. CASE r = [store |-> s, ans |-> "ok"]
  BY <1>5 DEF s
<1>6. CASE r = [store |-> store, ans |-> "409"]
  BY <1>6 DEF s
<1>7. CASE r \in Faults(store) \/ r \in Faults(s)
  BY <1>1, <1>2, <1>7 DEF s
<1> QED
  BY <1>3, <1>4, <1>5, <1>6, <1>7

\* What a Put stores is the whole body with its metadata (s3.go Put).
LEMMA PutSendKeeps ==
    ASSUME IInv, Watch, NEW c \in Callers, PutSend(c)
    PROVE  Keeps(c)
<1>1. /\ Source(c).len \in Nat /\ Source(c).whole /\ call[c].op = "put"
      /\ ~Answered(c) /\ ~At(c, "idle")
  BY SourceTyped DEF IInv, Shape, PutSend, CallOK, InStep, Answered, At
<1>2. UNCHANGED <<cfg, disk, made>>
  BY DEF PutSend
<1>3. PICK r \in PutObject(c, Sent(c)) :
         /\ store' = r.store
         /\ IF r.ans \in Retried /\ call[c].left > 1
            THEN /\ call' = [call EXCEPT ![c].left = @ - 1]
                 /\ UNCHANGED <<temps, tally>>
            ELSE /\ Answer(c, IF r.ans = "ok" THEN "nil"
                              ELSE IF isPreconditionFailed(r.ans) THEN "exists" ELSE "error",
                           Source(c).len)
                 /\ temps' = temps \ {c}
  BY DEF PutSend
<1>4. /\ store' \in {store, Sent(c)}
      /\ r.ans = "ok" => store' = Sent(c)
      /\ r.ans = "412" => store' = store /\ store # Absent
  BY <1>3, PutObjectIs
<1>5. StoreTrue'
  <2>1. CASE store' = store
    BY <1>2, <2>1, StoreStays DEF IInv
  <2>2. CASE store' = Sent(c)
    <3>1. Sent(c)' = Sent(c) /\ Source(c)' = Source(c)
      BY <1>2, Zenon DEF Sent, Source
    <3> QED
      BY <1>1, <2>2, <3>1 DEF StoreTrue
  <2> QED
    BY <1>4, <2>1, <2>2
<1>6. CASE r.ans \in Retried /\ call[c].left > 1
  BY <1>1, <1>2, <1>3, <1>5, <1>6, AgainKeeps
<1>7. CASE ~(r.ans \in Retried /\ call[c].left > 1)
  <2> DEFINE res == IF r.ans = "ok" THEN "nil"
                    ELSE IF isPreconditionFailed(r.ans) THEN "exists" ELSE "error"
  <2>1. Answer(c, res, Source(c).len) /\ temps' = temps \ {c}
    BY <1>3, <1>7
  <2>2. was'[c] = was[c] \cup {store'.by}
    BY <1>1, Watched
  <2>3. res = "nil" => c \in was'[c]
    <3>1. Sent(c).by = c
      BY Zenon DEF Sent
    <3> QED
      BY <1>4, <2>2, <3>1
  <2>4. res = "exists" => was'[c] \ {"nobody"} # {}
    <3>1. store # Absent => store.by # "nobody"
      BY StoreKept, BucketAssumption DEF IInv, Shape
    <3> QED
      BY <1>4, <2>2, <3>1 DEF isPreconditionFailed
  <2>5. res \in Results /\ res # "notfound"
    BY DEF Results
  <2> HIDE DEF res
  <2> QED
    BY <1>1, <1>2, <1>5, <2>1, <2>3, <2>4, <2>5, AnswerKeeps
<1> QED
  BY <1>6, <1>7

-----------------------------------------------------------------------------
(* Get, Stat and Delete.                                                   *)

\* A Delete empties the key or answers an error (s3.go Delete).
LEMMA DeleteKeeps ==
    ASSUME IInv, Watch, NEW c \in Callers, Delete(c)
    PROVE  Keeps(c)
<1>1. call[c].op = "delete" /\ ~Answered(c) /\ c \notin temps
  BY DEF IInv, Delete, CallOK, InStep, Staged, Answered, At
<1>2. UNCHANGED <<cfg, disk, made, temps>>
  BY DEF Delete
<1>3. PICK r \in DeleteObject :
         /\ store' = r.store
         /\ IF r.ans \in Retried /\ call[c].left > 1
            THEN call' = [call EXCEPT ![c].left = @ - 1] /\ UNCHANGED tally
            ELSE Answer(c, IF r.ans = "ok" \/ isNotFound(r.ans) THEN "nil" ELSE "error", 0)
  BY DEF Delete
<1>4. r.store \in {store, Absent}
  BY DEF DeleteObject, Faults
<1>5. StoreTrue'
  <2>1. CASE store' = store
    BY <1>2, <2>1, StoreStays DEF IInv
  <2>2. CASE store' = Absent
    BY <2>2 DEF StoreTrue
  <2> QED
    BY <1>3, <1>4, <2>1, <2>2
<1>6. CASE r.ans \in Retried /\ call[c].left > 1
  BY <1>1, <1>2, <1>3, <1>5, <1>6, AgainKeeps
<1>7. CASE ~(r.ans \in Retried /\ call[c].left > 1)
  <2> DEFINE res == IF r.ans = "ok" \/ isNotFound(r.ans) THEN "nil" ELSE "error"
  <2>1. Answer(c, res, 0)
    BY <1>3, <1>7
  <2>2. res \in Results /\ res # "notfound"
    BY DEF Results
  <2> HIDE DEF res
  <2> QED
    BY <1>1, <1>2, <1>5, <2>1, <2>2, AnswerKeeps
<1> QED
  BY <1>6, <1>7

\* The answer to a Get or Stat that found an object, and to one that did not.
LEMMA FoundIs ==
    ASSUME Shape, StoreTrue, NEW c \in Callers, NEW res \in Results,
           res = "nil" => store # Absent
    PROVE  LET f == Found(c, res)
           IN  /\ f \in Calls /\ f.pc = "observe" /\ f.op = call[c].op /\ f.res = res
               /\ res = "nil" => /\ f.by \in Callers \cup {"foreign"} /\ Kept(f.by, f.meta)
                                 /\ f.meta.Size = f.len /\ f.n = 0
<1> DEFINE f == Found(c, res)
           m == metaFrom(store.md, store.type, store.len, StoreTime)
           o == call[c].op
<1>1. o \in Ops /\ "observe" \in Pcs /\ 0 \in 0 .. MaxAttempts
  BY BucketAssumption DEF Shape, Calls, Pcs
<1>2. CASE res = "nil"
  <2>1. /\ store.by \in Callers \cup {"foreign"} /\ store.len \in Nat
        /\ m \in Meta /\ Kept(store.by, m) /\ m.Size = store.len
    BY <1>2, StoreKept DEF Shape
  <2>2. f = [pc |-> "observe", op |-> o, res |-> res, by |-> store.by,
             len |-> store.len, n |-> 0, left |-> 0, meta |-> m]
    BY <1>2 DEF Found
  <2> HIDE DEF f, m, o
  <2>3. f \in Calls
    BY <1>1, <2>1, <2>2 DEF Calls
  <2>4. /\ f.pc = "observe" /\ f.op = o /\ f.res = res /\ f.by = store.by
        /\ f.meta = m /\ f.len = store.len /\ f.n = 0
    BY <2>2
  <2> QED
    BY <2>1, <2>3, <2>4 DEF f, o
<1>3. CASE res # "nil"
  <2> DEFINE k == Call("observe", o, 0)
  <2>1. k \in Calls
    BY <1>1, CallTyped
  <2>2. k.pc = "observe" /\ k.op = o
    BY DEF Call
  <2>3. f = [k EXCEPT !.res = res]
    BY <1>3 DEF Found
  <2> HIDE DEF k, f, o
  <2>4. f \in Calls /\ f.pc = "observe" /\ f.op = o /\ f.res = res
    BY <2>1, <2>2, <2>3 DEF Calls
  <2> QED
    BY <1>3, <2>4 DEF f, o
<1> QED
  BY <1>2, <1>3

\* A Get or a Stat answers what the bucket held (s3.go Get, Stat).
LEMMA AskKeeps ==
    ASSUME IInv, Watch, NEW c \in Callers, Ask(c)
    PROVE  Keeps(c)
<1>1. /\ call[c].op \in {"get", "stat"} /\ ~Answered(c) /\ ~At(c, "idle") /\ c \notin temps
      /\ Shape /\ StoreTrue
  BY DEF IInv, Ask, CallOK, InStep, Staged, Answered, At
<1>2. UNCHANGED <<cfg, store, disk, made, temps>> /\ StoreTrue' /\ DiskTrue'
  BY StoreStays, DiskStays DEF Ask, IInv
<1>3. PICK r \in GetObject :
        IF r.ans \in Retried /\ call[c].left > 1
        THEN call' = [call EXCEPT ![c].left = @ - 1]
        ELSE LET res == IF r.ans = "ok" THEN "nil"
                        ELSE IF isNotFound(r.ans) THEN "notfound" ELSE "error"
             IN  call' = [call EXCEPT ![c] = Found(c, res)]
  BY DEF Ask
<1>4. (r.ans = "ok" => store # Absent) /\ (r.ans = "404" => store = Absent)
  <2>1. r \in Faults(store) \/ r = [store |-> store, ans |-> IF store = Absent THEN "404" ELSE "ok"]
    BY DEF GetObject
  <2>2. \A q \in Faults(store) : q.ans \notin {"ok", "404"}
    BY DEF Faults
  <2> QED
    BY <2>1, <2>2
<1>5. CASE r.ans \in Retried /\ call[c].left > 1
  BY <1>1, <1>2, <1>3, <1>5, AgainKeeps
<1>6. CASE ~(r.ans \in Retried /\ call[c].left > 1)
  <2> DEFINE res == IF r.ans = "ok" THEN "nil"
                    ELSE IF isNotFound(r.ans) THEN "notfound" ELSE "error"
  <2>1. /\ res \in Results /\ res # "exists"
        /\ (res = "nil" => store # Absent) /\ (res = "notfound" => store = Absent)
    BY <1>4 DEF Results, isNotFound
  <2>2. call' = [call EXCEPT ![c] = Found(c, res)]
    BY <1>3, <1>6
  <2> HIDE DEF res
  <2>3. PICK f \in Calls : f = Found(c, res)
    BY <1>1, <2>1, FoundIs
  <2>4. /\ f.pc = "observe" /\ f.op = call[c].op /\ f.res = res
        /\ res = "nil" => /\ f.by \in Callers \cup {"foreign"} /\ Kept(f.by, f.meta)
                          /\ f.meta.Size = f.len /\ f.n = 0
    BY <1>1, <2>1, <2>3, FoundIs
  <2>5. Shape' /\ Else(c) /\ call'[c] = f
    BY <1>1, <1>2, <2>2, <2>3, MovedOn, Zenon DEF Shape
  <2>6. was'[c] = was[c] \cup {store'.by}
    BY <1>1, Watched, SMTT(30)
  <2>7. InStep(c)' /\ Staged(c)'
    BY <1>1, <1>2, <2>4, <2>5 DEF InStep, Staged, At
  <2>8. Told(c)'
    <3>1. res = "notfound" => "nobody" \in was'[c]
      BY <1>2, <2>1, <2>6 DEF Absent
    <3> QED
      BY <1>1, <2>4, <2>5, <3>1 DEF Told
  <2>9. Given(c)'
    <3>1. f.len \in Nat
      BY DEF Calls
    <3>2. Kept(f.by, f.meta)' = Kept(f.by, f.meta)
      BY <1>2 DEF Kept, Source
    <3>3. f.res = "nil" => Kept(call[c].by, call[c].meta)'
      BY <2>4, <2>5, <3>2
    <3> QED
      BY <2>4, <2>5, <3>1, <3>3 DEF Given
  <2> QED
    BY <1>2, <2>5, <2>7, <2>8, <2>9 DEF CallOK, Keeps
<1> QED
  BY <1>5, <1>6

-----------------------------------------------------------------------------
(* The recorder and the body.                                              *)

\* A call that has been answered is only moved on.
LEMMA AnsweredKeeps ==
    ASSUME IInv, Watch, NEW c \in Callers, Answered(c), ~At(c, "idle"), NEW f \in Calls,
           call' = [call EXCEPT ![c] = f], UNCHANGED <<cfg, store, made, temps>>, DiskTrue',
           f.pc \in {"idle", "bytes", "count", "body", "closed"},
           f.op = call[c].op, f.res = call[c].res, f.by = call[c].by,
           f.len = call[c].len, f.meta = call[c].meta, f.n = call[c].n \/ f.n <= f.len,
           f.pc = "bytes" => f.op = "put",
           f.pc \in {"body", "closed"} => f.op = "get" /\ f.res = "nil"
    PROVE  Keeps(c)
<1>1. Shape' /\ Else(c) /\ call'[c] = f
  BY MovedOn, Zenon DEF IInv, Shape
<1>2. CallOK(c)
  BY DEF IInv
<1>3. was[c] \subseteq was'[c]
  BY Watched
<1>4. InStep(c)'
  BY <1>1 DEF InStep, At
<1>5. Told(c)'
  BY <1>1, <1>2, <1>3 DEF CallOK, Told, Answered
<1>6. Staged(c)'
  BY <1>1, <1>2 DEF CallOK, Staged, Answered, At
<1>7. Given(c)'
  BY <1>1, <1>2, ZenonT(60) DEF CallOK, Given, Answered, Kept, Source
<1> QED
  BY <1>1, <1>4, <1>5, <1>6, <1>7, StoreStays DEF CallOK, IInv, Keeps

\* The steps after the answer change nothing but the counters.
LEMMA GotoKeeps ==
    ASSUME IInv, Watch, NEW c \in Callers, Answered(c), ~At(c, "idle"),
           NEW pc \in {"idle", "bytes", "count", "body", "closed"},
           Goto(c, pc), UNCHANGED <<cfg, store, disk, made, temps>>,
           pc = "bytes" => call[c].op = "put",
           pc \in {"body", "closed"} => call[c].op = "get" /\ call[c].res = "nil"
    PROVE  Keeps(c)
<1> DEFINE f == [call[c] EXCEPT !.pc = pc]
<1>1. call[c] \in Calls /\ pc \in Pcs
  BY DEF IInv, Shape, Pcs
<1>2. f \in Calls
  BY <1>1 DEF Calls
<1>3. call' = [call EXCEPT ![c] = f]
  BY DEF Goto, IInv, Shape
<1>4. /\ f.pc = pc /\ f.op = call[c].op /\ f.res = call[c].res /\ f.by = call[c].by
      /\ f.len = call[c].len /\ f.meta = call[c].meta /\ f.n = call[c].n
  BY <1>1 DEF Calls
<1>5. DiskTrue'
  BY DiskStays DEF IInv
<1> HIDE DEF f
<1> QED
  BY <1>2, <1>3, <1>4, <1>5, AnsweredKeeps, Zenon

\* Counting a call leaves its answer (tier.go, recorder.go).
LEMMA CountStepKeeps ==
    ASSUME IInv, Watch, NEW c \in Callers, CountStep(c)
    PROVE  Keeps(c)
<1>1. CASE Observe(c)
  <2> DEFINE pc == CASE call[c].op = "put" -> "bytes"
                     [] call[c].op = "get" -> "count"
                     [] OTHER -> "idle"
  <2>1. pc \in {"idle", "bytes", "count"} /\ (pc = "bytes" => call[c].op = "put")
    OBVIOUS
  <2>2. /\ Answered(c) /\ ~At(c, "idle") /\ Goto(c, pc)
        /\ UNCHANGED <<cfg, store, disk, made, temps>>
    BY <1>1 DEF Observe, Answered, At
  <2> HIDE DEF pc
  <2> QED
    BY <2>1, <2>2, GotoKeeps
<1>2. CASE CountWritten(c)
  <2>1. /\ Answered(c) /\ ~At(c, "idle") /\ Goto(c, "count")
        /\ UNCHANGED <<cfg, store, disk, made, temps>>
    BY <1>2 DEF CountWritten, Answered, At
  <2> QED
    BY <2>1, GotoKeeps
<1>3. CASE Count(c)
  <2> DEFINE o == outcome(call[c].op, call[c].res)
             pc == IF call[c].op = "get" /\ o = "hit" THEN "body" ELSE "idle"
  <2>1. pc \in {"idle", "body"} /\ (pc = "body" => call[c].op = "get" /\ call[c].res = "nil")
    BY DEF outcome
  <2>2. /\ Answered(c) /\ ~At(c, "idle") /\ Goto(c, pc)
        /\ UNCHANGED <<cfg, store, disk, made, temps>>
    BY <1>3 DEF Count, Answered, At
  <2> HIDE DEF pc
  <2> QED
    BY <2>1, <2>2, GotoKeeps
<1> QED
  BY <1>1, <1>2, <1>3 DEF CountStep

\* Reading and closing the body of a hit leaves its answer (tier.go).
LEMMA BodyStepKeeps ==
    ASSUME IInv, Watch, NEW c \in Callers, BodyStep(c)
    PROVE  Keeps(c)
<1>1. call[c].pc \in {"body", "closed"}
  BY DEF BodyStep, BodyRead, BodyClose, FaultForward, At
<1>2. /\ Answered(c) /\ ~At(c, "idle") /\ call[c].op = "get" /\ call[c].res = "nil"
      /\ call[c] \in Calls
  BY <1>1, SMTT(30) DEF IInv, Shape, CallOK, InStep, Answered, At
<1>3. /\ call[c].by \in Callers \cup {"foreign"} /\ Kept(call[c].by, call[c].meta)
      /\ call[c].meta.Size = call[c].len /\ call[c].n <= call[c].len
      /\ call[c].meta \in Meta /\ call[c].n \in Nat /\ call[c].len \in Nat
  BY <1>2, Zenon DEF IInv, CallOK, Given, Calls
<1>4. CASE BodyRead(c)
  <2> DEFINE f == [call[c] EXCEPT !.n = @ + 1]
  <2>1. f \in Calls
    BY <1>2, <1>3 DEF Calls
  <2>2. call' = [call EXCEPT ![c] = f]
    BY <1>4 DEF BodyRead, IInv, Shape
  <2>3. /\ f.pc = "body" /\ f.op = call[c].op /\ f.res = call[c].res /\ f.by = call[c].by
        /\ f.len = call[c].len /\ f.meta = call[c].meta /\ f.n <= f.len
    BY <1>2, <1>3, <1>4 DEF Calls, BodyRead, At
  <2>4. UNCHANGED <<cfg, store, made, temps>> /\ DiskTrue'
    BY <1>4, DiskStays, SMTT(30) DEF BodyRead, IInv
  <2> HIDE DEF f
  <2> QED
    BY <1>2, <2>1, <2>2, <2>3, <2>4, AnsweredKeeps, Zenon
<1>5. CASE BodyClose(c)
  <2> DEFINE pc == IF At(c, "body") THEN "closed" ELSE "idle"
  <2>1. pc \in {"idle", "closed"} /\ Goto(c, pc) /\ UNCHANGED <<cfg, store, disk, made, temps>>
    BY <1>5 DEF BodyClose
  <2> HIDE DEF pc
  <2> QED
    BY <1>2, <2>1, GotoKeeps, Zenon
<1>6. CASE FaultForward(c)
  <2> DEFINE f == [call[c] EXCEPT !.pc = "idle"]
  <2>1. f \in Calls
    BY <1>2 DEF Calls, Pcs
  <2>2. Served(call[c].meta) = call[c].meta
    BY <1>3, MessageExact
  <2>3. call' = [call EXCEPT ![c] = f]
    BY <1>2, <1>6, <2>2, Zenon DEF FaultForward, IInv, Shape, Calls
  <2>4. /\ f.pc = "idle" /\ f.op = call[c].op /\ f.res = call[c].res /\ f.by = call[c].by
        /\ f.len = call[c].len /\ f.meta = call[c].meta /\ f.n = call[c].n
    BY <1>2 DEF Calls
  <2>5. UNCHANGED <<cfg, store, made, temps>>
    BY <1>6 DEF FaultForward
  <2>6. DiskTrue'
    <3>1. disk' = DiskPut(call[c].by, call[c].meta, call[c].meta.Size)
      BY <1>3, <1>6 DEF FaultForward, Whole
    <3> QED
      BY <1>3, <2>5, <3>1, CopyKept DEF IInv
  <2> HIDE DEF f
  <2> QED
    BY <1>2, <2>1, <2>3, <2>4, <2>5, <2>6, AnsweredKeeps, Zenon
<1> QED
  BY <1>4, <1>5, <1>6 DEF BodyStep

-----------------------------------------------------------------------------
(* The theorems.                                                           *)

\* The invariant holds initially.
LEMMA InitOK == Init => IInv
<1> SUFFICES ASSUME Init PROVE IInv
  OBVIOUS
<1> DEFINE k == Call("idle", "stat", 0)
<1>1. k \in Calls
  BY CallTyped, BucketAssumption DEF Pcs, Ops
<1>2. k.pc = "idle" /\ k.op = "stat" /\ k.res = "error"
  BY DEF Call
<1> HIDE DEF k
<1>3. call = [c \in Callers |-> k] /\ temps = {}
  BY DEF Init, k
<1>4. Shape
  BY <1>1, <1>3, BucketAssumption, SMTT(30) DEF Init, Shape
<1>5. StoreTrue /\ DiskTrue
  BY BucketConfigs, SMTT(30) DEF Init, StoreTrue, DiskTrue
<1>6. ASSUME NEW c \in Callers PROVE CallOK(c)
  <2>1. call[c] = k
    BY <1>3
  <2> QED
    BY <1>2, <1>3, <2>1 DEF CallOK, InStep, Given, Staged, Told, At
<1> QED
  BY <1>4, <1>5, <1>6 DEF IInv

\* What every step of a caller keeps.
LEMMA StepKeeps ==
    ASSUME IInv, Watch, NEW c \in Callers, Step(c)
    PROVE  Keeps(c)
<1>1. CASE PutStep(c)
  BY <1>1, PutBeginKeeps, StageHeadKeeps, StageCopyKeeps, PutSendKeeps, Zenon DEF PutStep
<1>2. CASE AskStep(c)
  BY <1>2, AskKeeps, AskBeginKeeps, FrontAnswersKeeps, Zenon DEF AskStep
<1>3. CASE DeleteStep(c)
  BY <1>3, DeleteBeginKeeps, DeleteKeeps, Zenon DEF DeleteStep
<1> QED
  BY <1>1, <1>2, <1>3, CountStepKeeps, BodyStepKeeps, Zenon DEF Step

\* Every step keeps the invariant.
LEMMA StepOK == IInv /\ [Next]_vars => IInv'
<1> SUFFICES ASSUME IInv, [Next]_vars PROVE IInv'
  OBVIOUS
<1>1. CASE Next
  <2>1. PICK c \in Callers : Step(c)
    BY <1>1 DEF Next
  <2>2. Watch
    BY <1>1 DEF Next
  <2>3. Keeps(c)
    BY <2>1, <2>2, StepKeeps, Zenon
  <2>4. ASSUME NEW d \in Callers PROVE CallOK(d)'
    <3>1. CASE d = c
      BY <2>3, <3>1 DEF Keeps
    <3>2. CASE d # c
      BY <2>2, <2>3, <3>2, OthersKeep DEF Keeps, IInv
    <3> QED
      BY <3>1, <3>2
  <2> QED
    BY <2>3, <2>4 DEF Keeps, IInv
<1>2. CASE UNCHANGED vars
  <2>1. UNCHANGED <<cfg, store, disk, call, made, temps, was>>
    BY <1>2 DEF vars
  <2>2. Shape' /\ StoreTrue' /\ DiskTrue'
    BY <2>1, StoreStays, DiskStays DEF IInv, Shape
  <2>3. ASSUME NEW d \in Callers PROVE CallOK(d)'
    BY <2>1, Zenon DEF IInv, CallOK, InStep, Given, Staged, Told, Answered, At, Kept, Source
  <2> QED
    BY <2>2, <2>3 DEF IInv
<1> QED
  BY <1>1, <1>2

\* The invariant of the bucket tier holds throughout.
LEMMA Inductive == Spec => []IInv
  BY InitOK, StepOK, PTL DEF Spec

\* Every reachable state is well-typed, and no body is read past its end.
THEOREM TypeCorrect == Spec => []TypeOK
<1>1. IInv => TypeOK
  <2> SUFFICES ASSUME IInv PROVE TypeOK
    OBVIOUS
  <2>1. store.by \in Callers \cup {"nobody", "foreign"}
    <3>1. Absent.by = "nobody"
      BY DEF Absent
    <3> QED
      BY <3>1, StoreKept DEF IInv, Shape
  <2>2. disk.by \in Callers \cup {"nobody", "foreign"}
    BY DEF IInv, DiskTrue, Absent
  <2>3. ASSUME NEW c \in Callers, At(c, "body") PROVE call[c].n <= call[c].len
    BY <2>3 DEF IInv, CallOK, InStep, Given, Answered, At
  <2> QED
    BY <2>1, <2>2, <2>3 DEF TypeOK, IInv, Shape, Calls
<1> QED
  BY <1>1, Inductive, PTL

\* Whatever way an object takes, through the tier in front, the bucket with
\* its own spelling of names or none of its own, and over the wire, a reader
\* is told the metadata of the Put whose bytes it gets (bucket.go metadataFor,
\* metaFrom; disk header.go; server and remote toProto, fromProto).
THEOREM MetadataSurvive == Spec => []MetaKept
<1>1. IInv => MetaKept
  BY DEF IInv, CallOK, Given, MetaKept
<1> QED
  BY <1>1, Inductive, PTL

\* Nothing is ever stored from a body whose reader failed (bucket.go stage).
THEOREM OnlyWholeBodies == Spec => []UploadsWhole
<1>1. IInv => UploadsWhole
  <2> SUFFICES ASSUME IInv, store.by \in Callers PROVE Source(store.by).whole
    BY DEF UploadsWhole
  <2>1. store # Absent /\ store # Foreign
    BY BucketAssumption, SMTT(30) DEF Absent, Foreign
  <2>2. PICK b \in Callers : store = Sent(b) /\ Source(b).whole
    BY <2>1 DEF IInv, StoreTrue
  <2>3. store.by = b
    BY <2>2, Zenon DEF Sent
  <2> QED
    BY <2>2, <2>3
<1> QED
  BY <1>1, Inductive, PTL

\* A staged file is there exactly while a Put needs it, however Put or its
\* staging ends (bucket.go stage, Put).
THEOREM StagesReleased == Spec => []StagedReleased
<1>1. IInv => StagedReleased
  BY DEF IInv, CallOK, Staged, StagedReleased
<1> QED
  BY <1>1, Inductive, PTL

\* Put's nil and ErrExists, and the miss of a Get or Stat, are true of the
\* bucket at a moment of the call, with any number of retries of requests that
\* had been carried out (bucket.go Put, Get, Stat, isNotFound).
THEOREM AnswersAreTrue == Spec => []AnswersTrue
<1>1. IInv => AnswersTrue
  BY DEF IInv, CallOK, Told, AnswersTrue
<1> QED
  BY <1>1, Inductive, PTL

\* An object that every caller puts as immutable is never replaced (bucket.go
\* Put with IfNoneMatch).
THEOREM ImmutableWrittenOnce == Spec => WrittenOnce
<1> DEFINE A == (\A c \in Callers : Source(c).meta.Immutable) /\ store # Absent =>
                    store' \in {store, Absent}
<1>1. IInv /\ [Next]_vars => [A]_vars
  <2> SUFFICES ASSUME IInv, Next, \A c \in Callers : Source(c).meta.Immutable, store # Absent
               PROVE  store' \in {store, Absent}
    BY DEF vars
  <2>1. PICK c \in Callers : Step(c)
    BY DEF Next
  <2>2. CASE PutSend(c)
    <3>1. Source(c).meta \in Meta
      BY SourceTyped DEF IInv, Shape
    <3>2. Conditional(c)
      BY <3>1, MessageExact DEF Conditional
    <3>3. \A r \in PutObject(c, Sent(c)) : r.store = store
      BY <3>2 DEF PutObject, Faults
    <3> QED
      BY <2>2, <3>3 DEF PutSend
  <2>3. CASE Delete(c)
    <3>1. \A r \in DeleteObject : r.store \in {store, Absent}
      BY DEF DeleteObject, Faults
    <3> QED
      BY <2>3, <3>1 DEF Delete
  <2>4. CASE ~PutSend(c) /\ ~Delete(c)
    <3>1. CASE PutStep(c)
      BY <2>4, <3>1 DEF PutStep, PutBegin, StageHead, StageCopy
    <3>2. CASE AskStep(c) \/ DeleteStep(c)
      BY <2>4, <3>2, Zenon DEF AskStep, Ask, AskBegin, FrontAnswers, DeleteStep, DeleteBegin
    <3>3. CASE CountStep(c) \/ BodyStep(c)
      BY <3>3 DEF CountStep, Observe, CountWritten, Count, BodyStep, BodyRead, BodyClose,
                  FaultForward
    <3> QED
      BY <2>1, <3>1, <3>2, <3>3 DEF Step
  <2> QED
    BY <2>2, <2>3, <2>4
<1>2. Spec => [][A]_vars
  BY <1>1, Inductive, PTL DEF Spec
<1> QED
  BY <1>2 DEF WrittenOnce

-----------------------------------------------------------------------------
(* The counters.  What the recorder has counted and what the calls under   *)
(* way have still to count are together what the tier answered and moved.  *)

\* The total of what each caller owes, as the number of units owed.
Weight(f) == Cardinality(UNION {{c} \X (1 .. f[c]) : c \in Callers})

\* The total is what c owes and what the others owe.
LEMMA WeightSplit ==
    ASSUME NEW f \in [Callers -> Nat], NEW c \in Callers,
           NEW R, R = UNION {{d} \X (1 .. f[d]) : d \in Callers \ {c}}
    PROVE  Cardinality(R) \in Nat /\ Weight(f) = Cardinality(R) + f[c]
<1>1. PICK O : O = Callers \ {c}
  BY Zenon
<1>2. IsFiniteSet(O)
  BY <1>1, CallersAssumption, FS_Subset
<1>3. PICK h : h = [d \in O |-> {d} \X (1 .. f[d])]
  BY Zenon
<1>4. PICK T : T = {h[d] : d \in O}
  BY Zenon
<1>5. IsFiniteSet(T)
  <2>1. h \in Surjection(O, T)
    BY <1>3, <1>4, Zenon DEF Surjection
  <2> QED
    BY <1>2, <2>1, FS_Surjection, Zenon
<1>6. ASSUME NEW d \in Callers
      PROVE  IsFiniteSet({d} \X (1 .. f[d])) /\ Cardinality({d} \X (1 .. f[d])) = f[d]
  <2>1. f[d] \in Nat
    OBVIOUS
  <2>2. PICK I : I = 1 .. f[d]
    BY Zenon
  <2>3. IsFiniteSet(I) /\ Cardinality(I) = f[d]
    BY <2>1, <2>2, FS_Interval
  <2>4. IsFiniteSet({d}) /\ Cardinality({d}) = 1
    BY FS_Singleton, Zenon
  <2>5. IsFiniteSet({d} \X I) /\ Cardinality({d} \X I) = 1 * Cardinality(I)
    BY <2>3, <2>4, FS_Product
  <2> QED
    BY <2>1, <2>2, <2>3, <2>5
<1>7. R = UNION T /\ IsFiniteSet(R)
  <2>1. R = UNION T
    BY <1>1, <1>3, <1>4, Zenon
  <2>2. \A t \in T : IsFiniteSet(t)
    BY <1>1, <1>3, <1>4, <1>6, Zenon
  <2> QED
    BY <1>5, <2>1, <2>2, FS_UNION, Zenon
<1>8. PICK Q : Q = {c} \X (1 .. f[c])
  BY Zenon
<1>9. IsFiniteSet(Q) /\ Cardinality(Q) = f[c] /\ f[c] \in Nat
  BY <1>6, <1>8
<1>10. UNION {{d} \X (1 .. f[d]) : d \in Callers} = R \cup Q
  BY <1>8, Zenon
<1>11. R \cap Q = {}
  <2>1. \A x \in Q : x[1] = c
    BY <1>8
  <2>2. \A x \in R : x[1] # c
    <3> SUFFICES ASSUME NEW x \in R PROVE x[1] # c
      OBVIOUS
    <3>1. PICK d \in Callers \ {c} : x \in {d} \X (1 .. f[d])
      BY Zenon
    <3> QED
      BY <3>1
  <2> QED
    BY <2>1, <2>2, Zenon
<1>12. Cardinality(R) \in Nat /\ Cardinality({}) = 0
  BY <1>7, FS_CardinalityType, FS_EmptySet, Zenon
<1>13. Cardinality(R \cup Q) = Cardinality(R) + Cardinality(Q) - Cardinality(R \cap Q)
  BY <1>7, <1>9, FS_Union, Zenon
<1>14. Cardinality(R \cup Q) = Cardinality(R) + f[c]
  <2>1. Cardinality(R \cup Q) = Cardinality(R) + f[c] - 0
    BY <1>9, <1>11, <1>12, <1>13, Zenon
  <2> QED
    BY <1>9, <1>12, <2>1
<1> QED
  BY <1>10, <1>12, <1>14, Zenon DEF Weight

\* When the debt of one caller changes the total changes by as much.
LEMMA OneChanges ==
    ASSUME NEW f \in [Callers -> Nat], NEW g \in [Callers -> Nat], NEW c \in Callers,
           \A d \in Callers \ {c} : g[d] = f[d]
    PROVE  \E k \in Nat : Weight(f) = k + f[c] /\ Weight(g) = k + g[c]
<1>1. PICK R : R = UNION {{d} \X (1 .. f[d]) : d \in Callers \ {c}}
  BY Zenon
<1>2. R = UNION {{d} \X (1 .. g[d]) : d \in Callers \ {c}}
  BY <1>1, Zenon
<1>3. Cardinality(R) \in Nat /\ Weight(f) = Cardinality(R) + f[c]
  BY <1>1, WeightSplit, Zenon
<1>4. Weight(g) = Cardinality(R) + g[c]
  BY <1>2, WeightSplit, Zenon
<1> QED
  BY <1>3, <1>4, Zenon

\* When nobody owes anything the total is zero.
LEMMA NothingOwed ==
    ASSUME NEW f, \A c \in Callers : f[c] = 0
    PROVE  Weight(f) = 0
<1>1. 1 .. 0 = {}
  OBVIOUS
<1>2. \A c \in Callers : {c} \X (1 .. f[c]) = {}
  BY <1>1, Zenon
<1>3. UNION {{c} \X (1 .. f[c]) : c \in Callers} = {}
  BY <1>2, Zenon
<1> QED
  BY <1>3, FS_EmptySet, Zenon DEF Weight

\* The results of a Get and of a Put that each have an outcome of their own.
GetResults == {"nil", "notfound", "error"}
PutResults == {"nil", "exists", "error"}

\* What a call has still to count: its operation, its outcome, the bytes it
\* wrote and those it has read so far.
opDue(q, op) == IF q.pc = "observe" /\ q.op = op THEN 1 ELSE 0
getDue(q, r) ==
    IF q.pc \in {"observe", "count"} /\ q.op = "get" /\ q.res = r THEN 1 ELSE 0
putDue(q, r) ==
    IF q.pc \in {"observe", "bytes", "count"} /\ q.op = "put" /\ q.res = r THEN 1 ELSE 0
writeDue(q) == IF q.pc \in {"observe", "bytes"} /\ q.op = "put" THEN q.n ELSE 0
readDue(q) == IF q.pc = "body" THEN q.n ELSE 0

OpsDue(op) == [c \in Callers |-> opDue(call[c], op)]
GetsDue(r) == [c \in Callers |-> getDue(call[c], r)]
PutsDue(r) == [c \in Callers |-> putDue(call[c], r)]
WritesDue == [c \in Callers |-> writeDue(call[c])]
ReadsDue == [c \in Callers |-> readDue(call[c])]

\* The counters and the history have numbers in every place.
Books ==
    /\ rec \in [get : [Outcomes -> Nat], put : [Outcomes -> Nat], ops : [Ops -> Nat],
                bytesRead : Nat, bytesWritten : Nat]
    /\ tally \in [res : [Ops -> [Results -> Nat]], read : Nat, written : Nat]

AllOf(op) ==
    tally.res[op]["nil"] + tally.res[op]["notfound"] + tally.res[op]["exists"]
        + tally.res[op]["error"]

\* Every account is balanced, and the places that nothing is counted under
\* are empty.
Balanced ==
    /\ \A op \in Ops : rec.ops[op] + Weight(OpsDue(op)) = AllOf(op)
    /\ \A r \in GetResults :
        rec.get[outcome("get", r)] + Weight(GetsDue(r)) = tally.res["get"][r]
    /\ \A r \in PutResults :
        rec.put[outcome("put", r)] + Weight(PutsDue(r)) = tally.res["put"][r]
    /\ rec.bytesWritten + Weight(WritesDue) = tally.written
    /\ rec.bytesRead + Weight(ReadsDue) = tally.read
    /\ tally.res["get"]["exists"] = 0 /\ tally.res["put"]["notfound"] = 0
    /\ rec.get["dropped"] = 0 /\ rec.put["dropped"] = 0

\* A call that is being counted has an outcome of its own, and a Get has not
\* begun to read.
Sorted(q) ==
    /\ q.pc \in {"observe", "bytes", "count"} =>
        /\ q.op = "get" => q.res \in GetResults /\ q.n = 0
        /\ q.op = "put" => q.res \in PutResults
    /\ q.pc = "count" => q.op \in {"get", "put"}
    /\ q.pc = "bytes" => q.op = "put"
    /\ q.pc = "body" => q.op = "get"

CountInv == Books /\ Balanced /\ \A c \in Callers : Sorted(call[c])

\* A call that goes from p to q changes each account by what it owed and owes.
Moves(p, q) ==
    /\ \A op \in Ops :
        rec'.ops[op] + opDue(q, op) + AllOf(op) = AllOf(op)' + opDue(p, op) + rec.ops[op]
    /\ \A r \in GetResults :
        rec'.get[outcome("get", r)] + getDue(q, r) + tally.res["get"][r]
            = tally'.res["get"][r] + getDue(p, r) + rec.get[outcome("get", r)]
    /\ \A r \in PutResults :
        rec'.put[outcome("put", r)] + putDue(q, r) + tally.res["put"][r]
            = tally'.res["put"][r] + putDue(p, r) + rec.put[outcome("put", r)]
    /\ rec'.bytesWritten + writeDue(q) + tally.written
            = tally'.written + writeDue(p) + rec.bytesWritten
    /\ rec'.bytesRead + readDue(q) + tally.read
            = tally'.read + readDue(p) + rec.bytesRead
    /\ tally'.res["get"]["exists"] = 0 /\ tally'.res["put"]["notfound"] = 0
    /\ rec'.get["dropped"] = 0 /\ rec'.put["dropped"] = 0

\* The outcomes of Gets are all different, and so are those of Puts.
LEMMA OutcomesIs ==
    /\ outcome("get", "nil") = "hit" /\ outcome("get", "notfound") = "miss"
    /\ outcome("get", "error") = "error"
    /\ outcome("put", "nil") = "miss" /\ outcome("put", "exists") = "hit"
    /\ outcome("put", "error") = "error"
  BY DEF outcome

\* The books have numbers in the places the accounts name.
Numbers ==
    /\ \A op \in Ops : rec.ops[op] \in Nat /\ AllOf(op) \in Nat
    /\ \A op \in Ops : \A r \in Results : tally.res[op][r] \in Nat
    /\ \A o \in Outcomes : rec.get[o] \in Nat /\ rec.put[o] \in Nat
    /\ rec.bytesWritten \in Nat /\ rec.bytesRead \in Nat
    /\ tally.written \in Nat /\ tally.read \in Nat

\* Books in order have numbers there.
LEMMA BooksNat == Books => Numbers
<1> SUFFICES ASSUME Books PROVE Numbers
  OBVIOUS
<1>1. /\ \A op \in Ops : rec.ops[op] \in Nat
      /\ \A o \in Outcomes : rec.get[o] \in Nat /\ rec.put[o] \in Nat
      /\ rec.bytesWritten \in Nat /\ rec.bytesRead \in Nat
  BY DEF Books
<1>2. /\ \A op \in Ops : \A r \in Results : tally.res[op][r] \in Nat
      /\ tally.written \in Nat /\ tally.read \in Nat
  BY DEF Books
<1>3. \A op \in Ops : AllOf(op) \in Nat
  <2> SUFFICES ASSUME NEW op \in Ops PROVE AllOf(op) \in Nat
    OBVIOUS
  <2>1. /\ tally.res[op]["nil"] \in Nat /\ tally.res[op]["notfound"] \in Nat
        /\ tally.res[op]["exists"] \in Nat /\ tally.res[op]["error"] \in Nat
    BY <1>2, Zenon DEF Results
  <2> QED
    BY <2>1 DEF AllOf
<1> QED
  BY <1>1, <1>2, <1>3, Zenon DEF Numbers

\* The same after a step.
LEMMA BooksNatNext == Books' => Numbers'
  BY BooksNat, PTL

\* What a call owes is a number.
LEMMA DuesNat ==
    ASSUME NEW q \in Calls
    PROVE  /\ \A op : opDue(q, op) \in Nat
           /\ \A r : getDue(q, r) \in Nat /\ putDue(q, r) \in Nat
           /\ writeDue(q) \in Nat /\ readDue(q) \in Nat
<1>1. q.n \in Nat
  BY DEF Calls
<1>2. \A op : opDue(q, op) \in Nat
  BY DEF opDue
<1>3. \A r : getDue(q, r) \in Nat /\ putDue(q, r) \in Nat
  BY DEF getDue, putDue
<1>4. writeDue(q) \in Nat /\ readDue(q) \in Nat
  BY <1>1 DEF writeDue, readDue
<1> QED
  BY <1>2, <1>3, <1>4, Zenon

\* A step of one call that moves every account by what the call owed and owes
\* leaves them balanced.
LEMMA MovesKeep ==
    ASSUME Shape, Shape', Books, Books', Balanced, NEW c \in Callers,
           \A d \in Callers \ {c} : call'[d] = call[d], Moves(call[c], call'[c])
    PROVE  Balanced'
<1>1. Numbers /\ Numbers'
  BY BooksNat, BooksNatNext
<1>2. \A d \in Callers : call[d] \in Calls /\ call'[d] \in Calls
  BY DEF Shape
<1>3. /\ \A r \in GetResults : r \in Results /\ outcome("get", r) \in Outcomes
      /\ \A r \in PutResults : r \in Results /\ outcome("put", r) \in Outcomes
      /\ "get" \in Ops /\ "put" \in Ops
  BY OutcomesIs DEF GetResults, PutResults, Results, Outcomes, Ops
<1>4. ASSUME NEW op \in Ops PROVE (rec.ops[op] + Weight(OpsDue(op)) = AllOf(op))'
  <2>1. PICK f, g : f = OpsDue(op) /\ g = OpsDue(op)'
    BY Zenon
  <2>2. f = [d \in Callers |-> f[d]] /\ \A d \in Callers : f[d] = opDue(call[d], op)
    BY <2>1, Zenon DEF OpsDue
  <2>3. g = [d \in Callers |-> g[d]] /\ \A d \in Callers : g[d] = opDue(call'[d], op)
    BY <2>1, Zenon DEF OpsDue
  <2>4. f \in [Callers -> Nat] /\ g \in [Callers -> Nat]
    <3>1. \A d \in Callers : f[d] \in Nat /\ g[d] \in Nat
      BY <1>2, <2>2, <2>3, DuesNat, ZenonT(40)
    <3> QED
      BY <2>2, <2>3, <3>1
  <2>5. \A d \in Callers \ {c} : g[d] = f[d]
    BY <2>2, <2>3, Zenon
  <2>6. /\ rec.ops[op] \in Nat /\ rec'.ops[op] \in Nat
        /\ AllOf(op) \in Nat /\ AllOf(op)' \in Nat
        /\ rec.ops[op] + Weight(f) = AllOf(op)
    BY <1>1, <2>1, Zenon DEF Numbers, Balanced
  <2>7. rec'.ops[op] + g[c] + AllOf(op) = AllOf(op)' + f[c] + rec.ops[op]
    BY <2>2, <2>3, Zenon DEF Moves
  <2>8. rec'.ops[op] + Weight(g) = AllOf(op)'
    <3>1. PICK k \in Nat : Weight(f) = k + f[c] /\ Weight(g) = k + g[c]
      BY <2>4, <2>5, OneChanges, Zenon
    <3>2. PICK x, y, z, u, a, b : /\ x = rec.ops[op] /\ y = rec'.ops[op]
                                  /\ z = AllOf(op) /\ u = AllOf(op)'
                                  /\ a = f[c] /\ b = g[c]
      BY Zenon
    <3>3. a \in Nat /\ b \in Nat
      BY <2>4, <3>2
    <3>4. /\ x \in Nat /\ y \in Nat /\ z \in Nat /\ u \in Nat
          /\ x + (k + a) = z /\ y + b + z = u + a + x
      BY <2>6, <2>7, <3>1, <3>2, Zenon
    <3>5. y + (k + b) = u
      BY <3>3, <3>4
    <3> QED
      BY <3>1, <3>2, <3>5, Zenon
  <2> QED
    BY <2>1, <2>8
<1>5. ASSUME NEW r \in GetResults
      PROVE  (rec.get[outcome("get", r)] + Weight(GetsDue(r)) = tally.res["get"][r])'
  <2>1. PICK f, g : f = GetsDue(r) /\ g = GetsDue(r)'
    BY Zenon
  <2>2. f = [d \in Callers |-> f[d]] /\ \A d \in Callers : f[d] = getDue(call[d], r)
    BY <2>1, Zenon DEF GetsDue
  <2>3. g = [d \in Callers |-> g[d]] /\ \A d \in Callers : g[d] = getDue(call'[d], r)
    BY <2>1, Zenon DEF GetsDue
  <2>4. f \in [Callers -> Nat] /\ g \in [Callers -> Nat]
    <3>1. \A d \in Callers : f[d] \in Nat /\ g[d] \in Nat
      BY <1>2, <2>2, <2>3, DuesNat, ZenonT(40)
    <3> QED
      BY <2>2, <2>3, <3>1
  <2>5. \A d \in Callers \ {c} : g[d] = f[d]
    BY <2>2, <2>3, Zenon
  <2>6. /\ rec.get[outcome("get", r)] \in Nat /\ rec'.get[outcome("get", r)] \in Nat
        /\ tally.res["get"][r] \in Nat /\ tally'.res["get"][r] \in Nat
        /\ rec.get[outcome("get", r)] + Weight(f) = tally.res["get"][r]
    BY <1>1, <1>3, <2>1, Zenon DEF Numbers, Balanced
  <2>7. rec'.get[outcome("get", r)] + g[c] + tally.res["get"][r] = tally'.res["get"][r] + f[c] + rec.get[outcome("get", r)]
    BY <2>2, <2>3, Zenon DEF Moves
  <2>8. rec'.get[outcome("get", r)] + Weight(g) = tally'.res["get"][r]
    <3>1. PICK k \in Nat : Weight(f) = k + f[c] /\ Weight(g) = k + g[c]
      BY <2>4, <2>5, OneChanges, Zenon
    <3>2. PICK x, y, z, u, a, b : /\ x = rec.get[outcome("get", r)] /\ y = rec'.get[outcome("get", r)]
                                  /\ z = tally.res["get"][r] /\ u = tally'.res["get"][r]
                                  /\ a = f[c] /\ b = g[c]
      BY Zenon
    <3>3. a \in Nat /\ b \in Nat
      BY <2>4, <3>2
    <3>4. /\ x \in Nat /\ y \in Nat /\ z \in Nat /\ u \in Nat
          /\ x + (k + a) = z /\ y + b + z = u + a + x
      BY <2>6, <2>7, <3>1, <3>2, Zenon
    <3>5. y + (k + b) = u
      BY <3>3, <3>4
    <3> QED
      BY <3>1, <3>2, <3>5, Zenon
  <2> QED
    BY <2>1, <2>8
<1>6. ASSUME NEW r \in PutResults
      PROVE  (rec.put[outcome("put", r)] + Weight(PutsDue(r)) = tally.res["put"][r])'
  <2>1. PICK f, g : f = PutsDue(r) /\ g = PutsDue(r)'
    BY Zenon
  <2>2. f = [d \in Callers |-> f[d]] /\ \A d \in Callers : f[d] = putDue(call[d], r)
    BY <2>1, Zenon DEF PutsDue
  <2>3. g = [d \in Callers |-> g[d]] /\ \A d \in Callers : g[d] = putDue(call'[d], r)
    BY <2>1, Zenon DEF PutsDue
  <2>4. f \in [Callers -> Nat] /\ g \in [Callers -> Nat]
    <3>1. \A d \in Callers : f[d] \in Nat /\ g[d] \in Nat
      BY <1>2, <2>2, <2>3, DuesNat, ZenonT(40)
    <3> QED
      BY <2>2, <2>3, <3>1
  <2>5. \A d \in Callers \ {c} : g[d] = f[d]
    BY <2>2, <2>3, Zenon
  <2>6. /\ rec.put[outcome("put", r)] \in Nat /\ rec'.put[outcome("put", r)] \in Nat
        /\ tally.res["put"][r] \in Nat /\ tally'.res["put"][r] \in Nat
        /\ rec.put[outcome("put", r)] + Weight(f) = tally.res["put"][r]
    BY <1>1, <1>3, <2>1, Zenon DEF Numbers, Balanced
  <2>7. rec'.put[outcome("put", r)] + g[c] + tally.res["put"][r] = tally'.res["put"][r] + f[c] + rec.put[outcome("put", r)]
    BY <2>2, <2>3, Zenon DEF Moves
  <2>8. rec'.put[outcome("put", r)] + Weight(g) = tally'.res["put"][r]
    <3>1. PICK k \in Nat : Weight(f) = k + f[c] /\ Weight(g) = k + g[c]
      BY <2>4, <2>5, OneChanges, Zenon
    <3>2. PICK x, y, z, u, a, b : /\ x = rec.put[outcome("put", r)] /\ y = rec'.put[outcome("put", r)]
                                  /\ z = tally.res["put"][r] /\ u = tally'.res["put"][r]
                                  /\ a = f[c] /\ b = g[c]
      BY Zenon
    <3>3. a \in Nat /\ b \in Nat
      BY <2>4, <3>2
    <3>4. /\ x \in Nat /\ y \in Nat /\ z \in Nat /\ u \in Nat
          /\ x + (k + a) = z /\ y + b + z = u + a + x
      BY <2>6, <2>7, <3>1, <3>2, Zenon
    <3>5. y + (k + b) = u
      BY <3>3, <3>4
    <3> QED
      BY <3>1, <3>2, <3>5, Zenon
  <2> QED
    BY <2>1, <2>8
<1>7. (rec.bytesWritten + Weight(WritesDue) = tally.written)'
  <2>1. PICK f, g : f = WritesDue /\ g = WritesDue'
    BY Zenon
  <2>2. f = [d \in Callers |-> f[d]] /\ \A d \in Callers : f[d] = writeDue(call[d])
    BY <2>1, Zenon DEF WritesDue
  <2>3. g = [d \in Callers |-> g[d]] /\ \A d \in Callers : g[d] = writeDue(call'[d])
    BY <2>1, Zenon DEF WritesDue
  <2>4. f \in [Callers -> Nat] /\ g \in [Callers -> Nat]
    <3>1. \A d \in Callers : f[d] \in Nat /\ g[d] \in Nat
      BY <1>2, <2>2, <2>3, DuesNat, Zenon
    <3> QED
      BY <2>2, <2>3, <3>1
  <2>5. \A d \in Callers \ {c} : g[d] = f[d]
    BY <2>2, <2>3, Zenon
  <2>6. /\ rec.bytesWritten \in Nat /\ rec'.bytesWritten \in Nat
        /\ tally.written \in Nat /\ tally'.written \in Nat
        /\ rec.bytesWritten + Weight(f) = tally.written
    BY <1>1, <2>1, Zenon DEF Numbers, Balanced
  <2>7. rec'.bytesWritten + g[c] + tally.written = tally'.written + f[c] + rec.bytesWritten
    BY <2>2, <2>3, Zenon DEF Moves
  <2>8. rec'.bytesWritten + Weight(g) = tally'.written
    <3>1. PICK k \in Nat : Weight(f) = k + f[c] /\ Weight(g) = k + g[c]
      BY <2>4, <2>5, OneChanges, Zenon
    <3>2. PICK x, y, z, u, a, b : /\ x = rec.bytesWritten /\ y = rec'.bytesWritten
                                  /\ z = tally.written /\ u = tally'.written
                                  /\ a = f[c] /\ b = g[c]
      BY Zenon
    <3>3. a \in Nat /\ b \in Nat
      BY <2>4, <3>2
    <3>4. /\ x \in Nat /\ y \in Nat /\ z \in Nat /\ u \in Nat
          /\ x + (k + a) = z /\ y + b + z = u + a + x
      BY <2>6, <2>7, <3>1, <3>2, Zenon
    <3>5. y + (k + b) = u
      BY <3>3, <3>4
    <3> QED
      BY <3>1, <3>2, <3>5, Zenon
  <2> QED
    BY <2>1, <2>8
<1>8. (rec.bytesRead + Weight(ReadsDue) = tally.read)'
  <2>1. PICK f, g : f = ReadsDue /\ g = ReadsDue'
    BY Zenon
  <2>2. f = [d \in Callers |-> f[d]] /\ \A d \in Callers : f[d] = readDue(call[d])
    BY <2>1, Zenon DEF ReadsDue
  <2>3. g = [d \in Callers |-> g[d]] /\ \A d \in Callers : g[d] = readDue(call'[d])
    BY <2>1, Zenon DEF ReadsDue
  <2>4. f \in [Callers -> Nat] /\ g \in [Callers -> Nat]
    <3>1. \A d \in Callers : f[d] \in Nat /\ g[d] \in Nat
      BY <1>2, <2>2, <2>3, DuesNat, Zenon
    <3> QED
      BY <2>2, <2>3, <3>1
  <2>5. \A d \in Callers \ {c} : g[d] = f[d]
    BY <2>2, <2>3, Zenon
  <2>6. /\ rec.bytesRead \in Nat /\ rec'.bytesRead \in Nat
        /\ tally.read \in Nat /\ tally'.read \in Nat
        /\ rec.bytesRead + Weight(f) = tally.read
    BY <1>1, <2>1, Zenon DEF Numbers, Balanced
  <2>7. rec'.bytesRead + g[c] + tally.read = tally'.read + f[c] + rec.bytesRead
    BY <2>2, <2>3, Zenon DEF Moves
  <2>8. rec'.bytesRead + Weight(g) = tally'.read
    <3>1. PICK k \in Nat : Weight(f) = k + f[c] /\ Weight(g) = k + g[c]
      BY <2>4, <2>5, OneChanges, Zenon
    <3>2. PICK x, y, z, u, a, b : /\ x = rec.bytesRead /\ y = rec'.bytesRead
                                  /\ z = tally.read /\ u = tally'.read
                                  /\ a = f[c] /\ b = g[c]
      BY Zenon
    <3>3. a \in Nat /\ b \in Nat
      BY <2>4, <3>2
    <3>4. /\ x \in Nat /\ y \in Nat /\ z \in Nat /\ u \in Nat
          /\ x + (k + a) = z /\ y + b + z = u + a + x
      BY <2>6, <2>7, <3>1, <3>2, Zenon
    <3>5. y + (k + b) = u
      BY <3>3, <3>4
    <3> QED
      BY <3>1, <3>2, <3>5, Zenon
  <2> QED
    BY <2>1, <2>8
<1> QED
  BY <1>4, <1>5, <1>6, <1>7, <1>8, Zenon DEF Balanced, Moves

-----------------------------------------------------------------------------
(* What the steps enter into the accounts.                                 *)

\* The steps of a call at which it owes nothing.
Silent == {"idle", "stage", "copy", "send", "ask", "delete", "closed"}

Entered(p, q) == Books' /\ Moves(p, q) /\ Sorted(q)

\* There a call owes nothing.
LEMMA SilentOwes ==
    ASSUME NEW q, q.pc \in Silent
    PROVE  /\ \A op : opDue(q, op) = 0
           /\ \A r : getDue(q, r) = 0 /\ putDue(q, r) = 0
           /\ writeDue(q) = 0 /\ readDue(q) = 0
           /\ Sorted(q)
<1>1. q.pc \notin {"observe", "bytes", "count", "body"}
  BY DEF Silent
<1>2. Sorted(q)
  BY <1>1 DEF Sorted
<1> QED
  BY <1>1, <1>2, Zenon DEF opDue, getDue, putDue, writeDue, readDue

\* A step between two of them enters nothing.
LEMMA SilentMoves ==
    ASSUME Books, Balanced, NEW p, NEW q, p.pc \in Silent, q.pc \in Silent,
           UNCHANGED <<rec, tally>>
    PROVE  Entered(p, q)
<1>1. Books'
  BY Zenon DEF Books
<1>2. /\ rec' = rec /\ tally' = tally /\ \A op : AllOf(op)' = AllOf(op)
  BY Zenon DEF AllOf
<1>3. Numbers
  BY BooksNat
<1>4. /\ \A r \in GetResults : r \in Results /\ outcome("get", r) \in Outcomes
      /\ \A r \in PutResults : r \in Results /\ outcome("put", r) \in Outcomes
      /\ "get" \in Ops /\ "put" \in Ops
  BY OutcomesIs DEF GetResults, PutResults, Results, Outcomes, Ops
<1>5. \A x, y \in Nat : x + 0 + y = y + 0 + x
  OBVIOUS
<1>6. /\ \A op : opDue(p, op) = 0 /\ opDue(q, op) = 0
      /\ \A r : getDue(p, r) = 0 /\ getDue(q, r) = 0 /\ putDue(p, r) = 0 /\ putDue(q, r) = 0
      /\ writeDue(p) = 0 /\ writeDue(q) = 0 /\ readDue(p) = 0 /\ readDue(q) = 0
      /\ Sorted(q)
  BY SilentOwes, Zenon
<1>7. ASSUME NEW op \in Ops
      PROVE  rec'.ops[op] + opDue(q, op) + AllOf(op) = AllOf(op)' + opDue(p, op) + rec.ops[op]
  BY <1>2, <1>3, <1>5, <1>6, ZenonT(40) DEF Numbers
<1>8. ASSUME NEW r \in GetResults
      PROVE  rec'.get[outcome("get", r)] + getDue(q, r) + tally.res["get"][r]
               = tally'.res["get"][r] + getDue(p, r) + rec.get[outcome("get", r)]
  <2>1. /\ rec.get[outcome("get", r)] \in Nat /\ tally.res["get"][r] \in Nat
        /\ rec'.get[outcome("get", r)] = rec.get[outcome("get", r)]
        /\ tally'.res["get"][r] = tally.res["get"][r]
    BY <1>2, <1>3, <1>4, Zenon DEF Numbers
  <2>2. getDue(q, r) = 0 /\ getDue(p, r) = 0
    BY <1>6, Zenon
  <2> QED
    BY <1>5, <2>1, <2>2, Zenon
<1>9. ASSUME NEW r \in PutResults
      PROVE  rec'.put[outcome("put", r)] + putDue(q, r) + tally.res["put"][r]
               = tally'.res["put"][r] + putDue(p, r) + rec.put[outcome("put", r)]
  <2>1. /\ rec.put[outcome("put", r)] \in Nat /\ tally.res["put"][r] \in Nat
        /\ rec'.put[outcome("put", r)] = rec.put[outcome("put", r)]
        /\ tally'.res["put"][r] = tally.res["put"][r]
    BY <1>2, <1>3, <1>4, Zenon DEF Numbers
  <2>2. putDue(q, r) = 0 /\ putDue(p, r) = 0
    BY <1>6, Zenon
  <2> QED
    BY <1>5, <2>1, <2>2, Zenon
<1>10. /\ rec'.bytesWritten + writeDue(q) + tally.written
            = tally'.written + writeDue(p) + rec.bytesWritten
       /\ rec'.bytesRead + readDue(q) + tally.read
            = tally'.read + readDue(p) + rec.bytesRead
  BY <1>2, <1>3, <1>5, <1>6, Zenon DEF Numbers
<1>11. Moves(p, q)
  BY <1>2, <1>7, <1>8, <1>9, <1>10, Zenon DEF Moves, Balanced
<1> QED
  BY <1>1, <1>6, <1>11, Zenon DEF Entered

\* An answer is entered into the history, and the call owes it to the counters.
LEMMA AnswerMoves ==
    ASSUME Books, Balanced, NEW p, NEW q, p.pc \in Silent, p.op \in Ops,
           NEW res \in Results, NEW n \in Nat,
           q.pc = "observe", q.op = p.op, q.res = res, q.n = n, rec' = rec,
           tally' = [tally EXCEPT !.res[p.op][res] = @ + 1, !.written = @ + n],
           p.op = "put" => res # "notfound", p.op = "get" => res # "exists",
           p.op # "put" => n = 0
    PROVE  Entered(p, q)
<1>1. PICK o \in Ops : o = p.op
  BY Zenon
<1>2. Numbers
  BY BooksNat
<1>3. /\ tally'.read = tally.read /\ tally'.written = tally.written + n
      /\ \A a \in Ops : \A r \in Results :
            tally'.res[a][r] = IF a = o /\ r = res THEN tally.res[a][r] + 1 ELSE tally.res[a][r]
  BY <1>1 DEF Books
<1>4. Books'
  <2>1. PICK m \in [Ops -> [Results -> Nat]] : m = tally.res
    BY DEF Books
  <2>2. [m EXCEPT ![o][res] = @ + 1] \in [Ops -> [Results -> Nat]]
    <3>1. m[o] \in [Results -> Nat] /\ [m[o] EXCEPT ![res] = @ + 1] \in [Results -> Nat]
      BY <2>1
    <3> QED
      BY <3>1
  <2>3. tally' = [res |-> [m EXCEPT ![o][res] = @ + 1], read |-> tally.read,
                  written |-> tally.written + n]
    BY <1>1, <2>1, Zenon DEF Books
  <2>4. tally' \in [res : [Ops -> [Results -> Nat]], read : Nat, written : Nat]
    <3>1. tally.read \in Nat /\ tally.written + n \in Nat
      BY <1>2 DEF Numbers
    <3>2. PICK k \in [Ops -> [Results -> Nat]] : k = [m EXCEPT ![o][res] = @ + 1]
      BY <2>2, Zenon
    <3>3. tally' = [res |-> k, read |-> tally.read, written |-> tally.written + n]
      BY <2>3, <3>2, Zenon
    <3> QED
      BY <3>1, <3>3
  <2> QED
    BY <2>4, Zenon DEF Books
<1>5. Sorted(q)
  BY DEF Sorted, GetResults, PutResults, Results
<1>6. ASSUME NEW a \in Ops
      PROVE  rec'.ops[a] + opDue(q, a) + AllOf(a) = AllOf(a)' + opDue(p, a) + rec.ops[a]
  <2>1. opDue(p, a) = 0 /\ opDue(q, a) = IF a = o THEN 1 ELSE 0
    BY <1>1, SilentOwes DEF opDue
  <2>2. AllOf(a)' = IF a = o THEN AllOf(a) + 1 ELSE AllOf(a)
    <3>1. /\ tally.res[a]["nil"] \in Nat /\ tally.res[a]["notfound"] \in Nat
          /\ tally.res[a]["exists"] \in Nat /\ tally.res[a]["error"] \in Nat
      BY <1>2, Zenon DEF Numbers, Results
    <3>2. \A r \in {"nil", "notfound", "exists", "error"} :
            tally'.res[a][r] = IF a = o /\ r = res THEN tally.res[a][r] + 1 ELSE tally.res[a][r]
      BY <1>3 DEF Results
    <3>3. res \in {"nil", "notfound", "exists", "error"}
      BY DEF Results
    <3> QED
      BY <3>1, <3>2, <3>3 DEF AllOf
  <2>3. rec.ops[a] \in Nat /\ AllOf(a) \in Nat /\ rec'.ops[a] = rec.ops[a]
    BY <1>2 DEF Numbers
  <2> QED
    BY <2>1, <2>2, <2>3
<1>7. ASSUME NEW r \in GetResults
      PROVE  rec'.get[outcome("get", r)] + getDue(q, r) + tally.res["get"][r]
               = tally'.res["get"][r] + getDue(p, r) + rec.get[outcome("get", r)]
  <2>1. r \in Results /\ "get" \in Ops /\ outcome("get", r) \in Outcomes
    BY OutcomesIs DEF GetResults, Results, Ops, Outcomes
  <2>2. getDue(p, r) = 0 /\ getDue(q, r) = IF "get" = o /\ r = res THEN 1 ELSE 0
    BY <1>1, SilentOwes DEF getDue
  <2>3. /\ rec.get[outcome("get", r)] \in Nat /\ tally.res["get"][r] \in Nat
        /\ rec'.get[outcome("get", r)] = rec.get[outcome("get", r)]
    BY <1>2, <2>1, Zenon DEF Numbers
  <2> QED
    BY <1>3, <2>1, <2>2, <2>3
<1>8. ASSUME NEW r \in PutResults
      PROVE  rec'.put[outcome("put", r)] + putDue(q, r) + tally.res["put"][r]
               = tally'.res["put"][r] + putDue(p, r) + rec.put[outcome("put", r)]
  <2>1. r \in Results /\ "put" \in Ops /\ outcome("put", r) \in Outcomes
    BY OutcomesIs DEF PutResults, Results, Ops, Outcomes
  <2>2. putDue(p, r) = 0 /\ putDue(q, r) = IF "put" = o /\ r = res THEN 1 ELSE 0
    BY <1>1, SilentOwes DEF putDue
  <2>3. /\ rec.put[outcome("put", r)] \in Nat /\ tally.res["put"][r] \in Nat
        /\ rec'.put[outcome("put", r)] = rec.put[outcome("put", r)]
    BY <1>2, <2>1, Zenon DEF Numbers
  <2> QED
    BY <1>3, <2>1, <2>2, <2>3
<1>9. rec'.bytesWritten + writeDue(q) + tally.written
        = tally'.written + writeDue(p) + rec.bytesWritten
  <2>1. writeDue(p) = 0 /\ writeDue(q) = n
    BY SilentOwes DEF writeDue
  <2> QED
    BY <1>2, <1>3, <2>1 DEF Numbers
<1>10. rec'.bytesRead + readDue(q) + tally.read = tally'.read + readDue(p) + rec.bytesRead
  <2>1. readDue(p) = 0 /\ readDue(q) = 0
    BY SilentOwes DEF readDue
  <2> QED
    BY <1>2, <1>3, <2>1 DEF Numbers
<1>11. tally'.res["get"]["exists"] = 0 /\ tally'.res["put"]["notfound"] = 0
  <2>1. "get" \in Ops /\ "put" \in Ops /\ "exists" \in Results /\ "notfound" \in Results
    BY DEF Ops, Results
  <2>2. tally.res["get"]["exists"] = 0 /\ tally.res["put"]["notfound"] = 0
    BY Zenon DEF Balanced
  <2> QED
    BY <1>1, <1>3, <2>1, <2>2
<1>12. rec'.get["dropped"] = 0 /\ rec'.put["dropped"] = 0
  BY Zenon DEF Balanced
<1>13. Moves(p, q)
  BY <1>6, <1>7, <1>8, <1>9, <1>10, <1>11, <1>12, Zenon DEF Moves
<1> QED
  BY <1>4, <1>5, <1>13, Zenon DEF Entered

\* A step of the recorder pays what the call owed, and enters no answer.
LEMMA RecorderMoves ==
    ASSUME Books, Books', Balanced, NEW p \in Calls, NEW q \in Calls, Sorted(q), tally' = tally,
           \A op \in Ops : rec'.ops[op] + opDue(q, op) = rec.ops[op] + opDue(p, op),
           \A r \in GetResults :
               rec'.get[outcome("get", r)] + getDue(q, r)
                   = rec.get[outcome("get", r)] + getDue(p, r),
           \A r \in PutResults :
               rec'.put[outcome("put", r)] + putDue(q, r)
                   = rec.put[outcome("put", r)] + putDue(p, r),
           rec'.bytesWritten + writeDue(q) = rec.bytesWritten + writeDue(p),
           rec'.bytesRead + readDue(q) = rec.bytesRead + readDue(p),
           rec'.get["dropped"] = rec.get["dropped"], rec'.put["dropped"] = rec.put["dropped"]
    PROVE  Entered(p, q)
<1>1. Numbers /\ Numbers'
  BY BooksNat, BooksNatNext
<1>2. /\ \A r \in GetResults : r \in Results /\ outcome("get", r) \in Outcomes
      /\ \A r \in PutResults : r \in Results /\ outcome("put", r) \in Outcomes
      /\ "get" \in Ops /\ "put" \in Ops
  BY OutcomesIs, Zenon DEF GetResults, PutResults, Results, Outcomes, Ops
<1>3. /\ \A op \in Ops : opDue(p, op) \in Nat /\ opDue(q, op) \in Nat
      /\ \A r : getDue(p, r) \in Nat /\ getDue(q, r) \in Nat
      /\ \A r : putDue(p, r) \in Nat /\ putDue(q, r) \in Nat
      /\ writeDue(p) \in Nat /\ writeDue(q) \in Nat /\ readDue(p) \in Nat /\ readDue(q) \in Nat
  BY DuesNat, Zenon
<1>4. ASSUME NEW op \in Ops
      PROVE  rec'.ops[op] + opDue(q, op) + AllOf(op) = AllOf(op)' + opDue(p, op) + rec.ops[op]
  <2>1. AllOf(op)' = AllOf(op)
    BY Zenon DEF AllOf
  <2>2. rec'.ops[op] \in Nat /\ rec.ops[op] \in Nat /\ AllOf(op) \in Nat
    BY <1>1, Zenon DEF Numbers
  <2>3. PICK x, y, a, b, t : /\ x = rec.ops[op] /\ y = rec'.ops[op] /\ a = opDue(p, op)
                             /\ b = opDue(q, op) /\ t = AllOf(op)
    BY Zenon
  <2>4. x \in Nat /\ y \in Nat /\ a \in Nat /\ b \in Nat /\ t \in Nat /\ y + b = x + a
    BY <1>3, <2>2, <2>3, ZenonT(40)
  <2>5. y + b + t = t + a + x
    BY <2>4
  <2> QED
    BY <2>1, <2>3, <2>5, Zenon
<1>5. ASSUME NEW r \in GetResults
      PROVE  rec'.get[outcome("get", r)] + getDue(q, r) + tally.res["get"][r]
               = tally'.res["get"][r] + getDue(p, r) + rec.get[outcome("get", r)]
  <2>1. /\ rec'.get[outcome("get", r)] \in Nat /\ rec.get[outcome("get", r)] \in Nat
        /\ tally.res["get"][r] \in Nat /\ tally'.res["get"][r] = tally.res["get"][r]
    BY <1>1, <1>2, Zenon DEF Numbers
  <2>2. PICK x, y, a, b, t : /\ x = rec.get[outcome("get", r)] /\ y = rec'.get[outcome("get", r)]
                             /\ a = getDue(p, r) /\ b = getDue(q, r) /\ t = tally.res["get"][r]
    BY Zenon
  <2>3. x \in Nat /\ y \in Nat /\ a \in Nat /\ b \in Nat /\ t \in Nat /\ y + b = x + a
    BY <1>3, <2>1, <2>2, ZenonT(40)
  <2>4. y + b + t = t + a + x
    BY <2>3
  <2> QED
    BY <2>1, <2>2, <2>4, Zenon
<1>6. ASSUME NEW r \in PutResults
      PROVE  rec'.put[outcome("put", r)] + putDue(q, r) + tally.res["put"][r]
               = tally'.res["put"][r] + putDue(p, r) + rec.put[outcome("put", r)]
  <2>1. /\ rec'.put[outcome("put", r)] \in Nat /\ rec.put[outcome("put", r)] \in Nat
        /\ tally.res["put"][r] \in Nat /\ tally'.res["put"][r] = tally.res["put"][r]
    BY <1>1, <1>2, Zenon DEF Numbers
  <2>2. PICK x, y, a, b, t : /\ x = rec.put[outcome("put", r)] /\ y = rec'.put[outcome("put", r)]
                             /\ a = putDue(p, r) /\ b = putDue(q, r) /\ t = tally.res["put"][r]
    BY Zenon
  <2>3. x \in Nat /\ y \in Nat /\ a \in Nat /\ b \in Nat /\ t \in Nat /\ y + b = x + a
    BY <1>3, <2>1, <2>2, ZenonT(40)
  <2>4. y + b + t = t + a + x
    BY <2>3
  <2> QED
    BY <2>1, <2>2, <2>4, Zenon
<1>7. /\ rec'.bytesWritten + writeDue(q) + tally.written
           = tally'.written + writeDue(p) + rec.bytesWritten
      /\ rec'.bytesRead + readDue(q) + tally.read
           = tally'.read + readDue(p) + rec.bytesRead
  <2>1. /\ rec.bytesWritten \in Nat /\ rec'.bytesWritten \in Nat /\ tally.written \in Nat
        /\ rec.bytesRead \in Nat /\ rec'.bytesRead \in Nat /\ tally.read \in Nat
        /\ tally'.written = tally.written /\ tally'.read = tally.read
    BY <1>1, Zenon DEF Numbers
  <2>2. rec'.bytesWritten + writeDue(q) + tally.written = tally'.written + writeDue(p) + rec.bytesWritten
    <3>1. PICK x, y, a, b, t : /\ x = rec.bytesWritten /\ y = rec'.bytesWritten
                               /\ a = writeDue(p) /\ b = writeDue(q) /\ t = tally.written
      BY Zenon
    <3>2. x \in Nat /\ y \in Nat /\ a \in Nat /\ b \in Nat /\ t \in Nat /\ y + b = x + a
      BY <1>3, <2>1, <3>1, ZenonT(40)
    <3>3. y + b + t = t + a + x
      BY <3>2
    <3> QED
      BY <2>1, <3>1, <3>3, Zenon
  <2>3. rec'.bytesRead + readDue(q) + tally.read = tally'.read + readDue(p) + rec.bytesRead
    <3>1. PICK x, y, a, b, t : /\ x = rec.bytesRead /\ y = rec'.bytesRead
                               /\ a = readDue(p) /\ b = readDue(q) /\ t = tally.read
      BY Zenon
    <3>2. x \in Nat /\ y \in Nat /\ a \in Nat /\ b \in Nat /\ t \in Nat /\ y + b = x + a
      BY <1>3, <2>1, <3>1, ZenonT(40)
    <3>3. y + b + t = t + a + x
      BY <3>2
    <3> QED
      BY <2>1, <3>1, <3>3, Zenon
  <2> QED
    BY <2>2, <2>3, Zenon
<1>8. Moves(p, q)
  BY <1>4, <1>5, <1>6, <1>7, Zenon DEF Moves, Balanced
<1> QED
  BY <1>8, Zenon DEF Entered

\* Observe times the operation; a Put and a Get have more to count.
LEMMA ObserveMoves ==
    ASSUME Books, Balanced, NEW p \in Calls, NEW q \in Calls, Sorted(p), p.pc = "observe",
           q.pc = CASE p.op = "put" -> "bytes" [] p.op = "get" -> "count" [] OTHER -> "idle",
           q.op = p.op, q.res = p.res, q.n = p.n,
           rec' = [rec EXCEPT !.ops[p.op] = @ + 1], tally' = tally
    PROVE  Entered(p, q)
<1>1. Numbers /\ p.op \in Ops
  BY BooksNat DEF Calls
<1>2. /\ rec'.get = rec.get /\ rec'.put = rec.put
      /\ rec'.bytesRead = rec.bytesRead /\ rec'.bytesWritten = rec.bytesWritten
      /\ \A op \in Ops : rec'.ops[op] = IF op = p.op THEN rec.ops[op] + 1 ELSE rec.ops[op]
  BY <1>1 DEF Books
<1>3. Books'
  <2>1. rec' = [get |-> rec.get, put |-> rec.put, ops |-> [rec.ops EXCEPT ![p.op] = @ + 1],
                bytesRead |-> rec.bytesRead, bytesWritten |-> rec.bytesWritten]
    BY Zenon DEF Books
  <2>2. [rec.ops EXCEPT ![p.op] = @ + 1] \in [Ops -> Nat]
    BY <1>1 DEF Books
  <2> QED
    BY <2>1, <2>2 DEF Books
<1>4. /\ p.op = "put" => q.pc = "bytes"
      /\ p.op = "get" => q.pc = "count"
      /\ p.op \notin {"put", "get"} => q.pc = "idle"
  OBVIOUS
<1>5. Sorted(q)
  BY <1>4 DEF Sorted
<1>6. \A op \in Ops : rec'.ops[op] + opDue(q, op) = rec.ops[op] + opDue(p, op)
  <2> SUFFICES ASSUME NEW op \in Ops
               PROVE  rec'.ops[op] + opDue(q, op) = rec.ops[op] + opDue(p, op)
    OBVIOUS
  <2>1. opDue(q, op) = 0 /\ opDue(p, op) = IF op = p.op THEN 1 ELSE 0
    BY <1>4 DEF opDue
  <2>2. rec.ops[op] \in Nat
    BY <1>1, Zenon DEF Numbers
  <2> QED
    BY <1>2, <2>1, <2>2
<1>7. \A r : getDue(q, r) = getDue(p, r) /\ putDue(q, r) = putDue(p, r)
  BY <1>4 DEF getDue, putDue
<1>8. writeDue(q) = writeDue(p) /\ readDue(q) = readDue(p)
  BY <1>4 DEF writeDue, readDue
<1> QED
  BY <1>2, <1>3, <1>5, <1>6, <1>7, <1>8, RecorderMoves, Zenon

\* What a Put wrote is entered once, with its count still to come.
LEMMA WrittenMoves ==
    ASSUME Books, Balanced, NEW p \in Calls, NEW q \in Calls, Sorted(p), p.pc = "bytes",
           q.pc = "count", q.op = p.op, q.res = p.res, q.n = p.n,
           rec' = [rec EXCEPT !.bytesWritten = @ + p.n], tally' = tally
    PROVE  Entered(p, q)
<1>1. Numbers /\ p.n \in Nat /\ p.op = "put"
  BY BooksNat DEF Calls, Sorted
<1>2. /\ rec'.get = rec.get /\ rec'.put = rec.put /\ rec'.ops = rec.ops
      /\ rec'.bytesRead = rec.bytesRead /\ rec'.bytesWritten = rec.bytesWritten + p.n
  BY DEF Books
<1>3. Books'
  <2>1. rec' = [get |-> rec.get, put |-> rec.put, ops |-> rec.ops,
                bytesRead |-> rec.bytesRead, bytesWritten |-> rec.bytesWritten + p.n]
    BY DEF Books
  <2>2. rec.bytesWritten + p.n \in Nat
    BY <1>1 DEF Numbers
  <2> QED
    BY <2>1, <2>2 DEF Books
<1>4. Sorted(q)
  BY <1>1 DEF Sorted
<1>5. /\ \A op : opDue(q, op) = opDue(p, op)
      /\ \A r : getDue(q, r) = getDue(p, r) /\ putDue(q, r) = putDue(p, r)
      /\ readDue(q) = readDue(p)
  BY <1>1 DEF opDue, getDue, putDue, readDue
<1>6. writeDue(q) = 0 /\ writeDue(p) = p.n
  BY <1>1 DEF writeDue
<1>7. rec'.bytesWritten + writeDue(q) = rec.bytesWritten + writeDue(p)
  BY <1>1, <1>2, <1>6 DEF Numbers
<1> QED
  BY <1>2, <1>3, <1>4, <1>5, <1>7, RecorderMoves, Zenon

\* Count enters a Get or a Put under its outcome.
LEMMA CountMoves ==
    ASSUME Books, Balanced, NEW p \in Calls, NEW q \in Calls, Sorted(p), p.pc = "count",
           q.op = p.op, q.res = p.res, q.n = p.n, NEW o, o = outcome(p.op, p.res),
           q.pc = IF p.op = "get" /\ o = "hit" THEN "body" ELSE "idle",
           rec' = IF p.op = "get" THEN [rec EXCEPT !.get[o] = @ + 1]
                  ELSE [rec EXCEPT !.put[o] = @ + 1],
           tally' = tally
    PROVE  Entered(p, q)
<1>1. /\ Numbers /\ p.op \in {"get", "put"}
      /\ p.op = "get" => p.res \in GetResults /\ p.n = 0
      /\ p.op = "put" => p.res \in PutResults
  BY BooksNat DEF Sorted
<1>2. o \in Outcomes /\ o # "dropped" /\ "dropped" \in Outcomes
  BY <1>1, OutcomesIs DEF Outcomes, GetResults, PutResults
<1>3. /\ rec'.ops = rec.ops /\ rec'.bytesRead = rec.bytesRead
      /\ rec'.bytesWritten = rec.bytesWritten
      /\ \A x \in Outcomes :
            /\ rec'.get[x] = IF p.op = "get" /\ x = o THEN rec.get[x] + 1 ELSE rec.get[x]
            /\ rec'.put[x] = IF p.op = "put" /\ x = o THEN rec.put[x] + 1 ELSE rec.put[x]
  <2>1. CASE p.op = "get"
    BY <1>2, <2>1 DEF Books
  <2>2. CASE p.op = "put"
    BY <1>2, <2>2 DEF Books
  <2> QED
    BY <1>1, <2>1, <2>2
<1>4. Books'
  <2>1. /\ rec.get \in [Outcomes -> Nat] /\ rec.put \in [Outcomes -> Nat]
        /\ rec.ops \in [Ops -> Nat] /\ rec.bytesRead \in Nat /\ rec.bytesWritten \in Nat
    BY DEF Books
  <2>2. ASSUME NEW g \in [Outcomes -> Nat], NEW k \in [Outcomes -> Nat],
               rec' = [get |-> g, put |-> k, ops |-> rec.ops,
                       bytesRead |-> rec.bytesRead, bytesWritten |-> rec.bytesWritten]
        PROVE  Books'
    <3>1. rec' \in [get : [Outcomes -> Nat], put : [Outcomes -> Nat], ops : [Ops -> Nat],
                    bytesRead : Nat, bytesWritten : Nat]
      BY <2>1, <2>2
    <3> QED
      BY <3>1, Zenon DEF Books
  <2>3. CASE p.op = "get"
    <3>1. rec' = [get |-> [rec.get EXCEPT ![o] = @ + 1], put |-> rec.put, ops |-> rec.ops,
                  bytesRead |-> rec.bytesRead, bytesWritten |-> rec.bytesWritten]
      BY <2>3 DEF Books
    <3>2. [rec.get EXCEPT ![o] = @ + 1] \in [Outcomes -> Nat]
      BY <1>2 DEF Books
    <3> QED
      BY <2>1, <2>2, <3>1, <3>2, Zenon
  <2>4. CASE p.op = "put"
    <3>1. rec' = [get |-> rec.get, put |-> [rec.put EXCEPT ![o] = @ + 1], ops |-> rec.ops,
                  bytesRead |-> rec.bytesRead, bytesWritten |-> rec.bytesWritten]
      BY <2>4, Zenon DEF Books
    <3>2. [rec.put EXCEPT ![o] = @ + 1] \in [Outcomes -> Nat]
      BY <1>2 DEF Books
    <3> QED
      BY <2>1, <2>2, <3>1, <3>2, Zenon
  <2> QED
    BY <1>1, <2>3, <2>4
<1>5. q.pc \in {"body", "idle"} /\ (q.pc = "body" => q.op = "get" /\ q.n = 0)
  BY <1>1
<1>6. Sorted(q)
  BY <1>5 DEF Sorted
<1>7. /\ \A op : opDue(q, op) = 0 /\ opDue(p, op) = 0
      /\ writeDue(q) = 0 /\ writeDue(p) = 0 /\ readDue(q) = 0 /\ readDue(p) = 0
  BY <1>5 DEF opDue, writeDue, readDue
<1>8. ASSUME NEW r \in GetResults
      PROVE  rec'.get[outcome("get", r)] + getDue(q, r)
               = rec.get[outcome("get", r)] + getDue(p, r)
  <2>1. getDue(q, r) = 0 /\ getDue(p, r) = IF p.op = "get" /\ p.res = r THEN 1 ELSE 0
    BY <1>5 DEF getDue
  <2>2. PICK x \in Outcomes : x = outcome("get", r)
    BY OutcomesIs DEF GetResults, Outcomes
  <2>3. rec.get[x] \in Nat
    BY <1>1, Zenon DEF Numbers
  <2>4. p.op = "get" => (x = o <=> p.res = r)
    BY <1>1, <2>2, OutcomesIs DEF GetResults
  <2>5. rec'.get[x] + getDue(q, r) = rec.get[x] + getDue(p, r)
    BY <1>3, <2>1, <2>3, <2>4
  <2> QED
    BY <2>2, <2>5, Zenon
<1>9. ASSUME NEW r \in PutResults
      PROVE  rec'.put[outcome("put", r)] + putDue(q, r)
               = rec.put[outcome("put", r)] + putDue(p, r)
  <2>1. putDue(q, r) = 0 /\ putDue(p, r) = IF p.op = "put" /\ p.res = r THEN 1 ELSE 0
    BY <1>5 DEF putDue
  <2>2. PICK x \in Outcomes : x = outcome("put", r)
    BY OutcomesIs DEF PutResults, Outcomes
  <2>3. rec.put[x] \in Nat
    BY <1>1, Zenon DEF Numbers
  <2>4. p.op = "put" => (x = o <=> p.res = r)
    BY <1>1, <2>2, OutcomesIs DEF PutResults
  <2>5. rec'.put[x] + putDue(q, r) = rec.put[x] + putDue(p, r)
    BY <1>3, <2>1, <2>3, <2>4
  <2> QED
    BY <2>2, <2>5, Zenon
<1>10. /\ \A op \in Ops : rec'.ops[op] + opDue(q, op) = rec.ops[op] + opDue(p, op)
       /\ rec'.bytesWritten + writeDue(q) = rec.bytesWritten + writeDue(p)
       /\ rec'.bytesRead + readDue(q) = rec.bytesRead + readDue(p)
  BY <1>3, <1>7, Zenon
<1>11. rec'.get["dropped"] = rec.get["dropped"] /\ rec'.put["dropped"] = rec.put["dropped"]
  BY <1>2, <1>3, Zenon
<1> QED
  BY <1>4, <1>6, <1>8, <1>9, <1>10, <1>11, RecorderMoves, Zenon

\* Close enters the bytes read, once.
LEMMA CloseMoves ==
    ASSUME Books, Balanced, NEW p \in Calls, NEW q \in Calls, p.pc = "body", q.pc = "closed",
           rec' = [rec EXCEPT !.bytesRead = @ + p.n], tally' = tally
    PROVE  Entered(p, q)
<1>1. Numbers /\ p.n \in Nat
  BY BooksNat DEF Calls
<1>2. /\ rec'.get = rec.get /\ rec'.put = rec.put /\ rec'.ops = rec.ops
      /\ rec'.bytesRead = rec.bytesRead + p.n /\ rec'.bytesWritten = rec.bytesWritten
  BY DEF Books
<1>3. Books'
  <2>1. rec' = [get |-> rec.get, put |-> rec.put, ops |-> rec.ops,
                bytesRead |-> rec.bytesRead + p.n, bytesWritten |-> rec.bytesWritten]
    BY DEF Books
  <2>2. rec.bytesRead + p.n \in Nat
    BY <1>1 DEF Numbers
  <2> QED
    BY <2>1, <2>2 DEF Books
<1>4. Sorted(q)
  BY DEF Sorted
<1>5. /\ \A op : opDue(q, op) = opDue(p, op)
      /\ \A r : getDue(q, r) = getDue(p, r) /\ putDue(q, r) = putDue(p, r)
      /\ writeDue(q) = writeDue(p)
  BY DEF opDue, getDue, putDue, writeDue
<1>6. readDue(q) = 0 /\ readDue(p) = p.n
  BY DEF readDue
<1>7. rec'.bytesRead + readDue(q) = rec.bytesRead + readDue(p)
  BY <1>1, <1>2, <1>6 DEF Numbers
<1> QED
  BY <1>2, <1>3, <1>4, <1>5, <1>7, RecorderMoves, Zenon

\* A read is entered into the history, and the call owes it to the counters.
LEMMA ReadMoves ==
    ASSUME Books, Balanced, NEW p \in Calls, NEW q \in Calls, p.pc = "body", q.pc = "body",
           p.op = "get", q.op = "get", q.n = p.n + 1, rec' = rec,
           tally' = [tally EXCEPT !.read = @ + 1]
    PROVE  Entered(p, q)
<1>1. Numbers /\ p.n \in Nat
  BY BooksNat DEF Calls
<1>2. tally'.res = tally.res /\ tally'.written = tally.written /\ tally'.read = tally.read + 1
  BY DEF Books
<1>3. Books'
  <2>1. tally' = [res |-> tally.res, read |-> tally.read + 1, written |-> tally.written]
    BY DEF Books
  <2>2. tally.read + 1 \in Nat
    BY <1>1 DEF Numbers
  <2> QED
    BY <2>1, <2>2 DEF Books
<1>4. Sorted(q)
  BY DEF Sorted
<1>5. /\ \A op : opDue(q, op) = 0 /\ opDue(p, op) = 0
      /\ \A r : getDue(q, r) = 0 /\ getDue(p, r) = 0 /\ putDue(q, r) = 0 /\ putDue(p, r) = 0
      /\ writeDue(q) = 0 /\ writeDue(p) = 0 /\ readDue(q) = p.n + 1 /\ readDue(p) = p.n
  BY DEF opDue, getDue, putDue, writeDue, readDue
<1>6. \A x, y \in Nat : x + 0 + y = y + 0 + x
  OBVIOUS
<1>7. /\ \A r \in GetResults : r \in Results /\ outcome("get", r) \in Outcomes
      /\ \A r \in PutResults : r \in Results /\ outcome("put", r) \in Outcomes
      /\ "get" \in Ops /\ "put" \in Ops
  BY OutcomesIs DEF GetResults, PutResults, Results, Outcomes, Ops
<1>8. ASSUME NEW op \in Ops
      PROVE  rec'.ops[op] + opDue(q, op) + AllOf(op) = AllOf(op)' + opDue(p, op) + rec.ops[op]
  <2>1. AllOf(op)' = AllOf(op)
    BY <1>2, Zenon DEF AllOf
  <2>2. /\ rec.ops[op] \in Nat /\ AllOf(op) \in Nat /\ rec'.ops[op] = rec.ops[op]
        /\ opDue(q, op) = 0 /\ opDue(p, op) = 0
    BY <1>1, <1>5, Zenon DEF Numbers
  <2> QED
    BY <1>6, <2>1, <2>2, Zenon
<1>9. ASSUME NEW r \in GetResults
      PROVE  rec'.get[outcome("get", r)] + getDue(q, r) + tally.res["get"][r]
               = tally'.res["get"][r] + getDue(p, r) + rec.get[outcome("get", r)]
  <2>1. /\ rec.get[outcome("get", r)] \in Nat /\ tally.res["get"][r] \in Nat
        /\ rec'.get[outcome("get", r)] = rec.get[outcome("get", r)]
        /\ tally'.res["get"][r] = tally.res["get"][r]
    BY <1>1, <1>2, <1>7, Zenon DEF Numbers
  <2>2. getDue(q, r) = 0 /\ getDue(p, r) = 0
    BY <1>5, Zenon
  <2> QED
    BY <1>6, <2>1, <2>2, Zenon
<1>10. ASSUME NEW r \in PutResults
       PROVE  rec'.put[outcome("put", r)] + putDue(q, r) + tally.res["put"][r]
                = tally'.res["put"][r] + putDue(p, r) + rec.put[outcome("put", r)]
  <2>1. /\ rec.put[outcome("put", r)] \in Nat /\ tally.res["put"][r] \in Nat
        /\ rec'.put[outcome("put", r)] = rec.put[outcome("put", r)]
        /\ tally'.res["put"][r] = tally.res["put"][r]
    BY <1>1, <1>2, <1>7, Zenon DEF Numbers
  <2>2. putDue(q, r) = 0 /\ putDue(p, r) = 0
    BY <1>5, Zenon
  <2> QED
    BY <1>6, <2>1, <2>2, Zenon
<1>11. rec'.bytesWritten + writeDue(q) + tally.written
         = tally'.written + writeDue(p) + rec.bytesWritten
  BY <1>1, <1>2, <1>5, <1>6, Zenon DEF Numbers
<1>12. rec'.bytesRead + readDue(q) + tally.read = tally'.read + readDue(p) + rec.bytesRead
  BY <1>1, <1>2, <1>5 DEF Numbers
<1>13. Moves(p, q)
  BY <1>2, <1>8, <1>9, <1>10, <1>11, <1>12, Zenon DEF Moves, Balanced
<1> QED
  BY <1>3, <1>4, <1>13, Zenon DEF Entered

\* What an answer leaves in the call and enters into the history.
LEMMA AnswerEnters ==
    ASSUME Shape, Books, Balanced, NEW c \in Callers, call[c].pc \in Silent,
           NEW res \in Results, NEW n \in Nat, Answer(c, res, n), rec' = rec,
           call[c].op = "put" => res # "notfound", call[c].op = "get" => res # "exists",
           call[c].op # "put" => n = 0
    PROVE  Entered(call[c], call'[c])
<1>1. call[c] \in Calls
  BY DEF Shape
<1>2. PICK p \in Calls : p = call[c]
  BY <1>1, Zenon
<1>3. PICK q : q = call'[c]
  BY Zenon
<1>4. q.pc = "observe" /\ q.op = p.op /\ q.res = res /\ q.n = n
  BY <1>2, <1>3 DEF Answer, Shape, Calls
<1>5. tally' = [tally EXCEPT !.res[p.op][res] = @ + 1, !.written = @ + n]
  BY <1>2, Zenon DEF Answer
<1>6. p.op \in Ops
  BY DEF Calls
<1> QED
  BY <1>2, <1>3, <1>4, <1>5, <1>6, AnswerMoves, Zenon

\* A step to another place at which nothing is owed.
LEMMA GotoEnters ==
    ASSUME Shape, Books, Balanced, NEW c \in Callers, call[c].pc \in Silent,
           NEW pc \in Silent, Goto(c, pc), UNCHANGED <<rec, tally>>
    PROVE  Entered(call[c], call'[c])
<1>1. call'[c].pc = pc
  BY DEF Goto, Shape, Calls
<1> QED
  BY <1>1, SilentMoves, Zenon

\* Another attempt owes nothing.
LEMMA AgainEnters ==
    ASSUME Shape, Books, Balanced, NEW c \in Callers, call[c].pc \in Silent,
           call' = [call EXCEPT ![c].left = @ - 1], UNCHANGED <<rec, tally>>
    PROVE  Entered(call[c], call'[c])
<1>1. call'[c].pc = call[c].pc
  BY DEF Shape, Calls
<1> QED
  BY <1>1, SilentMoves, Zenon

\* A call that begins owes nothing.
LEMMA BeginEnters ==
    ASSUME Shape, Books, Balanced, NEW c \in Callers, NEW op, NEW pc \in Silent,
           Begin(c, op, pc), UNCHANGED <<rec, tally>>
    PROVE  Entered(call[c], call'[c])
<1>1. call[c].pc = "idle" /\ call'[c] = Call(pc, op, MaxAttempts)
  BY DEF Begin, At, Shape
<1>2. call'[c].pc = pc /\ call[c].pc \in Silent
  <2>1. Call(pc, op, MaxAttempts).pc = pc
    BY DEF Call
  <2>2. "idle" \in Silent
    BY DEF Silent
  <2> QED
    BY <1>1, <2>1, <2>2, Zenon
<1> QED
  BY <1>2, SilentMoves, Zenon

\* The steps of a Put.
LEMMA PutStepEnters ==
    ASSUME IInv, Books, Balanced, NEW c \in Callers, PutStep(c)
    PROVE  Entered(call[c], call'[c])
<1>1. Shape /\ Source(c).len \in Nat /\ spillThreshold \in Nat
  BY SourceTyped, BucketAssumption DEF IInv, Shape
<1>2. {"idle", "stage", "copy", "send"} \subseteq Silent /\ {"error", "exists", "nil"} \subseteq Results
  BY DEF Silent, Results
<1>3. CASE PutBegin(c)
  BY <1>1, <1>2, <1>3, BeginEnters, Zenon DEF PutBegin
<1>4. CASE StageHead(c)
  <2>1. At(c, "stage") /\ call[c].op = "put" /\ rec' = rec
    BY <1>4, Zenon DEF StageHead, IInv, CallOK, InStep, At
  <2>2. call[c].pc \in Silent
    BY <1>2, <2>1, Zenon DEF At
  <2>3. \/ \E pc \in {"send", "copy"} : Goto(c, pc) /\ tally' = tally
        \/ \E n \in {Source(c).len, spillThreshold} : Answer(c, "error", n)
    BY <1>4, Zenon DEF StageHead
  <2>4. CASE \E pc \in {"send", "copy"} : Goto(c, pc) /\ tally' = tally
    BY <1>1, <1>2, <2>1, <2>2, <2>4, GotoEnters, Zenon
  <2>5. CASE \E n \in {Source(c).len, spillThreshold} : Answer(c, "error", n)
    <3>1. PICK n \in Nat : Answer(c, "error", n)
      BY <1>1, <2>5, Zenon
    <3> QED
      BY <1>1, <1>2, <2>1, <2>2, <3>1, AnswerEnters, Zenon
  <2> QED
    BY <2>3, <2>4, <2>5, Zenon
<1>5. CASE StageCopy(c)
  <2>1. At(c, "copy") /\ call[c].op = "put" /\ rec' = rec
    BY <1>5, Zenon DEF StageCopy, IInv, CallOK, InStep, At
  <2>2. call[c].pc \in Silent
    BY <1>2, <2>1 DEF At
  <2>3. \/ Goto(c, "send") /\ tally' = tally
        \/ Answer(c, "error", Source(c).len)
    BY <1>5, Zenon DEF StageCopy
  <2>4. CASE Goto(c, "send") /\ tally' = tally
    BY <1>1, <1>2, <2>1, <2>2, <2>4, GotoEnters, Zenon
  <2>5. CASE Answer(c, "error", Source(c).len)
    BY <1>1, <1>2, <2>1, <2>2, <2>5, AnswerEnters, Zenon
  <2> QED
    BY <2>3, <2>4, <2>5, ZenonT(40)
<1>6. CASE PutSend(c)
  <2>1. At(c, "send") /\ call[c].op = "put" /\ rec' = rec
    BY <1>6 DEF PutSend, IInv, CallOK, InStep, At
  <2>2. call[c].pc \in Silent
    BY <1>2, <2>1 DEF At
  <2>3. \/ call' = [call EXCEPT ![c].left = @ - 1] /\ tally' = tally
        \/ \E res \in {"nil", "exists", "error"} : Answer(c, res, Source(c).len)
    BY <1>6 DEF PutSend
  <2>4. CASE call' = [call EXCEPT ![c].left = @ - 1] /\ tally' = tally
    BY <1>1, <2>1, <2>2, <2>4, AgainEnters, ZenonT(40)
  <2>5. CASE \E res \in {"nil", "exists", "error"} : Answer(c, res, Source(c).len)
    <3>1. PICK res \in Results : Answer(c, res, Source(c).len) /\ res # "notfound"
      BY <1>2, <2>5
    <3> QED
      BY <1>1, <2>1, <2>2, <3>1, AnswerEnters
  <2> QED
    BY <2>3, <2>4, <2>5, Zenon
<1> QED
  BY <1>3, <1>4, <1>5, <1>6, ZenonT(40) DEF PutStep

\* The steps of a Delete.
LEMMA DeleteStepEnters ==
    ASSUME IInv, Books, Balanced, NEW c \in Callers, DeleteStep(c)
    PROVE  Entered(call[c], call'[c])
<1>1. Shape /\ 0 \in Nat
  BY DEF IInv
<1>2. "delete" \in Silent /\ {"error", "nil"} \subseteq Results
  BY DEF Silent, Results
<1>3. CASE DeleteBegin(c)
  BY <1>1, <1>2, <1>3, BeginEnters, Zenon DEF DeleteBegin
<1>4. CASE Delete(c)
  <2>1. At(c, "delete") /\ call[c].op = "delete" /\ rec' = rec
    BY <1>4 DEF Delete, IInv, CallOK, InStep, At
  <2>2. call[c].pc \in Silent
    BY <1>2, <2>1 DEF At
  <2>3. \/ call' = [call EXCEPT ![c].left = @ - 1] /\ tally' = tally
        \/ \E res \in {"nil", "error"} : Answer(c, res, 0)
    BY <1>4 DEF Delete
  <2>4. CASE call' = [call EXCEPT ![c].left = @ - 1] /\ tally' = tally
    BY <1>1, <2>1, <2>2, <2>4, AgainEnters, Zenon
  <2>5. CASE \E res \in {"nil", "error"} : Answer(c, res, 0)
    <3>1. PICK res \in Results : Answer(c, res, 0)
      BY <1>2, <2>5, Zenon
    <3>2. call[c].op # "put" /\ call[c].op # "get"
      BY <2>1
    <3> QED
      BY <1>1, <2>1, <2>2, <3>1, <3>2, AnswerEnters, Zenon
  <2> QED
    BY <2>3, <2>4, <2>5, Zenon
<1> QED
  BY <1>3, <1>4, Zenon DEF DeleteStep

\* The steps of a Get or a Stat, also of one that the tier in front answers.
LEMMA AskStepEnters ==
    ASSUME IInv, Books, Balanced, NEW c \in Callers, AskStep(c)
    PROVE  Entered(call[c], call'[c])
<1>1. Shape
  BY DEF IInv
<1>2. {"ask", "idle"} \subseteq Silent
  BY DEF Silent
<1>3. ASSUME NEW op \in Ops, AskBegin(c, op) PROVE Entered(call[c], call'[c])
  BY <1>1, <1>2, <1>3, BeginEnters, ZenonT(40) DEF AskBegin
<1>4. ASSUME NEW op \in Ops, FrontAnswers(c, op) PROVE Entered(call[c], call'[c])
  <2>1. call[c].pc = "idle" /\ call'[c].pc = "idle" /\ UNCHANGED <<rec, tally>>
    BY <1>1, <1>4 DEF FrontAnswers, At, Shape
  <2> QED
    BY <1>2, <2>1, SilentMoves, SMTT(30)
<1>5. CASE Ask(c)
  <2>1. /\ At(c, "ask") /\ call[c].op \in {"get", "stat"} /\ rec' = rec
        /\ call[c].op \in Ops
    BY <1>5 DEF Ask, IInv, CallOK, InStep, At, Ops
  <2>2. call[c].pc \in Silent
    BY <1>2, <2>1, SMTT(30) DEF At
  <2>3. \/ call' = [call EXCEPT ![c].left = @ - 1] /\ tally' = tally
        \/ \E res \in {"nil", "notfound", "error"} :
              /\ call' = [call EXCEPT ![c] = Found(c, res)]
              /\ tally' = [tally EXCEPT !.res[call[c].op][res] = @ + 1]
    BY <1>5, Zenon DEF Ask
  <2>4. CASE call' = [call EXCEPT ![c].left = @ - 1] /\ tally' = tally
    BY <1>1, <2>1, <2>2, <2>4, AgainEnters, Zenon
  <2>5. CASE \E res \in {"nil", "notfound", "error"} :
              /\ call' = [call EXCEPT ![c] = Found(c, res)]
              /\ tally' = [tally EXCEPT !.res[call[c].op][res] = @ + 1]
    <3>1. PICK res \in {"nil", "notfound", "error"} :
              /\ call' = [call EXCEPT ![c] = Found(c, res)]
              /\ tally' = [tally EXCEPT !.res[call[c].op][res] = @ + 1]
      BY <2>5, Zenon
    <3>2. PICK p : p = call[c]
      BY Zenon
    <3>3. PICK q : q = call'[c]
      BY Zenon
    <3>4. q.pc = "observe" /\ q.op = p.op /\ q.res = res /\ q.n = 0
      <4>1. q = Found(c, res)
        BY <1>1, <3>1, <3>3 DEF Shape
      <4> QED
        BY <3>2, <4>1 DEF Found, Call
    <3>5. tally' = [tally EXCEPT !.res[p.op][res] = @ + 1, !.written = @ + 0]
      <4>1. Numbers
        BY BooksNat
      <4>2. tally.written + 0 = tally.written
        BY <4>1 DEF Numbers
      <4> QED
        BY <3>1, <3>2, <4>2, Zenon DEF Books
    <3>6. res \in Results /\ res # "exists" /\ p.op # "put" /\ p.op \in Ops /\ 0 \in Nat
      BY <2>1, <3>1, <3>2 DEF Results
    <3> QED
      BY <2>1, <2>2, <3>2, <3>3, <3>4, <3>5, <3>6, AnswerMoves, Zenon
  <2> QED
    BY <2>3, <2>4, <2>5, ZenonT(40)
<1> QED
  BY <1>3, <1>4, <1>5, Zenon DEF AskStep

\* The steps of the recorder.
LEMMA CountStepEnters ==
    ASSUME Shape, Shape', Books, Balanced, NEW c \in Callers, Sorted(call[c]), CountStep(c)
    PROVE  Entered(call[c], call'[c])
<1>1. call[c] \in Calls /\ call'[c] \in Calls
  BY DEF Shape
<1>2. PICK p \in Calls : p = call[c]
  BY <1>1, Zenon
<1>3. PICK q \in Calls : q = call'[c]
  BY <1>1, Zenon
<1>4. ASSUME NEW pc, Goto(c, pc)
      PROVE  q.pc = pc /\ q.op = p.op /\ q.res = p.res /\ q.n = p.n
  BY <1>2, <1>3, <1>4 DEF Goto, Shape, Calls
<1>5. CASE Observe(c)
  <2>1. /\ p.pc = "observe" /\ rec' = [rec EXCEPT !.ops[p.op] = @ + 1] /\ tally' = tally
        /\ Goto(c, CASE p.op = "put" -> "bytes" [] p.op = "get" -> "count" [] OTHER -> "idle")
    BY <1>2, <1>5, Zenon DEF Observe, At
  <2>2. /\ q.pc = CASE p.op = "put" -> "bytes" [] p.op = "get" -> "count" [] OTHER -> "idle"
        /\ q.op = p.op /\ q.res = p.res /\ q.n = p.n
    BY <1>4, <2>1
  <2> QED
    BY <1>2, <1>3, <2>1, <2>2, ObserveMoves
<1>6. CASE CountWritten(c)
  <2>1. /\ p.pc = "bytes" /\ rec' = [rec EXCEPT !.bytesWritten = @ + p.n] /\ tally' = tally
        /\ Goto(c, "count")
    BY <1>2, <1>6, Zenon DEF CountWritten, At
  <2>2. q.pc = "count" /\ q.op = p.op /\ q.res = p.res /\ q.n = p.n
    BY <1>4, <2>1, Zenon
  <2> QED
    BY <1>2, <1>3, <2>1, <2>2, WrittenMoves, Zenon
<1>7. CASE Count(c)
  <2>1. PICK o : o = outcome(p.op, p.res)
    BY Zenon
  <2>2. /\ p.pc = "count" /\ tally' = tally
        /\ rec' = IF p.op = "get" THEN [rec EXCEPT !.get[o] = @ + 1]
                  ELSE [rec EXCEPT !.put[o] = @ + 1]
        /\ Goto(c, IF p.op = "get" /\ o = "hit" THEN "body" ELSE "idle")
    BY <1>2, <1>7, <2>1, Zenon DEF Count, At
  <2>3. /\ q.pc = IF p.op = "get" /\ o = "hit" THEN "body" ELSE "idle"
        /\ q.op = p.op /\ q.res = p.res /\ q.n = p.n
    BY <1>4, <2>2
  <2> QED
    BY <1>2, <1>3, <2>1, <2>2, <2>3, CountMoves
<1> QED
  BY <1>5, <1>6, <1>7, ZenonT(40) DEF CountStep

\* The steps of a reader of the body.
LEMMA BodyStepEnters ==
    ASSUME Shape, Shape', Books, Balanced, NEW c \in Callers, Sorted(call[c]), BodyStep(c)
    PROVE  Entered(call[c], call'[c])
<1>1. call[c] \in Calls /\ call'[c] \in Calls
  BY DEF Shape
<1>2. PICK p \in Calls : p = call[c]
  BY <1>1, Zenon
<1>3. PICK q \in Calls : q = call'[c]
  BY <1>1, Zenon
<1>4. {"closed", "idle"} \subseteq Silent
  BY DEF Silent
<1>5. CASE BodyRead(c)
  <2>1. p.pc = "body" /\ p.op = "get" /\ rec' = rec /\ tally' = [tally EXCEPT !.read = @ + 1]
    BY <1>2, <1>5 DEF BodyRead, At, Sorted
  <2>2. q.pc = "body" /\ q.op = "get" /\ q.n = p.n + 1
    BY <1>2, <1>3, <1>5, <2>1 DEF BodyRead, Shape, Calls
  <2> QED
    BY <1>2, <1>3, <2>1, <2>2, ReadMoves, Zenon
<1>6. CASE BodyClose(c)
  <2>1. CASE p.pc = "body"
    <3>1. Goto(c, "closed") /\ rec' = [rec EXCEPT !.bytesRead = @ + p.n] /\ tally' = tally
      BY <1>2, <1>6, <2>1 DEF BodyClose, At
    <3>2. q.pc = "closed"
      BY <1>3, <3>1 DEF Goto, Shape, Calls
    <3> QED
      BY <1>2, <1>3, <2>1, <3>1, <3>2, CloseMoves, Zenon
  <2>2. CASE p.pc # "body"
    <3>1. p.pc = "closed" /\ Goto(c, "idle") /\ UNCHANGED <<rec, tally>>
      BY <1>2, <1>6, <2>2 DEF BodyClose, At
    <3>2. call[c].pc \in Silent /\ "idle" \in Silent
      BY <1>2, <1>4, <3>1
    <3> QED
      BY <3>1, <3>2, GotoEnters, Zenon
  <2> QED
    BY <2>1, <2>2, Zenon
<1>7. CASE FaultForward(c)
  <2>1. p.pc = "closed" /\ q.pc = "idle" /\ UNCHANGED <<rec, tally>>
    BY <1>2, <1>3, <1>7 DEF FaultForward, At, Shape, Calls
  <2>2. p.pc \in Silent /\ q.pc \in Silent
    BY <1>4, <2>1
  <2> QED
    BY <1>2, <1>3, <2>1, <2>2, SilentMoves, Zenon
<1> QED
  BY <1>5, <1>6, <1>7, Zenon DEF BodyStep

-----------------------------------------------------------------------------
(* The counters are exact.                                                 *)

\* Every step keeps the accounts balanced.
LEMMA StepCounts == IInv /\ CountInv /\ [Next]_vars => CountInv'
<1> SUFFICES ASSUME IInv, CountInv, [Next]_vars PROVE CountInv'
  BY Zenon
<1>1. Shape /\ Books /\ Balanced /\ \A d \in Callers : Sorted(call[d])
  BY Zenon DEF IInv, CountInv
<1>2. CASE Next
  <2>1. PICK c \in Callers : Step(c) /\ Watch
    BY <1>2, Zenon DEF Next
  <2>2. Keeps(c)
    BY <2>1, StepKeeps, Zenon
  <2>3. Shape' /\ \A d \in Callers \ {c} : call'[d] = call[d]
    BY <2>2, Zenon DEF Keeps, Else
  <2>4. Entered(call[c], call'[c])
    BY <1>1, <2>1, <2>3, PutStepEnters, AskStepEnters, DeleteStepEnters, CountStepEnters,
       BodyStepEnters, Zenon DEF Step
  <2>5. Books' /\ Moves(call[c], call'[c]) /\ Sorted(call'[c])
    BY <2>4, Zenon DEF Entered
  <2>6. Balanced'
    BY <1>1, <2>3, <2>5, MovesKeep, Zenon
  <2>7. \A d \in Callers : Sorted(call'[d])
    BY <1>1, <2>3, <2>5, Zenon
  <2>8. (\A d \in Callers : Sorted(call[d]))'
    BY <2>7
  <2> QED
    BY <2>5, <2>6, <2>8, Zenon DEF CountInv
<1>3. CASE UNCHANGED vars
  <2>1. UNCHANGED <<call, rec, tally>>
    BY <1>3, Zenon DEF vars
  <2>2. Books'
    BY <1>1, <2>1, Zenon DEF Books
  <2>3. /\ \A op : OpsDue(op)' = OpsDue(op) /\ AllOf(op)' = AllOf(op)
        /\ \A r : GetsDue(r)' = GetsDue(r) /\ PutsDue(r)' = PutsDue(r)
        /\ WritesDue' = WritesDue /\ ReadsDue' = ReadsDue
    BY <2>1, Zenon DEF OpsDue, AllOf, GetsDue, PutsDue, WritesDue, ReadsDue
  <2>4. Balanced'
    BY <1>1, <2>1, <2>3, Zenon DEF Balanced
  <2>5. (\A d \in Callers : Sorted(call[d]))'
    BY <1>1, <2>1, Zenon
  <2> QED
    BY <2>2, <2>4, <2>5, Zenon DEF CountInv
<1> QED
  BY <1>2, <1>3, Zenon

\* While no call is between its answer and its last count nothing is owed.
LEMMA NoneOwed ==
    ASSUME \A c \in Callers : call[c].pc \in Silent
    PROVE  /\ \A op : Weight(OpsDue(op)) = 0
           /\ \A r : Weight(GetsDue(r)) = 0 /\ Weight(PutsDue(r)) = 0
           /\ Weight(WritesDue) = 0 /\ Weight(ReadsDue) = 0
<1>1. \A op : \A c \in Callers : OpsDue(op)[c] = 0
  BY SilentOwes, Zenon DEF OpsDue
<1>2. \A r : \A c \in Callers : GetsDue(r)[c] = 0 /\ PutsDue(r)[c] = 0
  BY SilentOwes, Zenon DEF GetsDue, PutsDue
<1>3. \A c \in Callers : WritesDue[c] = 0 /\ ReadsDue[c] = 0
  BY SilentOwes, Zenon DEF WritesDue, ReadsDue
<1> QED
  BY <1>1, <1>2, <1>3, NothingOwed, Zenon

\* At first nothing is counted and nothing is owed.
LEMMA InitCounts == Init => CountInv
<1> SUFFICES ASSUME Init PROVE CountInv
  OBVIOUS
<1>1. Books
  <2>1. PICK g \in [Outcomes -> Nat] : g = [o \in Outcomes |-> 0]
    BY Zenon
  <2>2. PICK o \in [Ops -> Nat] : o = [x \in Ops |-> 0]
    BY Zenon
  <2>3. PICK t \in [Ops -> [Results -> Nat]] : t = [x \in Ops |-> [r \in Results |-> 0]]
    BY Zenon
  <2>4. /\ rec = [get |-> g, put |-> g, ops |-> o, bytesRead |-> 0, bytesWritten |-> 0]
        /\ tally = [res |-> t, read |-> 0, written |-> 0]
    BY <2>1, <2>2, <2>3, ZenonT(40) DEF Init
  <2> QED
    BY <2>4 DEF Books
<1>2. \A c \in Callers : call[c].pc \in Silent
  BY DEF Init, Call, Silent
<1>3. \A c \in Callers : Sorted(call[c])
  BY <1>2, SilentOwes, ZenonT(40)
<1>4. /\ \A op \in Ops : rec.ops[op] = 0
      /\ \A o \in Outcomes : rec.get[o] = 0 /\ rec.put[o] = 0
      /\ rec.bytesRead = 0 /\ rec.bytesWritten = 0
  BY DEF Init
<1>5. /\ \A op \in Ops : \A r \in Results : tally.res[op][r] = 0
      /\ tally.read = 0 /\ tally.written = 0
  BY DEF Init
<1>6. /\ \A r \in GetResults : r \in Results /\ outcome("get", r) \in Outcomes
      /\ \A r \in PutResults : r \in Results /\ outcome("put", r) \in Outcomes
      /\ "get" \in Ops /\ "put" \in Ops /\ "dropped" \in Outcomes
      /\ {"nil", "notfound", "exists", "error"} \subseteq Results
  BY OutcomesIs, SMTT(30) DEF GetResults, PutResults, Results, Outcomes, Ops
<1>7. \A op \in Ops : AllOf(op) = 0
  BY <1>5, <1>6 DEF AllOf
<1>8. 0 + 0 = 0
  OBVIOUS
<1>9. /\ \A op \in Ops : rec.ops[op] + Weight(OpsDue(op)) = AllOf(op)
      /\ rec.bytesWritten + Weight(WritesDue) = tally.written
      /\ rec.bytesRead + Weight(ReadsDue) = tally.read
  BY <1>2, <1>4, <1>5, <1>7, <1>8, NoneOwed, Zenon
<1>10. ASSUME NEW r \in GetResults
       PROVE  rec.get[outcome("get", r)] + Weight(GetsDue(r)) = tally.res["get"][r]
  BY <1>2, <1>4, <1>5, <1>6, <1>8, NoneOwed, Zenon
<1>11. ASSUME NEW r \in PutResults
       PROVE  rec.put[outcome("put", r)] + Weight(PutsDue(r)) = tally.res["put"][r]
  BY <1>2, <1>4, <1>5, <1>6, <1>8, NoneOwed, Zenon
<1>12. /\ tally.res["get"]["exists"] = 0 /\ tally.res["put"]["notfound"] = 0
       /\ rec.get["dropped"] = 0 /\ rec.put["dropped"] = 0
  BY <1>4, <1>5, <1>6
<1> QED
  BY <1>1, <1>3, <1>9, <1>10, <1>11, <1>12, Zenon DEF CountInv, Balanced

\* Between calls the snapshot is what the tier answered and moved, for any
\* number of callers and any interleaving of the recorder's sections
\* (telemetry tier.go, recorder.go).
THEOREM CountersAreExact == Spec => []CountersExact
<1>1. CountInv => CountersExact
  <2> SUFFICES ASSUME CountInv, \A c \in Callers : At(c, "idle") \/ ~Answered(c)
               PROVE  CountersExact
    BY Zenon DEF CountersExact
  <2>1. \A c \in Callers : call[c].pc \in Silent
    BY DEF At, Answered, Silent
  <2>2. Numbers /\ Balanced
    BY BooksNat DEF CountInv
  <2>3. \A x \in Nat : x + 0 = x
    OBVIOUS
  <2>4. \A op \in Ops : rec.ops[op] = AllOf(op)
    <3> SUFFICES ASSUME NEW op \in Ops PROVE rec.ops[op] = AllOf(op)
      BY Zenon
    <3>1. rec.ops[op] \in Nat /\ rec.ops[op] + Weight(OpsDue(op)) = AllOf(op)
      BY <2>2, Zenon DEF Balanced, Numbers
    <3>2. Weight(OpsDue(op)) = 0
      BY <2>1, NoneOwed, Zenon
    <3> QED
      BY <2>3, <3>1, <3>2, Zenon
  <2>5. rec.bytesWritten = tally.written /\ rec.bytesRead = tally.read
    BY <2>1, <2>2, <2>3, NoneOwed, Zenon DEF Balanced, Numbers
  <2>6. ASSUME NEW r \in GetResults
        PROVE  rec.get[outcome("get", r)] = tally.res["get"][r]
    <3>1. outcome("get", r) \in Outcomes
      BY OutcomesIs DEF GetResults, Outcomes
    <3> QED
      BY <2>1, <2>2, <2>3, <3>1, NoneOwed, Zenon DEF Balanced, Numbers
  <2>7. ASSUME NEW r \in PutResults
        PROVE  rec.put[outcome("put", r)] = tally.res["put"][r]
    <3>1. outcome("put", r) \in Outcomes
      BY OutcomesIs DEF PutResults, Outcomes
    <3> QED
      BY <2>1, <2>2, <2>3, <3>1, NoneOwed, Zenon DEF Balanced, Numbers
  <2>8. /\ rec.get["hit"] = tally.res["get"]["nil"]
        /\ rec.get["miss"] = tally.res["get"]["notfound"]
        /\ rec.get["error"] = tally.res["get"]["error"]
    BY <2>6, OutcomesIs DEF GetResults
  <2>9. /\ rec.put["miss"] = tally.res["put"]["nil"]
        /\ rec.put["hit"] = tally.res["put"]["exists"]
        /\ rec.put["error"] = tally.res["put"]["error"]
    BY <2>7, OutcomesIs DEF PutResults
  <2>10. /\ tally.res["get"]["exists"] = 0 /\ tally.res["put"]["notfound"] = 0
         /\ rec.get["dropped"] = 0 /\ rec.put["dropped"] = 0
    BY <2>2, Zenon DEF Balanced
  <2>11. /\ \A r \in {"nil", "notfound", "exists", "error"} :
              tally.res["get"][r] \in Nat /\ tally.res["put"][r] \in Nat
    BY <2>2, ZenonT(40) DEF Numbers, Results, Ops
  <2>12. sum(rec.get) = AllOf("get")
    BY <2>8, <2>10, <2>11, SMTT(30) DEF sum, AllOf
  <2>13. sum(rec.put) = AllOf("put")
    BY <2>9, <2>10, <2>11 DEF sum, AllOf
  <2>14. rec.get["dropped"] + rec.put["dropped"] = 0
    BY <2>10
  <2>15. rec.ops = [op \in Ops |-> AllOf(op)]
    <3>1. rec.ops = [op \in Ops |-> rec.ops[op]]
      BY DEF CountInv, Books
    <3> QED
      BY <2>4, <3>1, Zenon
  <2>16. Snapshot =
           [Gets |-> AllOf("get"), Hits |-> tally.res["get"]["nil"],
            Misses |-> tally.res["get"]["notfound"], Puts |-> AllOf("put"),
            Errors |-> tally.res["get"]["error"] + tally.res["put"]["error"],
            Dropped |-> 0, BytesRead |-> tally.read, BytesWritten |-> tally.written,
            Ops |-> [op \in Ops |-> AllOf(op)]]
    BY <2>5, <2>8, <2>9, <2>12, <2>13, <2>14, <2>15, Zenon DEF Snapshot
  <2> QED
    BY <2>16, Zenon DEF CountersExact, AllOf
<1> QED
  BY <1>1, InitCounts, StepCounts, Inductive, PTL DEF Spec
=============================================================================
