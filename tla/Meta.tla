-------------------------------- MODULE Meta --------------------------------
(***************************************************************************)
(* What a tier knows about an object besides its bytes (engine/tier), and  *)
(* the four encodings it travels in: the header of a file on the volume    *)
(* (engine/disk/header.go), the user metadata of an object in the bucket   *)
(* (engine/bucket) and the message of the cache service, written and read  *)
(* once in the server and once in its client (server, engine/remote).      *)
(*                                                                         *)
(* A time is a number of nanoseconds and 0 is Go's zero time.  JSON,       *)
(* RFC3339Nano and protobuf timestamps all carry an instant exactly; what  *)
(* each encoding does with the zero time and with an absent field is       *)
(* modelled as the code does it.                                           *)
(***************************************************************************)
EXTENDS Naturals

CONSTANTS
    Types,          \* the content types callers give; "" is none
    LongTypes,      \* the ones with which a header outgrows its 1024 bytes
    StoreType,      \* what the store says of an object put with no type
    StoreTime       \* what it says of an object's last modification

ASSUME MetaAssumption ==
    /\ "" \in Types
    /\ LongTypes \subseteq Types \ {""}
    /\ StoreType \in Types
    /\ StoreTime \in Nat \ {0}

Meta ==
    [Size : Nat, ModTime : Nat, ContentType : Types, Immutable : BOOLEAN]

-----------------------------------------------------------------------------
(* The header of a file.  The body that follows it decides its size.       *)

\* A header that would not fit is refused rather than truncated.
fits(m) == m.ContentType \notin LongTypes

encodeHeader(m, n) ==
    [Size |-> n, ModTime |-> m.ModTime, ContentType |-> m.ContentType,
     Immutable |-> m.Immutable]

\* metaOf(decodeHeader(f)) of a file whose header is whole.
metaOf(h) ==
    [Size |-> h.Size, ModTime |-> h.ModTime, ContentType |-> h.ContentType,
     Immutable |-> h.Immutable]

-----------------------------------------------------------------------------
(* The bucket.  A name of user metadata is the name and its letter case:   *)
(* stores send back the one they were given or one of their own.           *)

metaModTime == "ci-cache-modtime"
metaImmutable == "ci-cache-immutable"

Spellings == {"sent", "own"}

\* Seeded fault: the time is formatted with RFC3339, to a coarser unit.
metadataForCoarse(m) ==
    [n \in (IF m.ModTime # 0 THEN {<<metaModTime, "sent">>} ELSE {})
             \cup (IF m.Immutable THEN {<<metaImmutable, "sent">>} ELSE {})
       |-> IF n[1] = metaModTime
           THEN <<"time", m.ModTime - (m.ModTime % 2)>> ELSE <<"true">>]

\* The zero time and FALSE are left out.
metadataFor(m) ==
    [n \in (IF m.ModTime # 0 THEN {<<metaModTime, "sent">>} ELSE {})
             \cup (IF m.Immutable THEN {<<metaImmutable, "sent">>} ELSE {})
       |-> IF n[1] = metaModTime THEN <<"time", m.ModTime>> ELSE <<"true">>]

\* What the store makes of the names (the same values under its spelling).
Spelled(md, spelling) ==
    [n \in {<<k[1], spelling>> : k \in DOMAIN md} |-> md[<<n[1], "sent">>]]

\* The exact name first, then any that differs only in letter case.
lookup(md, name) ==
    IF <<name, "sent">> \in DOMAIN md THEN md[<<name, "sent">>]
    ELSE IF \E k \in DOMAIN md : k[1] = name
         THEN md[CHOOSE k \in DOMAIN md : k[1] = name]
         ELSE <<>>

\* A time that is missing, or was the zero time, is replaced by the store's.
metaFrom(md, contentType, contentLength, lastModified) ==
    LET v == lookup(md, metaModTime)
        t == IF v # <<>> THEN v[2] ELSE 0
    IN  [Size |-> contentLength, ContentType |-> contentType,
         ModTime |-> IF t = 0 THEN lastModified ELSE t,
         Immutable |-> lookup(md, metaImmutable) = <<"true">>]

-----------------------------------------------------------------------------
(* The message.  A field that is not set is the empty sequence; the server *)
(* writes what its client reads, and the other way round.                  *)

serverToProto(m) ==
    [Size |-> m.Size, ContentType |-> m.ContentType,
     Immutable |-> m.Immutable,
     ModTime |-> IF m.ModTime # 0 THEN <<m.ModTime>> ELSE <<>>]

serverFromProto(p) ==
    [Size |-> p.Size, ContentType |-> p.ContentType,
     Immutable |-> p.Immutable,
     ModTime |-> IF p.ModTime # <<>> THEN p.ModTime[1] ELSE 0]

remoteToProto(m) ==
    [Size |-> m.Size, ContentType |-> m.ContentType,
     Immutable |-> m.Immutable,
     ModTime |-> IF m.ModTime # 0 THEN <<m.ModTime>> ELSE <<>>]

remoteFromProto(p) ==
    [Size |-> p.Size, ContentType |-> p.ContentType,
     Immutable |-> p.Immutable,
     ModTime |-> IF p.ModTime # <<>> THEN p.ModTime[1] ELSE 0]

\* A Put's metadata as the server's tiers get it, a Get's as its client does.
Received(m) == serverFromProto(remoteToProto(m))
Served(m) == remoteFromProto(serverToProto(m))
=============================================================================
