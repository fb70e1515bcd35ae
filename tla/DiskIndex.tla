------------------------------ MODULE DiskIndex ------------------------------
(***************************************************************************)
(* The disk tier's index in detail (engine/disk/index.go): the map of      *)
(* entries, the LRU list threaded through them, the running totals of the  *)
(* volume and of each front-end, and the tombstones.  Every operation      *)
(* holds the index's lock from start to end and is one step; the clock is  *)
(* read by the caller before it takes the lock.  Negative entries, which   *)
(* no caller records, are left out.                                        *)
(***************************************************************************)
EXTENDS Integers, Sequences, FiniteSets, Functions

CONSTANTS
    Keys,        \* object keys
    Sizes,       \* bytes an object occupies, header included (never 0)
    Frontends,   \* first elements of the keys
    FrontendOf,  \* the front-end of each key
    MaxTime,     \* bound on the clock
    Skew         \* how old a clock reading may be when its caller has the lock

ASSUME KeysAssumption == IsFiniteSet(Keys)
ASSUME SizesAssumption == Sizes \subseteq Nat \ {0}
ASSUME FrontendsAssumption == FrontendOf \in [Keys -> Frontends]
ASSUME ClockAssumption == MaxTime \in Nat /\ Skew \in Nat

VARIABLES
    list,        \* keys from head (most recently used) to tail
    size,        \* index.m: onDisk of each entry
    at,          \* lastAccess of each entry
    used, n,     \* index.used, index.n
    fe,          \* index.fe: entries and bytes of each front-end
    cold, tombs, \* index.cold, index.tombs
    now          \* the clock

vars == <<list, size, at, used, n, fe, cold, tombs, now>>

Absent == 0

Listed == {k \in Keys : size[k] # Absent}

Bytes(ks) == SumFunctionOnSet(size, ks)

OfFrontend(f) == {k \in Keys : FrontendOf[k] = f}

\* A reading of the clock that a caller holds when it gets the lock.
Reading == {t \in 0 .. now : now - t <= Skew}

\* account: one entry of s bytes comes or goes.
account(u, f, entries, bytes) ==
    [u EXCEPT ![f] = [entries |-> @.entries + entries, bytes |-> @.bytes + bytes]]

\* The keys of s that are in ks, in the order of s.
Filter(s, ks) ==
    LET kept[i \in 0 .. Len(s)] ==
          IF i = 0 THEN <<>>
          ELSE IF s[i] \in ks THEN Append(kept[i - 1], s[i]) ELSE kept[i - 1]
    IN  kept[Len(s)]

\* The list read along prev, least recently used first.
FromTail == [i \in 1 .. Len(list) |-> list[Len(list) - i + 1]]

unlink(ks) == Filter(list, Keys \ ks)

-----------------------------------------------------------------------------
(* Operations.                                                             *)

\* Seeded fault: the totals of the entry that is replaced stay.
setKeepsTotals(k, s, t) ==
    /\ list' = <<k>> \o unlink({k})
    /\ size' = [size EXCEPT ![k] = s]
    /\ at' = [at EXCEPT ![k] = t]
    /\ used' = used + s
    /\ n' = n + 1
    /\ fe' = account(fe, FrontendOf[k], 1, s)
    /\ tombs' = tombs \ {k}
    /\ UNCHANGED <<cold, now>>

set(k, s, t) ==
    LET old == IF size[k] = Absent THEN 0 ELSE 1 IN
    /\ list' = <<k>> \o unlink({k})
    /\ size' = [size EXCEPT ![k] = s]
    /\ at' = [at EXCEPT ![k] = t]
    /\ used' = used - size[k] + s
    /\ n' = n - old + 1
    /\ fe' = account(account(fe, FrontendOf[k], -old, -size[k]), FrontendOf[k], 1, s)
    /\ tombs' = tombs \ {k}
    /\ UNCHANGED <<cold, now>>

\* Seeded fault: the tombstones are not consulted.
addIfAbsentNoTombs(k, s, t) ==
    /\ size[k] = Absent
    /\ list' = <<k>> \o list
    /\ size' = [size EXCEPT ![k] = s]
    /\ at' = [at EXCEPT ![k] = t]
    /\ used' = used + s
    /\ n' = n + 1
    /\ fe' = account(fe, FrontendOf[k], 1, s)
    /\ UNCHANGED <<cold, tombs, now>>

\* An entry that is there, or that was removed during the walk, stays as it is.
addIfAbsent(k, s, t) ==
    /\ size[k] = Absent /\ k \notin tombs
    /\ list' = <<k>> \o list
    /\ size' = [size EXCEPT ![k] = s]
    /\ at' = [at EXCEPT ![k] = t]
    /\ used' = used + s
    /\ n' = n + 1
    /\ fe' = account(fe, FrontendOf[k], 1, s)
    /\ UNCHANGED <<cold, tombs, now>>

touch(k, t) ==
    /\ size[k] # Absent
    /\ list' = <<k>> \o unlink({k})
    /\ at' = [at EXCEPT ![k] = t]
    /\ UNCHANGED <<size, used, n, fe, cold, tombs, now>>

\* removeLocked, for each of the keys in turn.
removeAll(ks) ==
    /\ tombs' = IF cold THEN tombs \cup ks ELSE tombs
    /\ list' = unlink(ks)
    /\ size' = [k \in Keys |-> IF k \in ks THEN Absent ELSE size[k]]
    /\ used' = used - Bytes(ks)
    /\ n' = n - Cardinality(ks \cap Listed)
    /\ fe' = [f \in Frontends |->
                [entries |-> fe[f].entries - Cardinality(ks \cap Listed \cap OfFrontend(f)),
                 bytes   |-> fe[f].bytes - Bytes(ks \cap OfFrontend(f))]]
    /\ UNCHANGED <<at, cold, now>>

remove(k) == removeAll({k})

\* From the tail, until the entries taken account for enough bytes.
takeLRU(bytes, frontends) ==
    LET c == Filter(FromTail, {k \in Keys : FrontendOf[k] \in frontends})
        before(i) == Bytes({c[j] : j \in 1 .. i - 1})
    IN  removeAll({c[i] : i \in {i \in DOMAIN c : before(i) < bytes}})

\* The list rebuilt newest first; entries of the same time in some order.
sortByAccess ==
    list' \in {q \in [1 .. Cardinality(Listed) -> Listed] :
                 /\ IsInjective(q)
                 /\ \A i, j \in DOMAIN q : i < j => at[q[i]] >= at[q[j]]}

\* Seeded fault: the list keeps the order in which the walk filled it.
finishWalkUnsorted ==
    /\ cold
    /\ cold' = FALSE /\ tombs' = {}
    /\ UNCHANGED <<list, size, at, used, n, fe, now>>

finishWalk ==
    /\ cold
    /\ sortByAccess
    /\ cold' = FALSE /\ tombs' = {}
    /\ UNCHANGED <<size, at, used, n, fe, now>>

\* A restart that walks: newIndex.
newIndex ==
    /\ list' = <<>>
    /\ size' = [k \in Keys |-> Absent] /\ at' = [k \in Keys |-> 0]
    /\ used' = 0 /\ n' = 0
    /\ fe' = [f \in Frontends |-> [entries |-> 0, bytes |-> 0]]
    /\ cold' = TRUE /\ tombs' = {}
    /\ UNCHANGED now

\* A restart that believes a file saved from this index: the records are read
\* back one by one, counted, and sorted.
load ==
    /\ ~cold
    /\ sortByAccess
    /\ used' = Bytes(Listed) /\ n' = Cardinality(Listed)
    /\ fe' = [f \in Frontends |->
                [entries |-> Cardinality(Listed \cap OfFrontend(f)),
                 bytes   |-> Bytes(Listed \cap OfFrontend(f))]]
    /\ tombs' = {}
    /\ UNCHANGED <<size, at, cold, now>>

Tick == now < MaxTime /\ now' = now + 1 /\ UNCHANGED <<list, size, at, used, n, fe, cold, tombs>>

-----------------------------------------------------------------------------

Init ==
    /\ list = <<>>
    /\ size = [k \in Keys |-> Absent] /\ at = [k \in Keys |-> 0]
    /\ used = 0 /\ n = 0
    /\ fe = [f \in Frontends |-> [entries |-> 0, bytes |-> 0]]
    /\ cold = TRUE /\ tombs = {}
    /\ now = 0

\* The walk adds what it finds under the file's mtime, which may be old.
Walk == cold /\ \E k \in Keys, s \in Sizes, t \in 0 .. now : addIfAbsent(k, s, t)

\* Bytes to reclaim and the front-ends to reclaim them from: one, or all.
Evict ==
    \E bytes \in 1 .. used, frontends \in {{f} : f \in Frontends} \cup {Frontends} :
        takeLRU(bytes, frontends)

Next ==
    \/ \E k \in Keys, s \in Sizes, t \in Reading : set(k, s, t) \/ addIfAbsent(k, s, t)
    \/ \E k \in Keys, t \in Reading : touch(k, t)
    \/ \E k \in Keys : remove(k)
    \/ Walk \/ Evict \/ finishWalk \/ newIndex \/ load \/ Tick

Spec == Init /\ [][Next]_vars

-----------------------------------------------------------------------------
(* Properties.                                                             *)

\* The numbers the garbage collector steers by are those of the map, after
\* any sequence of operations: the list holds every entry once, and the byte
\* and entry totals, of the volume and of each front-end, are those of the
\* entries (index.go account, set, addIfAbsent, removeLocked, takeLRU, load).
TotalsExact ==
    /\ IsInjective(list) /\ Range(list) = Listed
    /\ used = Bytes(Listed) /\ n = Cardinality(Listed)
    /\ \A f \in Frontends :
          /\ fe[f].entries = Cardinality(Listed \cap OfFrontend(f))
          /\ fe[f].bytes = Bytes(Listed \cap OfFrontend(f))

\* Eviction is least-recently-used: once the index is warm, an entry that an
\* eviction takes was not used after an entry of the same front-end that it
\* leaves, by more than the age of a clock reading (index.go takeLRU, touch,
\* finishWalk, disk.go sortEntriesByAccess).
EvictsOldest ==
    [][~cold /\ Evict =>
         \A v, k \in Listed :
            /\ size'[v] = Absent /\ size'[k] # Absent
            /\ FrontendOf[v] = FrontendOf[k]
            => at[v] <= at[k] + Skew]_vars

Abstract ==
    INSTANCE IndexSpec WITH m <- size,
        Groups <- {OfFrontend(f) : f \in Frontends} \cup {Keys}

\* The list and the totals implement the index that module Disk is built on:
\* the entries, tombstones and victims of every operation are those IndexSpec
\* allows (index.go).
ImplementsIndex == Abstract!IndexSpecification
=============================================================================
