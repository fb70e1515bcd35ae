------------------------------ MODULE IndexSpec ------------------------------
(***************************************************************************)
(* What the disk tier's index promises (engine/disk/index.go): which keys  *)
(* it holds, the bytes it records for each, and the tombstones of the keys *)
(* removed while the start-up walk runs.  Each operator is the effect of   *)
(* one lock region.  Module Disk is built on these operators and module    *)
(* DiskIndex, which has the LRU list and the running totals, implements    *)
(* them; here takeLRU may pick any victims that satisfy its byte count.    *)
(***************************************************************************)
EXTENDS Integers, Functions

CONSTANTS
    Keys,       \* object keys
    Sizes,      \* bytes an object occupies, header included (never 0)
    Groups      \* sets of keys a prefix or a front-end name selects

ASSUME SizesAssumption == Sizes \subseteq Nat \ {0}
ASSUME GroupsAssumption == Groups \subseteq SUBSET Keys

VARIABLES
    m,          \* index.m: the bytes recorded for each key
    cold,       \* index.cold: the start-up walk is running
    tombs       \* index.tombs: keys removed while cold

index == <<m, cold, tombs>>

Absent == 0     \* no entry in the index, no file on the volume

NoEntries == [k \in Keys |-> Absent]

Indexed == {k \in Keys : m[k] # Absent}

-----------------------------------------------------------------------------

\* Seeded fault: a Put does not lift the tombstone of its key.
setKeepsTomb(k, s) ==
    /\ m' = IF k \in tombs THEN m ELSE [m EXCEPT ![k] = s]
    /\ UNCHANGED tombs

\* Seeded fault: an entry that is there keeps the size it had.
setKeepsSize(k, s) ==
    /\ m' = IF m[k] = Absent THEN [m EXCEPT ![k] = s] ELSE m
    /\ tombs' = tombs \ {k}

set(k, s) ==
    /\ m' = [m EXCEPT ![k] = s]
    /\ tombs' = tombs \ {k}

addIfAbsent(k, s) ==
    /\ m' = IF m[k] = Absent /\ k \notin tombs THEN [m EXCEPT ![k] = s] ELSE m
    /\ UNCHANGED tombs

\* Seeded fault: a removal during the walk leaves no tombstone.
removeLockedNoTomb(ks) ==
    /\ UNCHANGED tombs
    /\ m' = [k \in Keys |-> IF k \in ks THEN Absent ELSE m[k]]

removeLocked(ks) ==
    /\ tombs' = IF cold THEN tombs \cup ks ELSE tombs
    /\ m' = [k \in Keys |-> IF k \in ks THEN Absent ELSE m[k]]

\* The victims takeLRU may return: entries of the front-end, taken one at a
\* time until they account for n bytes or the list ends.
takeLRU(n, frontend) ==
    LET entries == Indexed \cap frontend
        bytes(ks) == SumFunctionOnSet(m, ks)
    IN  {v \in SUBSET entries :
            /\ v = entries \/ bytes(v) >= n
            /\ \E last \in v : bytes(v \ {last}) < n}

finishWalk == cold' = FALSE /\ tombs' = {} /\ UNCHANGED m

-----------------------------------------------------------------------------

IndexInit == m = NoEntries /\ cold = TRUE /\ tombs = {}

\* A restart: the index is empty until a walk fills it, or comes warm from
\* the .index file.
IndexRestart ==
    /\ tombs' = {}
    /\ \/ m' = NoEntries /\ cold' = TRUE
       \/ m' \in [Keys -> Sizes \cup {Absent}] /\ cold' = FALSE

IndexNext ==
    \/ \E k \in Keys, s \in Sizes : (set(k, s) \/ addIfAbsent(k, s)) /\ UNCHANGED cold
    \/ \E k \in Keys : removeLocked({k}) /\ UNCHANGED cold
    \/ \E n \in 1 .. SumFunction(m), frontend \in Groups : \E victims \in takeLRU(n, frontend) :
          removeLocked(victims) /\ UNCHANGED cold
    \/ finishWalk
    \/ IndexRestart

IndexSpecification == IndexInit /\ [][IndexNext]_index
=============================================================================
