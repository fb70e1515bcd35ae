----------------------------- MODULE DiskProofs -----------------------------
(***************************************************************************)
(* Theorems about the disk tier, for any number of keys, callers, sizes    *)
(* and directories, and any combination of faults; those about the .index  *)
(* file name the faults and the overlap of calls that they exclude.        *)
(***************************************************************************)
EXTENDS Disk, TLAPS

-----------------------------------------------------------------------------
(* Type correctness.                                                       *)

\* os.Remove, whether it succeeds or fails, keeps the types of what it changes.
LEMMA RemoveTyped ==
    ASSUME VolumeOK, SavedOK, NEW k \in Keys,
           RemoveFile(k) \/ RemoveFileFails(k)
    PROVE  VolumeOK' /\ fresh' \in BOOLEAN /\ svfresh' \in BOOLEAN
<1>1. VolumeOK'
  BY DEF VolumeOK, RemoveFile, RemoveFileFails
<1>2. DirChanged \/ DirUnchanged
  BY DEF RemoveFile, RemoveFileFails
<1>3. fresh' \in BOOLEAN /\ svfresh' \in BOOLEAN
  BY <1>2, Zenon DEF SavedOK, DirChanged, DirUnchanged
<1> QED
  BY <1>1, <1>3

\* Forgetting keys keeps the index in its type.
LEMMA ForgetTyped ==
    ASSUME IndexOK, NEW ks \in SUBSET Keys, removeLocked(ks), cold' = cold
    PROVE  IndexOK'
  BY DEF IndexOK, removeLocked

\* A call that is well-formed.
Valid(c) ==
    /\ c \in Ops
    /\ c.pc \notin {"idle", "unlink", "prefix"} => c.key \in Keys
    /\ c.pc \in {"write", "set", "observe"} => c.size \in Sizes

\* A call on one key of known size, a call on a set of keys, and no call.
LEMMA ValidCalls ==
    /\ \A pc \in {"write", "set", "observe"}, k \in Keys, s \in Sizes :
          Valid(Call(pc, k, s, {}))
    /\ \A k \in Keys : Valid(Call("discard", k, Absent, {}))
    /\ \A pc \in {"unlink", "prefix"}, todo \in SUBSET Keys :
          Valid(Call(pc, NoKey, Absent, todo))
    /\ \A k \in Keys, todo \in SUBSET Keys :
          Valid(Call("prefixUnlink", k, Absent, todo))
    /\ Valid(Idle)
  BY DEF Valid, Ops, PCs, Call, Idle

\* Replacing one call by a well-formed one leaves the calls well-formed.
LEMMA CallReplaced ==
    ASSUME CallsOK, NEW p \in Procs, NEW c, Valid(c), op' = [op EXCEPT ![p] = c]
    PROVE  CallsOK'
  BY DEF CallsOK, Valid

\* What is left alone keeps its type.
LEMMA SameTyped ==
    ASSUME TypeOK
    PROVE  /\ UNCHANGED vol => VolumeOK'
           /\ UNCHANGED index => IndexOK'
           /\ UNCHANGED op => CallsOK'
           /\ UNCHANGED walker => WalkOK'
           /\ UNCHANGED <<pindex, saver>> => SavedOK'
           /\ UNCHANGED life => LifeOK'
  BY DEF TypeOK, VolumeOK, IndexOK, CallsOK, WalkOK, SavedOK, LifeOK,
         vol, index, walker, pindex, saver, life

\* Every step of every call keeps the variables in their types.
LEMMA CallsTyped ==
    ASSUME NEW p \in Procs, TypeOK, Put(p) \/ Get(p) \/ Remove(p)
    PROVE  TypeOK'
<1> USE DEF vol, pindex, index, walker, saver, life
<1>a. VolumeOK /\ IndexOK /\ CallsOK /\ SavedOK
  BY DEF TypeOK
<1> USE <1>a, GroupsAssumption
<1>0. /\ op[p].pc \notin {"idle", "unlink", "prefix"} => op[p].key \in Keys
      /\ op[p].pc \in {"write", "set", "observe"} => op[p].size \in Sizes
      /\ op[p].todo \subseteq Keys
  BY DEF CallsOK, Ops
<1>1. ASSUME NEW k \in Keys, NEW s \in Sizes, NEW i \in BOOLEAN, PutBegin(p, k, s, i)
      PROVE  TypeOK'
  <2>1. CallsOK'
    BY <1>1, CallReplaced, ValidCalls, Zenon DEF PutBegin
  <2>2. SavedOK'
    BY <1>1, Zenon DEF PutBegin, DirChanged, SavedOK
  <2> QED
    BY <1>1, <2>1, <2>2, SameTyped DEF TypeOK, PutBegin
<1>2. CASE PutAbort(p)
  <2>1. CallsOK'
    BY <1>2, CallReplaced, ValidCalls, Zenon DEF PutAbort
  <2>2. SavedOK'
    BY <1>2, Zenon DEF PutAbort, DirChanged, SavedOK
  <2> QED
    BY <1>2, <2>1, <2>2, SameTyped DEF TypeOK, PutAbort
<1>3. CASE PutRename(p)
  <2>1. CallsOK'
    BY <1>3, <1>0, CallReplaced, ValidCalls, Zenon DEF PutRename
  <2>2. VolumeOK'
    BY <1>3, <1>0 DEF PutRename, VolumeOK
  <2>3. SavedOK'
    BY <1>3, Zenon DEF PutRename, DirChanged, SavedOK
  <2> QED
    BY <1>3, <2>1, <2>2, <2>3, SameTyped DEF TypeOK, PutRename
<1>4. CASE PutSet(p)
  <2>1. CallsOK'
    BY <1>4, CallReplaced, ValidCalls, Zenon DEF PutSet
  <2>2. IndexOK'
    BY <1>4, <1>0 DEF PutSet, set, IndexOK
  <2> QED
    BY <1>4, <2>1, <2>2, SameTyped DEF TypeOK, PutSet
<1>5. ASSUME NEW k \in Keys, GetOpen(p, k)
      PROVE  TypeOK'
  <2>1. CallsOK'
    BY <1>5, CallReplaced, ValidCalls, Zenon DEF GetOpen, VolumeOK
  <2> QED
    BY <1>5, <2>1, SameTyped DEF TypeOK, GetOpen
<1>6. CASE GetObserve(p)
  <2>1. CallsOK'
    BY <1>6, CallReplaced, ValidCalls, Zenon DEF GetObserve
  <2>2. IndexOK'
    BY <1>6, <1>0 DEF GetObserve, addIfAbsent, IndexOK
  <2> QED
    BY <1>6, <2>1, <2>2, SameTyped DEF TypeOK, GetObserve
<1>7. CASE GetDiscard(p)
  <2>1. CallsOK'
    BY <1>7, <1>0, CallReplaced, ValidCalls, Zenon DEF GetDiscard
  <2>2. IndexOK'
    BY <1>7, <1>0, ForgetTyped DEF GetDiscard
  <2> QED
    BY <1>7, <2>1, <2>2, SameTyped DEF TypeOK, GetDiscard
<1>8. ASSUME NEW k \in Keys, DeleteBegin(p, k)
      PROVE  TypeOK'
  <2>1. CallsOK'
    BY <1>8, CallReplaced, ValidCalls, Zenon DEF DeleteBegin
  <2>2. IndexOK'
    BY <1>8, ForgetTyped DEF DeleteBegin
  <2> QED
    BY <1>8, <2>1, <2>2, SameTyped DEF TypeOK, DeleteBegin
<1>9. ASSUME NEW n \in Sizes, NEW frontend \in Groups, EvictBegin(p, n, frontend)
      PROVE  TypeOK'
  <2>1. CallsOK'
    BY <1>9, CallReplaced, ValidCalls, Zenon DEF EvictBegin, takeLRU, Indexed
  <2>2. IndexOK'
    BY <1>9, ForgetTyped DEF EvictBegin, takeLRU, Indexed
  <2> QED
    BY <1>9, <2>1, <2>2, SameTyped DEF TypeOK, EvictBegin
<1>10. CASE Unlink(p)
  <2>1. CallsOK'
    BY <1>10, <1>0, CallReplaced, ValidCalls, Zenon DEF Unlink
  <2>2. VolumeOK' /\ fresh' \in BOOLEAN /\ svfresh' \in BOOLEAN
    BY <1>10, <1>0, RemoveTyped DEF Unlink
  <2>3. SavedOK'
    BY <1>10, <2>2 DEF Unlink, SavedOK
  <2> QED
    BY <1>10, <2>1, <2>2, <2>3, SameTyped DEF TypeOK, Unlink
<1>11. ASSUME NEW prefix \in Groups, PrefixBegin(p, prefix)
      PROVE  TypeOK'
  <2>1. CallsOK'
    BY <1>11, CallReplaced, ValidCalls, Zenon DEF PrefixBegin, Indexed
  <2> QED
    BY <1>11, <2>1, SameTyped DEF TypeOK, PrefixBegin
<1>12. CASE PrefixRemove(p)
  <2>1. CallsOK'
    BY <1>12, <1>0, CallReplaced, ValidCalls, Zenon DEF PrefixRemove
  <2>2. IndexOK'
    BY <1>12, <1>0, ForgetTyped DEF PrefixRemove
  <2> QED
    BY <1>12, <2>1, <2>2, SameTyped DEF TypeOK, PrefixRemove
<1>13. CASE PrefixUnlink(p)
  <2>1. CallsOK'
    BY <1>13, <1>0, CallReplaced, ValidCalls, Zenon DEF PrefixUnlink
  <2>2. VolumeOK' /\ fresh' \in BOOLEAN /\ svfresh' \in BOOLEAN
    BY <1>13, <1>0, RemoveTyped DEF PrefixUnlink
  <2>3. SavedOK'
    BY <1>13, <2>2 DEF PrefixUnlink, SavedOK
  <2> QED
    BY <1>13, <2>1, <2>2, <2>3, SameTyped DEF TypeOK, PrefixUnlink
<1> QED
  BY <1>1, <1>2, <1>3, <1>4, <1>5, <1>6, <1>7, <1>8, <1>9, <1>10, <1>11, <1>12, <1>13 DEF Put, Get, Remove

\* What stays when the process is gone has the types it had.
LEMMA GoneTyped ==
    ASSUME TypeOK, ProcessGone, UNCHANGED <<files, failed>>,
           persist' \in [Keys -> Sizes \cup {Absent}],
           fresh' \in BOOLEAN
    PROVE  TypeOK'
<1>1. VolumeOK' /\ IndexOK' /\ WalkOK'
  BY DEF TypeOK, VolumeOK, IndexOK, WalkOK, ProcessGone, NoEntries
<1>2. CallsOK'
  BY ValidCalls DEF Valid, CallsOK, ProcessGone
<1>3. SavedOK' /\ LifeOK'
  BY Zenon DEF SavedOK, LifeOK, ProcessGone, NoEntries
<1> QED
  BY <1>1, <1>2, <1>3 DEF TypeOK

\* The steps of the walk, of the save, of the life of the process and of the
\* volume keep the variables in their types.
LEMMA BackgroundTyped ==
    ASSUME TypeOK,
           \/ Walk \/ FlushSnapshot \/ Save
           \/ StartLoad \/ StartWalk \/ CloseBegin \/ CloseSave \/ Crash
           \/ \E k \in Keys : HeaderRots(k)
    PROVE  TypeOK'
<1> USE DEF vol, pindex, index, walker, saver, life
<1>a. VolumeOK /\ IndexOK /\ WalkOK /\ SavedOK /\ LifeOK
  BY DEF TypeOK
<1> USE <1>a
<1>1. CASE WalkReaddir
  <2>1. WalkOK'
    BY <1>1 DEF WalkReaddir, WalkOK
  <2>2. failed' \subseteq Keys /\ UNCHANGED files
    BY <1>1 DEF WalkReaddir, VolumeOK
  <2>3. VolumeOK'
    BY <2>2, Zenon DEF VolumeOK
  <2> QED
    BY <1>1, <2>1, <2>3, SameTyped DEF TypeOK, WalkReaddir
<1>2. CASE WalkOpen
  <2>1. WalkOK'
    BY <1>2 DEF WalkOpen, WalkOK, VolumeOK, Absent, Rot
  <2>2. failed' \subseteq Keys /\ UNCHANGED files
    BY <1>2, <1>a DEF WalkOpen, VolumeOK, WalkOK
  <2>3. VolumeOK'
    BY <2>2, Zenon DEF VolumeOK
  <2> QED
    BY <1>2, <2>1, <2>3, SameTyped DEF TypeOK, WalkOpen
<1>3. CASE WalkAdd
  <2>1. WalkOK'
    BY <1>3 DEF WalkAdd, WalkOK
  <2>2. IndexOK'
    BY <1>3 DEF WalkAdd, addIfAbsent, WalkOK, IndexOK
  <2> QED
    BY <1>3, <2>1, <2>2, SameTyped DEF TypeOK, WalkAdd
<1>4. CASE WalkDiscard
  <2>1. WalkOK' /\ whold.key \in Keys
    BY <1>4 DEF WalkDiscard, WalkOK
  <2>2. VolumeOK' /\ fresh' \in BOOLEAN /\ svfresh' \in BOOLEAN
    BY <1>4, <2>1, RemoveTyped DEF WalkDiscard
  <2>3. SavedOK'
    BY <1>4, <2>2 DEF WalkDiscard, SavedOK
  <2> QED
    BY <1>4, <2>1, <2>2, <2>3, SameTyped DEF TypeOK, WalkDiscard
<1>5. CASE WalkFinish
  <2>1. WalkOK' /\ IndexOK'
    BY <1>5, Zenon DEF WalkFinish, finishWalk, WalkOK, IndexOK
  <2> QED
    BY <1>5, <2>1, SameTyped DEF TypeOK, WalkFinish, finishWalk
<1>6. CASE FlushSnapshot
  <2>1. SavedOK'
    BY <1>6 DEF FlushSnapshot, SavedOK, IndexOK
  <2> QED
    BY <1>6, <2>1, SameTyped DEF TypeOK, FlushSnapshot
<1>7. CASE SaveWrite
  <2>1. SavedOK'
    BY <1>7 DEF SaveWrite, SavedOK
  <2> QED
    BY <1>7, <2>1, SameTyped DEF TypeOK, SaveWrite
<1>8. CASE SaveRename \/ SaveFail
  <2>1. /\ UNCHANGED <<files, failed>>
        /\ persist' \in [Keys -> Sizes \cup {Absent}] /\ fresh' \in BOOLEAN
    BY <1>8, Zenon DEF SaveRename, SaveFail, SavedOK
  <2>2. CASE ProcessGone
    BY <2>1, <2>2, GoneTyped
  <2>3. CASE ~ProcessGone
    <3>1. /\ sv' = "idle" /\ recs' = NoEntries /\ svfresh' = FALSE
          /\ UNCHANGED <<index, op, walker, life>>
      BY <1>8, <2>3, Zenon DEF SaveRename, SaveFail, SaveEnds
    <3>2. SavedOK'
      BY <2>1, <3>1, Zenon DEF SavedOK, NoEntries
    <3> QED
      BY <2>1, <3>1, <3>2, SameTyped DEF TypeOK
  <2> QED
    BY <2>2, <2>3
<1>9. CASE StartLoad
  <2>1. IndexOK' /\ LifeOK'
    BY <1>9, Zenon DEF StartLoad, IndexOK, LifeOK, SavedOK
  <2> QED
    BY <1>9, <2>1, SameTyped DEF TypeOK, StartLoad
<1>10. CASE StartWalk
  <2>1. VolumeOK' /\ WalkOK'
    BY <1>10 DEF StartWalk, VolumeOK, WalkOK
  <2>2. IndexOK' /\ LifeOK'
    BY <1>10 DEF StartWalk, IndexOK, LifeOK, NoEntries
  <2> QED
    BY <1>10, <2>1, <2>2, SameTyped DEF TypeOK, StartWalk
<1>11. CASE CloseBegin
  <2>1. LifeOK'
    BY <1>11 DEF CloseBegin, LifeOK
  <2> QED
    BY <1>11, <2>1, SameTyped DEF TypeOK, CloseBegin
<1>12. CASE CloseSave
  <2>1. UNCHANGED <<files, failed, persist, fresh>>
    BY <1>12, Zenon DEF CloseSave
  <2>2. CASE ProcessGone
    BY <2>1, <2>2, GoneTyped DEF SavedOK
  <2>3. CASE ~ProcessGone
    <3>1. /\ phase' = "saving" /\ sv' = "snapshot" /\ recs' = m
          /\ UNCHANGED <<index, op, walker, svfresh, walked>>
      BY <1>12, <2>3, Zenon DEF CloseSave
    <3>2. SavedOK' /\ LifeOK'
      BY <2>1, <3>1 DEF SavedOK, LifeOK, IndexOK
    <3> QED
      BY <2>1, <3>1, <3>2, SameTyped DEF TypeOK
  <2> QED
    BY <2>2, <2>3
<1>13. CASE Crash
  <2>1. ProcessGone /\ UNCHANGED <<files, failed, pindex>>
    BY <1>13, Zenon DEF Crash
  <2> QED
    BY <2>1, GoneTyped DEF SavedOK
<1>14. ASSUME NEW k \in Keys, HeaderRots(k)
       PROVE  TypeOK'
  <2>1. VolumeOK'
    BY <1>14 DEF HeaderRots, VolumeOK
  <2> QED
    BY <1>14, <2>1, SameTyped DEF TypeOK, HeaderRots
<1> QED
  BY <1>1, <1>2, <1>3, <1>4, <1>5, <1>6, <1>7, <1>8, <1>9, <1>10, <1>11, <1>12, <1>13, <1>14
     DEF Walk, Save

\* The initial states are in their types.
LEMMA InitTyped == ASSUME Init PROVE TypeOK
<1>1. VolumeOK /\ IndexOK /\ WalkOK
  BY Zenon DEF Init, VolumeOK, IndexOK, WalkOK, NoEntries
<1>2. CallsOK
  BY ValidCalls DEF Init, CallsOK, Valid
<1>3. SavedOK /\ LifeOK
  BY Zenon DEF Init, SavedOK, LifeOK, NoEntries
<1> QED
  BY <1>1, <1>2, <1>3 DEF TypeOK

\* The variables of the disk tier keep their types: the index holds sizes and
\* never the marker of an unreadable header, and a call that will touch a key
\* or record a size has one.
THEOREM TypeCorrect == Spec => []TypeOK
<1>1. Init => TypeOK
  BY InitTyped
<1>2. TypeOK /\ [Next]_vars => TypeOK'
  <2> SUFFICES ASSUME TypeOK, [Next]_vars PROVE TypeOK'
    OBVIOUS
  <2>1. CASE UNCHANGED vars
    BY <2>1, SameTyped DEF TypeOK, vars, vol, index, walker, pindex, saver, life
  <2> QED
    BY <2>1, CallsTyped, BackgroundTyped DEF Next
<1> QED
  BY <1>1, <1>2, PTL DEF Spec

-----------------------------------------------------------------------------
(* The inductive invariant.  NoOrphan is not inductive by itself: the walk *)
(* skips a key with a tombstone and DeletePrefix skips a key that has left *)
(* the index, so what is known about such keys must be part of it.  It is  *)
(* stated for one key at a time: a step is followed with one key fixed.    *)

\* A call has taken k out of the index and has not unlinked its file yet.
Unlinked(k) == \E q \in Procs : Unlinking(q, k)

\* A DeletePrefix under way has k in its snapshot of the index.
Lists(q, k) == op[q].pc \in {"prefix", "prefixUnlink"} /\ k \in op[q].todo
Listed(k) == \E q \in Procs : Lists(q, k)

\* NoOrphan, for one key.
Reached(k) ==
    phase = "up" /\ walked /\ files[k] # Absent =>
        m[k] # Absent \/ InFlight(k) \/ AheadOfWalk(k) \/ k \in failed

\* A file under a key that has been in the index, or removed from it, in this
\* life of the process does not depend on the walk.
SeenAccounted(k) ==
    (k \in tombs \/ Listed(k)) /\ files[k] # Absent =>
        m[k] # Absent \/ InFlight(k) \/ k \in failed

\* While the walk runs it cannot insert a key that is being unlinked, nor the
\* key it holds if the file is gone.
WalkGuarded(k) ==
    /\ cold /\ Unlinked(k) => m[k] # Absent \/ k \in tombs
    /\ whold.key = k /\ files[k] = Absent => m[k] # Absent \/ k \in tombs

KeyInv(k) == Reached(k) /\ SeenAccounted(k) /\ WalkGuarded(k)

\* The walk's goroutine ends before the index is warm, and nothing runs in a
\* process that is down.
Quiet ==
    /\ whold # NotHeld => cold
    /\ phase = "down" => (\A q \in Procs : op[q].pc = "idle") /\ whold = NotHeld

IInv == TypeOK /\ Quiet /\ \A k \in Keys : KeyInv(k)

-----------------------------------------------------------------------------
(* Calls.  A step of one caller leaves what the others are doing alone, so *)
(* its effect on a key is a relation between this caller's part before and *)
(* after: three such relations are enough.                                 *)

InFlightElsewhere(p, k) ==
    \E q \in Procs \ {p} : Recording(q, k) \/ Unlinking(q, k)
UnlinkedElsewhere(p, k) == \E q \in Procs \ {p} : Unlinking(q, k)
ListedElsewhere(p, k) == \E q \in Procs \ {p} : Lists(q, k)

\* A file that appears, or that this caller or the index answered for, is
\* answered for afterwards.
Accounts(p, k) ==
    /\ files'[k] # Absent
    /\ \/ m[k] # Absent \/ k \in failed \/ files[k] = Absent
       \/ Recording(p, k) \/ Unlinking(p, k)
    => \/ m'[k] # Absent \/ k \in failed'
       \/ Recording(p, k)' \/ Unlinking(p, k)'

\* A key this caller adds to the seen ones is answered for, or has no file.
Remembers(p, k) ==
    k \in tombs' \/ Lists(p, k)' =>
        \/ k \in tombs \/ Lists(p, k)
        \/ m'[k] # Absent \/ files'[k] = Absent
        \/ Recording(p, k)' \/ Unlinking(p, k)'

\* While the walk runs, a key it may not insert stays so, a key this caller
\* begins to unlink becomes so, and a file goes only by an unlink under way.
Guards(p, k) ==
    /\ cold /\ (m[k] # Absent \/ k \in tombs) => m'[k] # Absent \/ k \in tombs'
    /\ cold /\ Unlinking(p, k)' => Unlinking(p, k) \/ m'[k] # Absent \/ k \in tombs'
    /\ files'[k] = Absent => files[k] = Absent \/ Unlinking(p, k)

\* A step of one caller changes no other caller's part.
LEMMA OthersStay ==
    ASSUME NEW p \in Procs, NEW k, \A q \in Procs \ {p} : op'[q] = op[q]
    PROVE  /\ InFlightElsewhere(p, k)' <=> InFlightElsewhere(p, k)
           /\ UnlinkedElsewhere(p, k)' <=> UnlinkedElsewhere(p, k)
           /\ ListedElsewhere(p, k)' <=> ListedElsewhere(p, k)
<1>1. InFlightElsewhere(p, k)' <=> InFlightElsewhere(p, k)
  BY Zenon DEF InFlightElsewhere, Recording, Unlinking
<1>2. UnlinkedElsewhere(p, k)' <=> UnlinkedElsewhere(p, k)
  BY Zenon DEF UnlinkedElsewhere, Unlinking
<1>3. ListedElsewhere(p, k)' <=> ListedElsewhere(p, k)
  BY Zenon DEF ListedElsewhere, Lists
<1> QED
  BY <1>1, <1>2, <1>3

\* The three relations are enough to preserve the invariant of a key.
LEMMA EffectKeepsKeyInv ==
    ASSUME NEW p \in Procs, NEW k \in Keys, KeyInv(k),
           \A q \in Procs \ {p} : op'[q] = op[q],
           whold # NotHeld => cold,
           UNCHANGED <<cold, wdirs, wlist, whold, phase, walked>>,
           Accounts(p, k), Remembers(p, k), Guards(p, k)
    PROVE  KeyInv(k)'
<1>1. /\ InFlight(k) <=>
             Recording(p, k) \/ Unlinking(p, k) \/ InFlightElsewhere(p, k)
      /\ Unlinked(k) <=> Unlinking(p, k) \/ UnlinkedElsewhere(p, k)
      /\ Listed(k) <=> Lists(p, k) \/ ListedElsewhere(p, k)
  BY Zenon DEF InFlight, Unlinked, Listed, InFlightElsewhere, UnlinkedElsewhere,
               ListedElsewhere
<1>2. /\ InFlight(k)' <=>
             Recording(p, k)' \/ Unlinking(p, k)' \/ InFlightElsewhere(p, k)'
      /\ Unlinked(k)' <=> Unlinking(p, k)' \/ UnlinkedElsewhere(p, k)'
      /\ Listed(k)' <=> Lists(p, k)' \/ ListedElsewhere(p, k)'
  BY Zenon DEF InFlight, Unlinked, Listed, InFlightElsewhere, UnlinkedElsewhere,
               ListedElsewhere
<1>3. /\ InFlightElsewhere(p, k)' <=> InFlightElsewhere(p, k)
      /\ UnlinkedElsewhere(p, k)' <=> UnlinkedElsewhere(p, k)
      /\ ListedElsewhere(p, k)' <=> ListedElsewhere(p, k)
  BY OthersStay
<1>4. whold.key = k => cold
  BY NoKeyAssumption DEF NotHeld
<1>5. AheadOfWalk(k)' <=> AheadOfWalk(k)
  BY Zenon DEF AheadOfWalk
<1>6. Reached(k)'
  BY <1>1, <1>2, <1>3, <1>5, Zenon DEF KeyInv, Reached, Accounts
<1>7. SeenAccounted(k)'
  BY <1>1, <1>2, <1>3, Zenon DEF KeyInv, SeenAccounted, Accounts, Remembers
<1>8. WalkGuarded(k)'
  BY <1>1, <1>2, <1>3, <1>4, Zenon DEF KeyInv, WalkGuarded, Guards
<1> QED
  BY <1>6, <1>7, <1>8 DEF KeyInv

\* removeLocked, seen from one key.
LEMMA ForgetEffect ==
    ASSUME NEW ks, removeLocked(ks), NEW k \in Keys
    PROVE  /\ k \in tombs => k \in tombs'
           /\ k \in tombs' => k \in tombs \/ k \in ks
           /\ cold /\ k \in ks => k \in tombs'
           /\ k \notin ks => m'[k] = m[k]
           /\ k \in ks => m'[k] = Absent
<1>1. m'[k] = IF k \in ks THEN Absent ELSE m[k]
  BY DEF removeLocked
<1>2. tombs' = IF cold THEN tombs \cup ks ELSE tombs
  BY DEF removeLocked
<1> QED
  BY <1>1, <1>2, Zenon

\* os.Remove, seen from one key.
LEMMA RemoveEffect ==
    ASSUME NEW j \in Keys, RemoveFile(j) \/ RemoveFileFails(j), NEW k \in Keys,
           files \in [Keys -> Sizes \cup {Absent, Rot}]
    PROVE  /\ k # j => files'[k] = files[k] /\ (k \in failed' <=> k \in failed)
           /\ k = j => files'[k] = Absent \/ k \in failed'
  BY DEF RemoveFile, RemoveFileFails

\* Every step of every call has these effects.
LEMMA CallsEffect ==
    ASSUME NEW p \in Procs, IInv, Put(p) \/ Get(p) \/ Remove(p), NEW k \in Keys
    PROVE  Accounts(p, k) /\ Remembers(p, k) /\ Guards(p, k)
<1> USE DEF vol, pindex, index, walker, saver, life
<1>a. /\ op \in [Procs -> Ops] /\ op[p].todo \subseteq Keys
      /\ files \in [Keys -> Sizes \cup {Absent, Rot}]
      /\ m \in [Keys -> Sizes \cup {Absent}]
  BY DEF IInv, TypeOK, CallsOK, VolumeOK, IndexOK, Ops
<1>b. /\ op[p].pc \in {"write", "set", "observe"} => op[p].size # Absent
      /\ op[p].pc = "prefixUnlink" => op[p].key \in Keys
  BY SizesAssumption DEF IInv, TypeOK, CallsOK, Absent
<1> DEFINE Effect == Accounts(p, k) /\ Remembers(p, k) /\ Guards(p, k)
<1> USE DEF Accounts, Remembers, Guards, Recording, Unlinking, Lists
<1>1. ASSUME NEW j \in Keys, NEW s \in Sizes, NEW i \in BOOLEAN, PutBegin(p, j, s, i)
      PROVE  Effect
  <2>1. op'[p].pc \in {"write"} /\ op[p].pc = "idle"
    BY <1>1, <1>a, Zenon DEF PutBegin, Call, Idle, CanStart
  <2>2. UNCHANGED <<files, m, tombs, failed>>
    BY <1>1, Zenon DEF PutBegin
  <2> QED
    BY <2>1, <2>2, Zenon
<1>2. CASE PutAbort(p)
  <2>1. op'[p].pc \in {"idle"} /\ op[p].pc = "write"
    BY <1>2, <1>a DEF PutAbort, Call, Idle, CanStart
  <2>2. UNCHANGED <<files, m, tombs, failed>>
    BY <1>2, Zenon DEF PutAbort
  <2> QED
    BY <2>1, <2>2, Zenon
<1>3. CASE PutRename(p)
  <2>1. op'[p].pc = "set" /\ op'[p].key = op[p].key /\ op[p].pc = "write"
    BY <1>3, <1>a DEF PutRename, Call
  <2>2. /\ UNCHANGED <<m, tombs>>
        /\ k # op[p].key => files'[k] = files[k] /\ (k \in failed' <=> k \in failed)
        /\ k = op[p].key => files'[k] # Absent
    BY <1>3, <1>a, <1>b DEF PutRename
  <2> QED
    BY <2>1, <2>2, Zenon
<1>4. CASE PutSet(p)
  <2>1. op'[p].pc = "idle" /\ op[p].pc = "set"
    BY <1>4, <1>a DEF PutSet, Call, Idle
  <2>2. /\ UNCHANGED <<files, failed>>
        /\ k # op[p].key => m'[k] = m[k] /\ (k \in tombs' <=> k \in tombs)
        /\ k = op[p].key => m'[k] # Absent
    BY <1>4, <1>a, <1>b, Zenon DEF PutSet, set
  <2> QED
    BY <2>1, <2>2, Zenon
<1>5. ASSUME NEW j \in Keys, GetOpen(p, j)
      PROVE  Effect
  <2>1. op'[p].pc \in {"discard", "observe"} /\ op[p].pc = "idle"
    BY <1>5, <1>a, Zenon DEF GetOpen, Call, Idle, CanStart
  <2>2. UNCHANGED <<files, m, tombs, failed>>
    BY <1>5, Zenon DEF GetOpen
  <2> QED
    BY <2>1, <2>2, Zenon
<1>6. CASE GetObserve(p)
  <2>1. op'[p].pc = "idle" /\ op[p].pc = "observe"
    BY <1>6, <1>a DEF GetObserve, Call, Idle
  <2>2. UNCHANGED <<files, failed, tombs>> /\ (m[k] # Absent => m'[k] # Absent)
    BY <1>6, <1>a, <1>b, Zenon DEF GetObserve, addIfAbsent
  <2> QED
    BY <2>1, <2>2, Zenon
<1>7. ASSUME NEW ks, removeLocked(ks), UNCHANGED <<files, failed>>,
             op[p].pc \in {"idle", "discard"}, op'[p].pc = "unlink", op'[p].todo = ks
      PROVE  Effect
  <2>1. /\ k \in tombs => k \in tombs'
        /\ k \in tombs' => k \in tombs \/ k \in ks
        /\ cold /\ k \in ks => k \in tombs'
        /\ k \notin ks => m'[k] = m[k]
    BY <1>7, ForgetEffect
  <2> QED
    BY <1>7, <2>1, Zenon
<1>8. CASE GetDiscard(p)
  <2>1. op'[p].pc = "unlink" /\ op'[p].todo = {op[p].key}
    BY <1>8, <1>a DEF GetDiscard, Call
  <2> QED
    BY <1>7, <1>8, <2>1, Zenon DEF GetDiscard
<1>9. ASSUME NEW j \in Keys, DeleteBegin(p, j)
      PROVE  Effect
  <2>1. op'[p].pc = "unlink" /\ op'[p].todo = {j}
    BY <1>9, <1>a DEF DeleteBegin, Call
  <2> QED
    BY <1>7, <1>9, <2>1, Zenon DEF DeleteBegin, CanStart
<1>10. ASSUME NEW n \in Sizes, NEW frontend \in Groups, EvictBegin(p, n, frontend)
       PROVE  Effect
  <2>1. PICK victims \in takeLRU(n, frontend) :
          /\ removeLocked(victims)
          /\ op' = [op EXCEPT ![p] = Call("unlink", NoKey, Absent, victims)]
    BY <1>10, Zenon DEF EvictBegin
  <2>2. op'[p].pc = "unlink" /\ op'[p].todo = victims
    BY <1>a, <2>1 DEF Call
  <2> QED
    BY <1>7, <1>10, <2>1, <2>2, Zenon DEF EvictBegin, CanStart
<1>11. CASE Unlink(p)
  <2>1. PICK j \in op[p].todo :
          /\ RemoveFile(j) \/ RemoveFileFails(j)
          /\ op' = [op EXCEPT ![p] =
                IF op[p].todo = {j} THEN Idle
                ELSE Call("unlink", NoKey, Absent, op[p].todo \ {j})]
    BY <1>11, Zenon DEF Unlink
  <2>2. /\ op[p].todo # {j} => op'[p].pc = "unlink" /\ op'[p].todo = op[p].todo \ {j}
        /\ op[p].todo = {j} => op'[p].pc = "idle"
    BY <1>a, <2>1 DEF Call, Idle
  <2>3. /\ k # j => files'[k] = files[k] /\ (k \in failed' <=> k \in failed)
        /\ k = j => files'[k] = Absent \/ k \in failed'
    BY <1>a, <2>1, RemoveEffect, Zenon
  <2>4. UNCHANGED <<m, tombs>> /\ op[p].pc = "unlink"
    BY <1>11, Zenon DEF Unlink
  <2> QED
    BY <2>1, <2>2, <2>3, <2>4, Zenon
<1>12. ASSUME NEW prefix \in Groups, PrefixBegin(p, prefix)
       PROVE  Effect
  <2>1. op'[p].pc = "prefix" /\ op'[p].todo = Indexed \cap prefix
    BY <1>12, <1>a DEF PrefixBegin, Call
  <2>2. UNCHANGED <<files, m, tombs, failed>> /\ op[p].pc = "idle"
    BY <1>12, Zenon DEF PrefixBegin, CanStart
  <2> QED
    BY <2>1, <2>2, Zenon DEF Indexed
<1>13. CASE PrefixRemove(p)
  <2>1. PICK j \in op[p].todo :
          /\ removeLocked({j})
          /\ op' = [op EXCEPT ![p] =
                IF m[j] # Absent
                THEN Call("prefixUnlink", j, Absent, op[p].todo \ {j})
                ELSE IF op[p].todo \ {j} = {} THEN Idle
                ELSE Call("prefix", NoKey, Absent, op[p].todo \ {j})]
    BY <1>13, Zenon DEF PrefixRemove
  <2>2. /\ m[j] # Absent => /\ op'[p].pc = "prefixUnlink" /\ op'[p].key = j
                            /\ op'[p].todo = op[p].todo \ {j}
        /\ m[j] = Absent => \/ op'[p].pc = "idle"
                            \/ op'[p].pc = "prefix" /\ op'[p].todo = op[p].todo \ {j}
    BY <1>a, <2>1 DEF Call, Idle
  <2>3. /\ k \in tombs => k \in tombs'
        /\ k \in tombs' => k \in tombs \/ k = j
        /\ cold /\ k = j => k \in tombs'
        /\ k # j => m'[k] = m[k]
        /\ k = j => m'[k] = Absent
    <3>1. removeLocked({j})
      BY <2>1, Zenon
    <3>2. /\ k \in tombs => k \in tombs'
          /\ k \in tombs' => k \in tombs \/ k \in {j}
          /\ cold /\ k \in {j} => k \in tombs'
          /\ k \notin {j} => m'[k] = m[k]
          /\ k \in {j} => m'[k] = Absent
      BY <3>1, ForgetEffect, Zenon
    <3> QED
      BY <3>2, Zenon
  <2>4. UNCHANGED <<files, failed>> /\ op[p].pc = "prefix"
    BY <1>13, Zenon DEF PrefixRemove
  <2> QED
    BY <2>1, <2>2, <2>3, <2>4, Zenon
<1>14. CASE PrefixUnlink(p)
  <2>1. /\ op[p].pc = "prefixUnlink" /\ op[p].key \in Keys
        /\ op'[p].pc \in {"idle", "prefix"}
        /\ op'[p].pc = "prefix" => op'[p].todo = op[p].todo
    BY <1>14, <1>a, <1>b DEF PrefixUnlink, Call, Idle
  <2>2. /\ k # op[p].key => files'[k] = files[k] /\ (k \in failed' <=> k \in failed)
        /\ k = op[p].key => files'[k] = Absent \/ k \in failed'
    BY <1>14, <1>a, <2>1, RemoveEffect, Zenon DEF PrefixUnlink
  <2>3. UNCHANGED <<m, tombs>>
    BY <1>14, Zenon DEF PrefixUnlink
  <2> QED
    BY <2>1, <2>2, <2>3, Zenon
<1> QED
  BY <1>1, <1>2, <1>3, <1>4, <1>5, <1>6, <1>8, <1>9, <1>10, <1>11, <1>12, <1>13, <1>14, Zenon
     DEF Put, Get, Remove

\* What a step of one caller leaves alone.
LEMMA CallsLeave ==
    ASSUME NEW p \in Procs, TypeOK, Put(p) \/ Get(p) \/ Remove(p)
    PROVE  /\ UNCHANGED <<persist, cold, wdirs, wlist, whold, sv, recs, phase, walked>>
           /\ \A q \in Procs \ {p} : op'[q] = op[q]
           /\ fresh' => fresh
<1> USE DEF vol, pindex, index, walker, saver, life
<1>1. UNCHANGED <<persist, cold, wdirs, wlist, whold, sv, recs, phase, walked>>
  BY Zenon DEF Put, Get, Remove, PutBegin, PutAbort, PutRename, PutSet, GetOpen,
               GetObserve, GetDiscard, DeleteBegin, EvictBegin, Unlink,
               PrefixBegin, PrefixRemove, PrefixUnlink
<1>2. op \in [Procs -> Ops]
  BY DEF TypeOK, CallsOK
<1>3. \A q \in Procs \ {p} : op'[q] = op[q]
  BY <1>2, Zenon DEF Put, Get, Remove, PutBegin, PutAbort, PutRename, PutSet, GetOpen,
               GetObserve, GetDiscard, DeleteBegin, EvictBegin, Unlink,
               PrefixBegin, PrefixRemove, PrefixUnlink
<1>4. fresh' => fresh
  BY Zenon DEF Put, Get, Remove, PutBegin, PutAbort, PutRename, PutSet, GetOpen,
               GetObserve, GetDiscard, DeleteBegin, EvictBegin, Unlink, PrefixBegin,
               PrefixRemove, PrefixUnlink, RemoveFile, RemoveFileFails, DirChanged, DirUnchanged
<1> QED
  BY <1>1, <1>3, <1>4

\* Every step of every call keeps the invariant of a key.
LEMMA CallsKeepKeyInv ==
    ASSUME NEW p \in Procs, IInv, Put(p) \/ Get(p) \/ Remove(p), NEW k \in Keys
    PROVE  KeyInv(k)'
<1>1. KeyInv(k) /\ (whold # NotHeld => cold) /\ TypeOK
  BY DEF IInv, Quiet
<1> QED
  BY <1>1, CallsLeave, CallsEffect, EffectKeepsKeyInv, Zenon

-----------------------------------------------------------------------------
(* The walk, the save and the life of the process.                         *)

\* A step that leaves the calls alone leaves what they have in flight alone.
LEMMA SameCalls ==
    ASSUME op' = op, NEW k
    PROVE  /\ InFlight(k)' <=> InFlight(k)
           /\ Unlinked(k)' <=> Unlinked(k)
           /\ Listed(k)' <=> Listed(k)
  BY DEF InFlight, Unlinked, Listed, Recording, Unlinking, Lists

\* Nothing is in flight when every call is idle.
LEMMA NothingInFlight ==
    ASSUME NEW k, \A q \in Procs : op[q].pc = "idle"
    PROVE  ~InFlight(k) /\ ~Unlinked(k) /\ ~Listed(k)
  BY DEF InFlight, Unlinked, Listed, Recording, Unlinking, Lists

\* A process that is gone leaves nothing to be accounted for.
LEMMA GoneKeepsKeyInv ==
    ASSUME ProcessGone, NEW k \in Keys
    PROVE  KeyInv(k)'
<1>1. ~InFlight(k)' /\ ~Unlinked(k)' /\ ~Listed(k)'
  BY DEF ProcessGone, InFlight, Unlinked, Listed, Recording, Unlinking, Lists, Idle, Call
<1>2. phase' = "down" /\ tombs' = {} /\ whold'.key # k
  BY NoKeyAssumption DEF ProcessGone, NotHeld
<1> QED
  BY <1>1, <1>2, Zenon DEF KeyInv, Reached, SeenAccounted, WalkGuarded

\* Every step of the walk, of the save, of the life of the process and of the
\* volume.
LEMMA BackgroundKeepsKeyInv ==
    ASSUME IInv, NEW k \in Keys,
           \/ Walk \/ FlushSnapshot \/ Save
           \/ StartLoad \/ StartWalk \/ CloseBegin \/ CloseSave \/ Crash
           \/ \E j \in Keys : HeaderRots(j)
    PROVE  KeyInv(k)'
<1> USE DEF vol, pindex, index, walker, saver, life
<1>a. /\ files \in [Keys -> Sizes \cup {Absent, Rot}]
      /\ m \in [Keys -> Sizes \cup {Absent}]
  BY DEF IInv, TypeOK, VolumeOK, IndexOK
<1>b. /\ KeyInv(k) /\ (whold # NotHeld => cold)
      /\ phase = "down" => (\A q \in Procs : op[q].pc = "idle") /\ whold = NotHeld
  BY DEF IInv, Quiet
<1>c. /\ whold # NotHeld => whold.key \in Keys /\ whold.size \in Sizes \cup {Rot}
      /\ NotHeld.key # k
  BY NoKeyAssumption DEF IInv, TypeOK, WalkOK, NotHeld
<1>d. Absent \notin Sizes /\ Absent # Rot
  BY SizesAssumption DEF Absent, Rot
<1>e. op' = op => /\ InFlight(k)' <=> InFlight(k)
                  /\ Unlinked(k)' <=> Unlinked(k)
                  /\ Listed(k)' <=> Listed(k)
  BY SameCalls
<1>f. phase = "down" => ~InFlight(k) /\ ~Unlinked(k) /\ ~Listed(k)
  BY <1>b, NothingInFlight
<1>1. CASE WalkReaddir
  <2>1. /\ UNCHANGED <<files, m, cold, tombs, op, whold, phase, walked>>
        /\ whold = NotHeld
    BY <1>1, Zenon DEF WalkReaddir
  <2>2. /\ files[k] # Absent /\ AheadOfWalk(k) =>
              DirOf[k] \in wdirs' \/ k \in wlist' \/ k \in failed'
        /\ k \in failed => k \in failed'
    BY <1>1, <1>c DEF WalkReaddir, AheadOfWalk
  <2> QED
    BY <2>1, <2>2, <1>b, <1>e, Zenon
       DEF KeyInv, Reached, SeenAccounted, WalkGuarded, AheadOfWalk
<1>2. CASE WalkOpen
  <2>1. /\ UNCHANGED <<files, m, cold, tombs, op, wdirs, phase, walked>>
        /\ whold = NotHeld
    BY <1>2, Zenon DEF WalkOpen
  <2>2. /\ files[k] # Absent /\ k \in wlist =>
              k \in wlist' \/ whold'.key = k \/ k \in failed'
        /\ k \in failed => k \in failed'
        /\ whold'.key = k => files[k] # Absent
    BY <1>2, <1>c DEF WalkOpen
  <2> QED
    BY <2>1, <2>2, <1>b, <1>c, <1>e, Zenon
       DEF KeyInv, Reached, SeenAccounted, WalkGuarded, AheadOfWalk
<1>3. CASE WalkAdd
  <2>1. UNCHANGED <<files, failed, cold, tombs, op, wdirs, wlist, phase, walked>>
    BY <1>3, Zenon DEF WalkAdd, addIfAbsent
  <2>2. whold # NotHeld /\ whold' = NotHeld /\ whold.size # Rot
    BY <1>3, Zenon DEF WalkAdd
  <2>3. /\ m[k] # Absent => m'[k] # Absent
        /\ whold.key = k /\ k \notin tombs => m'[k] # Absent
    BY <1>3, <1>a, <1>c, <1>d, <2>2 DEF WalkAdd, addIfAbsent
  <2> QED
    BY <2>1, <2>2, <2>3, <1>b, <1>c, <1>e, Zenon
       DEF KeyInv, Reached, SeenAccounted, WalkGuarded, AheadOfWalk
<1>4. CASE WalkDiscard
  <2>1. /\ UNCHANGED <<m, cold, tombs, op, wdirs, wlist, phase, walked>>
        /\ whold # NotHeld /\ whold' = NotHeld
    BY <1>4, Zenon DEF WalkDiscard
  <2>2. /\ k # whold.key => files'[k] = files[k] /\ (k \in failed' <=> k \in failed)
        /\ k = whold.key => files'[k] = Absent \/ k \in failed'
    BY <1>4, <1>a, <1>c, RemoveEffect DEF WalkDiscard
  <2> QED
    BY <2>1, <2>2, <1>b, <1>c, <1>e, Zenon
       DEF KeyInv, Reached, SeenAccounted, WalkGuarded, AheadOfWalk
<1>5. CASE WalkFinish
  <2>1. /\ UNCHANGED <<files, failed, m, op, whold, phase, walked>>
        /\ whold = NotHeld /\ cold' = FALSE /\ tombs' = {}
        /\ phase = "up" => wdirs = {} /\ wlist = {}
    BY <1>5 DEF WalkFinish, finishWalk
  <2> QED
    BY <2>1, <1>b, <1>c, <1>e, Zenon
       DEF KeyInv, Reached, SeenAccounted, WalkGuarded, AheadOfWalk
<1>6. CASE FlushSnapshot \/ SaveWrite
  <2>1. UNCHANGED <<files, failed, m, cold, tombs, op, wdirs, wlist, whold, phase, walked>>
    BY <1>6, Zenon DEF FlushSnapshot, SaveWrite
  <2> QED
    BY <2>1, <1>b, <1>e, Zenon
       DEF KeyInv, Reached, SeenAccounted, WalkGuarded, AheadOfWalk
<1>7. CASE StartLoad
  <2>1. /\ UNCHANGED <<files, failed, op, whold>> /\ phase = "down"
        /\ cold' = FALSE /\ walked' = FALSE /\ tombs' = {}
    BY <1>7, Zenon DEF StartLoad
  <2> QED
    BY <2>1, <1>b, <1>c, <1>e, <1>f, Zenon
       DEF KeyInv, Reached, SeenAccounted, WalkGuarded
<1>8. CASE StartWalk
  <2>1. /\ UNCHANGED <<files, op, whold>> /\ phase = "down"
        /\ cold' = TRUE /\ tombs' = {} /\ wdirs' = Dirs
    BY <1>8, Zenon DEF StartWalk
  <2>2. DirOf[k] \in Dirs
    BY DirOfAssumption
  <2> QED
    BY <2>1, <2>2, <1>b, <1>c, <1>e, <1>f, Zenon
       DEF KeyInv, Reached, SeenAccounted, WalkGuarded, AheadOfWalk
<1>9. CASE CloseBegin
  <2>1. /\ UNCHANGED <<files, failed, m, cold, tombs, op, wdirs, wlist, whold, walked>>
        /\ phase' # "up"
    BY <1>9, Zenon DEF CloseBegin
  <2> QED
    BY <2>1, <1>b, <1>e, Zenon DEF KeyInv, Reached, SeenAccounted, WalkGuarded
<1>10. ASSUME NEW j \in Keys, HeaderRots(j)
       PROVE  KeyInv(k)'
  <2>1. UNCHANGED <<failed, m, cold, tombs, op, wdirs, wlist, whold, phase, walked>>
    BY <1>10, Zenon DEF HeaderRots
  <2>2. files'[k] = Absent <=> files[k] = Absent
    BY <1>10, <1>a, <1>d DEF HeaderRots
  <2> QED
    BY <2>1, <2>2, <1>b, <1>e, Zenon
       DEF KeyInv, Reached, SeenAccounted, WalkGuarded, AheadOfWalk
<1>11. CASE ProcessGone
  BY <1>11, GoneKeepsKeyInv
<1>12. CASE (SaveRename \/ SaveFail \/ CloseSave \/ Crash) /\ ~ProcessGone
  <2>1. /\ UNCHANGED <<files, failed, m, cold, tombs, op, wdirs, wlist, whold, walked>>
        /\ phase' # "up" \/ phase' = phase
    BY <1>12, Zenon DEF SaveRename, SaveFail, SaveEnds, CloseSave, Crash
  <2> QED
    BY <2>1, <1>b, <1>e, Zenon
       DEF KeyInv, Reached, SeenAccounted, WalkGuarded, AheadOfWalk
<1> QED
  BY <1>1, <1>2, <1>3, <1>4, <1>5, <1>6, <1>7, <1>8, <1>9, <1>10, <1>11, <1>12
     DEF Walk, Save

\* Every step keeps the walk and a process that is down quiet.
LEMMA NextKeepsQuiet == ASSUME TypeOK, Quiet, Next PROVE Quiet'
<1> USE DEF vol, pindex, index, walker, saver, life
<1>1. ASSUME NEW p \in Procs, Put(p) \/ Get(p) \/ Remove(p)
      PROVE  Quiet'
  <2>1. UNCHANGED <<cold, whold, phase>>
    BY <1>1, Zenon DEF Put, Get, Remove, PutBegin, PutAbort, PutRename, PutSet,
                GetOpen, GetObserve, GetDiscard, DeleteBegin, EvictBegin, Unlink,
                PrefixBegin, PrefixRemove, PrefixUnlink
  <2>2. CanStart(p) \/ op[p].pc \in {"write", "set", "observe", "discard", "unlink",
                                     "prefix", "prefixUnlink"}
    BY <1>1, Zenon DEF Put, Get, Remove, PutBegin, PutAbort, PutRename, PutSet,
                GetOpen, GetObserve, GetDiscard, DeleteBegin, EvictBegin, Unlink,
                PrefixBegin, PrefixRemove, PrefixUnlink
  <2>3. phase # "down"
    BY <2>2 DEF Quiet, CanStart
  <2> QED
    BY <2>1, <2>3, Zenon DEF Quiet
<1>2. CASE ProcessGone
  <2>1. \A q \in Procs : op'[q].pc = "idle"
    BY <1>2 DEF ProcessGone, Idle, Call
  <2> QED
    BY <1>2, <2>1, Zenon DEF Quiet, ProcessGone
<1>3. CASE WalkReaddir \/ WalkOpen
  <2>1. cold /\ cold' = cold /\ phase = "up" /\ phase' = phase
    BY <1>3, Zenon DEF WalkReaddir, WalkOpen
  <2> QED
    BY <2>1, Zenon DEF Quiet
<1>4. CASE WalkAdd \/ WalkDiscard \/ WalkFinish
  <2>1. whold' = NotHeld /\ UNCHANGED <<op, phase>>
    BY <1>4, Zenon DEF WalkAdd, WalkDiscard, WalkFinish, finishWalk
  <2> QED
    BY <2>1, Zenon DEF Quiet
<1>5. CASE FlushSnapshot \/ SaveWrite \/ \E k \in Keys : HeaderRots(k)
  <2>1. UNCHANGED <<cold, op, whold, phase>>
    BY <1>5, Zenon DEF FlushSnapshot, SaveWrite, HeaderRots
  <2> QED
    BY <2>1, Zenon DEF Quiet
<1>6. CASE StartLoad \/ StartWalk
  <2>1. UNCHANGED <<op, whold>> /\ phase' # "down" /\ phase = "down"
    BY <1>6, Zenon DEF StartLoad, StartWalk
  <2> QED
    BY <2>1, Zenon DEF Quiet
<1>7. CASE CloseBegin
  <2>1. UNCHANGED <<cold, op, whold>> /\ phase' # "down"
    BY <1>7, Zenon DEF CloseBegin
  <2> QED
    BY <2>1, Zenon DEF Quiet
<1>8. CASE (SaveRename \/ SaveFail \/ CloseSave \/ Crash) /\ ~ProcessGone
  <2>1. /\ UNCHANGED <<cold, op, whold>>
        /\ phase' = phase \/ phase' = "saving"
    BY <1>8, Zenon DEF SaveRename, SaveFail, SaveEnds, CloseSave, Crash
  <2> QED
    BY <2>1, Zenon DEF Quiet
<1> QED
  BY <1>1, <1>2, <1>3, <1>4, <1>5, <1>6, <1>7, <1>8 DEF Next, Walk, Save

\* Every reachable state satisfies the inductive invariant.
LEMMA IInvInvariant == Spec => []IInv
<1>1. Init => IInv
  <2> SUFFICES ASSUME Init PROVE IInv
    OBVIOUS
  <2>1. TypeOK
    BY InitTyped
  <2>2. Quiet
    BY Zenon DEF Init, Quiet, Idle, Call
  <2>3. ASSUME NEW k \in Keys PROVE KeyInv(k)
    <3>1. ~InFlight(k) /\ ~Unlinked(k) /\ ~Listed(k)
      BY NothingInFlight DEF Init, Idle, Call
    <3>2. phase = "down" /\ tombs = {} /\ whold.key # k
      BY NoKeyAssumption DEF Init, NotHeld
    <3> QED
      BY <3>1, <3>2, Zenon DEF KeyInv, Reached, SeenAccounted, WalkGuarded
  <2> QED
    BY <2>1, <2>2, <2>3 DEF IInv
<1>2. IInv /\ [Next]_vars => IInv'
  <2> SUFFICES ASSUME IInv, [Next]_vars PROVE IInv'
    OBVIOUS
  <2>1. CASE UNCHANGED vars
    <3>1. TypeOK'
      BY <2>1, SameTyped DEF IInv, TypeOK, vars, vol, index, walker, pindex, saver, life
    <3>2. Quiet'
      BY <2>1, Zenon DEF IInv, Quiet, vars
    <3>3. ASSUME NEW k \in Keys PROVE KeyInv(k)'
      BY <2>1, SameCalls, Zenon DEF IInv, vars, KeyInv, Reached, SeenAccounted, WalkGuarded,
                             AheadOfWalk
    <3> QED
      BY <3>1, <3>2, <3>3 DEF IInv
  <2>2. CASE Next
    <3>1. TypeOK'
      BY <2>2, CallsTyped, BackgroundTyped DEF Next, IInv
    <3>2. Quiet'
      BY <2>2, NextKeepsQuiet DEF IInv
    <3>3. \A k \in Keys : KeyInv(k)'
      BY <2>2, CallsKeepKeyInv, BackgroundKeepsKeyInv DEF Next
    <3> QED
      BY <3>1, <3>2, <3>3 DEF IInv
  <2> QED
    BY <2>1, <2>2
<1> QED
  BY <1>1, <1>2, PTL DEF Spec

\* No object on the volume is out of the garbage collector's reach in a life
\* of the process that began with a walk, whatever calls, crashes, failed
\* unlinks, interrupted walks and restarts came before.
THEOREM OrphanFree == Spec => []NoOrphan
<1>1. IInv => NoOrphan
  BY DEF IInv, KeyInv, Reached, NoOrphan
<1> QED
  BY <1>1, IInvInvariant, PTL

\* The walk never records an object whose file has been removed: the
\* tombstones cover every remover, in every interleaving.
THEOREM WalkNeverResurrects == Spec => WalkInsertHasFile
<1> DEFINE Insert ==
      \A k \in Keys :
          /\ whold.key = k /\ whold' = NotHeld
          /\ m[k] = Absent /\ m'[k] # Absent
          => files[k] # Absent
<1>1. ASSUME IInv, Next PROVE Insert
  <2> SUFFICES ASSUME NEW k \in Keys, whold.key = k, whold' = NotHeld,
                      m[k] = Absent, m'[k] # Absent
               PROVE  files[k] # Absent
    OBVIOUS
  <2> USE NoKeyAssumption
  <2> USE DEF vol, pindex, index, walker, saver, life
  <2>1. whold # NotHeld
    BY DEF NotHeld
  <2>2. ASSUME NEW p \in Procs, Put(p) \/ Get(p) \/ Remove(p) PROVE FALSE
    <3>1. whold' = whold
      BY <2>2, Zenon DEF Put, Get, Remove, PutBegin, PutAbort, PutRename, PutSet, GetOpen,
                  GetObserve, GetDiscard, DeleteBegin, EvictBegin, Unlink,
                  PrefixBegin, PrefixRemove, PrefixUnlink
    <3> QED
      BY <2>1, <3>1
  <2>3. CASE WalkAdd
    BY <1>1, <2>3 DEF WalkAdd, addIfAbsent, IInv, KeyInv, WalkGuarded
  <2>4. CASE WalkReaddir \/ WalkOpen \/ WalkFinish \/ FlushSnapshot \/ SaveWrite
              \/ StartWalk \/ CloseBegin
    BY <2>1, <2>4, Zenon DEF WalkReaddir, WalkOpen, WalkFinish, finishWalk,
                      FlushSnapshot, SaveWrite,
                      StartWalk, CloseBegin
  <2>5. CASE WalkDiscard \/ \E j \in Keys : HeaderRots(j)
    BY <2>5, Zenon DEF WalkDiscard, HeaderRots
  <2>6. CASE StartLoad
    BY <2>1, <2>6, Zenon DEF StartLoad
  <2>7. CASE ProcessGone
    BY <2>7 DEF ProcessGone, NoEntries
  <2>8. CASE (SaveRename \/ SaveFail \/ CloseSave \/ Crash) /\ ~ProcessGone
    BY <2>1, <2>8, Zenon DEF SaveRename, SaveFail, SaveEnds, CloseSave, Crash
  <2> QED
    BY <1>1, <2>2, <2>3, <2>4, <2>5, <2>6, <2>7, <2>8 DEF Next, Walk, Save
<1>2. IInv /\ [Next]_vars => [Insert]_vars
  BY <1>1
<1> QED
  BY <1>2, IInvInvariant, PTL DEF Spec, WalkInsertHasFile

-----------------------------------------------------------------------------
(* The .index file.  What it is trusted for depends on how the process     *)
(* before it ended: Close writes it when every call has returned, and the  *)
(* saves of the flush loop before that are overwritten.                    *)

\* The process ends by a Close that the server has drained for and that can
\* write the index.
EndsInOrder == Faults \cap {"crash", "undrained", "save"} = {}

\* Nothing but the saving goes on once Close has begun, and a process that
\* does not save the index has none to believe.
Orderly ==
    /\ phase \in {"closing", "saving"} => \A q \in Procs : op[q].pc = "idle"
    /\ phase = "saving" => ~cold
    /\ phase = "down" => sv = "idle"
    /\ ~Flush => ~fresh /\ sv = "idle"

\* Every file is unlinked and read as it should be, and the walk is let
\* finish; headers may rot, saves of the flush loop fail, and the .index
\* file be refused.
FindsAll == EndsInOrder /\ Faults \cap {"interrupt", "unlink", "read"} = {}

\* The index that is loaded, the one that is saved and the one that was, none
\* misses a file.
Complete(k) ==
    files[k] # Absent =>
        /\ phase = "up" /\ ~walked => m[k] # Absent \/ InFlight(k)
        /\ phase \in {"closing", "saving"} => m[k] # Absent
        /\ phase = "saving" => recs[k] # Absent
        /\ phase = "down" /\ fresh => persist[k] # Absent

CompleteInv ==
    /\ Orderly
    /\ failed = {}
    /\ phase \in {"closing", "saving"} \/ (phase = "up" /\ ~walked) => ~cold
    /\ \A k \in Keys : Complete(k)

\* One call at a time, and no header that becomes unreadable.
OneByOne ==
    /\ EndsInOrder /\ "rot" \notin Faults
    /\ \A p, q \in Procs : p = q

Recorded(k) == \E p \in Procs : Recording(p, k)

\* Every size that the index has, or is about to take, is that of the file;
\* a key that is being unlinked is not in the index and cannot get there.
Exact(k) ==
    /\ files[k] # Rot
    /\ m[k] # Absent => files[k] = m[k] \/ Recorded(k)
    /\ \A p \in Procs :
          /\ Recording(p, k) => files[k] = op[p].size
          /\ op[p].pc = "observe" /\ op[p].key = k => files[k] = op[p].size
          /\ Unlinking(p, k) => m[k] = Absent /\ (cold => k \in tombs)
    /\ whold.key = k =>
          /\ whold.size # Rot
          /\ m[k] = Absent /\ k \notin tombs => files[k] = whold.size \/ Recorded(k)
    /\ phase = "saving" => recs[k] = m[k]
    /\ phase = "down" => m[k] = Absent
    /\ phase = "down" /\ fresh /\ persist[k] # Absent => files[k] = persist[k]

ExactInv == Orderly /\ \A k \in Keys : Exact(k)

-----------------------------------------------------------------------------

\* Calls run while the process is up, when Close waits for the server to
\* drain.
LEMMA CallsRunUp ==
    ASSUME EndsInOrder, IInv, Orderly, NEW p \in Procs, Put(p) \/ Get(p) \/ Remove(p)
    PROVE  phase = "up"
<1>1. CanStart(p) \/ op[p].pc \in {"write", "set", "observe", "discard", "unlink",
                                   "prefix", "prefixUnlink"}
  BY Zenon DEF Put, Get, Remove, PutBegin, PutAbort, PutRename, PutSet,
               GetOpen, GetObserve, GetDiscard, DeleteBegin, EvictBegin, Unlink,
               PrefixBegin, PrefixRemove, PrefixUnlink
<1>2. "undrained" \notin Faults
  BY DEF EndsInOrder
<1>3. phase \in {"down", "up", "closing", "saving"}
  BY DEF IInv, TypeOK, LifeOK
<1> QED
  BY <1>1, <1>2, <1>3, Zenon DEF IInv, Quiet, Orderly, CanStart

\* A process that is gone is in order.
LEMMA GoneOrderly ==
    ASSUME ProcessGone, ~Flush => ~fresh'
    PROVE  Orderly'
  BY DEF ProcessGone, Orderly

\* Every step keeps the end of the process in order.
LEMMA NextKeepsOrderly ==
    ASSUME EndsInOrder, IInv, Orderly, Next
    PROVE  Orderly'
<1> USE DEF vol, pindex, index, walker, saver, life
<1>1. ASSUME NEW p \in Procs, Put(p) \/ Get(p) \/ Remove(p) PROVE Orderly'
  <2>1. phase = "up" /\ UNCHANGED <<phase, sv>> /\ (fresh' => fresh)
    BY <1>1, CallsRunUp, CallsLeave DEF IInv
  <2> QED
    BY <2>1, Zenon DEF Orderly
<1>2. CASE WalkReaddir \/ WalkOpen \/ WalkAdd
  <2>1. UNCHANGED <<phase, sv, fresh, cold, op>>
    BY <1>2, Zenon DEF WalkReaddir, WalkOpen, WalkAdd, addIfAbsent
  <2> QED
    BY <2>1, Zenon DEF Orderly
<1>3. CASE WalkDiscard
  <2>1. UNCHANGED <<phase, sv, cold, op>> /\ (fresh' => fresh)
    BY <1>3 DEF WalkDiscard, RemoveFile, RemoveFileFails, DirChanged, DirUnchanged
  <2> QED
    BY <2>1, Zenon DEF Orderly
<1>4. CASE WalkFinish
  <2>1. UNCHANGED <<phase, sv, fresh, op>> /\ cold' = FALSE
    BY <1>4, Zenon DEF WalkFinish, finishWalk
  <2> QED
    BY <2>1, Zenon DEF Orderly
<1>5. CASE FlushSnapshot
  <2>1. UNCHANGED <<phase, fresh, cold, op>> /\ Flush /\ phase \in {"up", "closing"}
    BY <1>5, Zenon DEF FlushSnapshot
  <2> QED
    BY <2>1, Zenon DEF Orderly
<1>6. CASE SaveWrite
  <2>1. UNCHANGED <<phase, fresh, cold, op>> /\ sv # "idle"
    BY <1>6, Zenon DEF SaveWrite
  <2> QED
    BY <2>1, Zenon DEF Orderly
<1>7. CASE (SaveRename \/ SaveFail \/ CloseSave \/ Crash) /\ ProcessGone
  <2>1. ~Flush => ~fresh'
    BY <1>7, Zenon DEF Orderly, SaveRename, SaveFail, CloseSave, Crash
  <2> QED
    BY <1>7, <2>1, GoneOrderly
<1>8. CASE (SaveRename \/ SaveFail) /\ ~ProcessGone
  <2>1. sv # "idle" /\ sv' = "idle" /\ UNCHANGED <<phase, cold, op>>
    BY <1>8, Zenon DEF SaveRename, SaveFail, SaveEnds
  <2> QED
    BY <2>1, Zenon DEF Orderly
<1>9. CASE CloseSave /\ ~ProcessGone
  <2>1. /\ phase = "closing" /\ ~cold /\ Flush /\ phase' = "saving"
        /\ UNCHANGED <<fresh, cold, op>>
    BY <1>9, Zenon DEF CloseSave
  <2> QED
    BY <2>1, Zenon DEF Orderly
<1>10. CASE StartLoad \/ StartWalk
  <2>1. phase' = "up" /\ UNCHANGED <<sv, fresh>>
    BY <1>10, Zenon DEF StartLoad, StartWalk
  <2> QED
    BY <2>1, Zenon DEF Orderly
<1>11. CASE CloseBegin
  <2>1. /\ phase' = "closing" /\ UNCHANGED <<sv, fresh, op>>
        /\ (\E p \in Procs : op[p].pc # "idle") => "undrained" \in Faults
    BY <1>11, Zenon DEF CloseBegin
  <2>2. "undrained" \notin Faults
    BY DEF EndsInOrder
  <2> QED
    BY <2>1, <2>2, Zenon DEF Orderly
<1>12. ASSUME NEW k \in Keys, HeaderRots(k) PROVE Orderly'
  <2>1. UNCHANGED <<phase, sv, fresh, cold, op>>
    BY <1>12, Zenon DEF HeaderRots
  <2> QED
    BY <2>1, Zenon DEF Orderly
<1>13. ~Crash
  BY DEF EndsInOrder, Crash
<1> QED
  BY <1>1, <1>2, <1>3, <1>4, <1>5, <1>6, <1>7, <1>8, <1>9, <1>10, <1>11, <1>12, <1>13
     DEF Next, Walk, Save

\* Every file the volume is asked to unlink or to read obeys.
LEMMA NextFailsNothing ==
    ASSUME FindsAll, TypeOK, failed = {}, Next
    PROVE  failed' = {}
<1> USE DEF vol, pindex, index, walker, saver, life
<1>a. "unlink" \notin Faults /\ "read" \notin Faults
  BY DEF FindsAll
<1>b. \A k : ~RemoveFileFails(k)
  BY <1>a DEF RemoveFileFails
<1>c. \A k : RemoveFile(k) => failed' = {}
  BY DEF RemoveFile
<1>1. ASSUME NEW p \in Procs, Put(p) PROVE failed' = {}
  BY <1>1 DEF Put, PutBegin, PutAbort, PutRename, PutSet
<1>2. ASSUME NEW p \in Procs, Get(p) PROVE failed' = {}
  BY <1>2, Zenon DEF Get, GetOpen, GetObserve, GetDiscard
<1>3. ASSUME NEW p \in Procs, Remove(p) PROVE failed' = {}
  BY <1>3, <1>b, <1>c, Zenon DEF Remove, DeleteBegin, EvictBegin, Unlink, PrefixBegin, PrefixRemove,
                                 PrefixUnlink
<1>4. CASE WalkReaddir \/ WalkOpen
  BY <1>4, <1>a, Zenon DEF WalkReaddir, WalkOpen
<1>5. CASE WalkAdd \/ WalkDiscard \/ WalkFinish
  BY <1>5, <1>b, <1>c, Zenon DEF WalkAdd, WalkDiscard, WalkFinish
<1>6. CASE FlushSnapshot \/ Save \/ StartLoad \/ StartWalk
  BY <1>6, Zenon DEF FlushSnapshot, Save, SaveWrite, SaveRename, SaveFail, StartLoad, StartWalk
<1>7. CASE CloseBegin \/ CloseSave \/ Crash \/ \E k \in Keys : HeaderRots(k)
  BY <1>7, Zenon DEF CloseBegin, CloseSave, Crash, HeaderRots
<1> QED
  BY <1>1, <1>2, <1>3, <1>4, <1>5, <1>6, <1>7 DEF Next, Walk

\* When Close begins every file is in the index.
LEMMA ClosesComplete ==
    ASSUME FindsAll, IInv, CompleteInv, CloseBegin, NEW k \in Keys, files[k] # Absent
    PROVE  m[k] # Absent /\ ~cold
<1>1. "interrupt" \notin Faults /\ "undrained" \notin Faults
  BY DEF FindsAll, EndsInOrder
<1>2. ~cold /\ phase = "up" /\ \A q \in Procs : op[q].pc = "idle"
  BY <1>1, Zenon DEF CloseBegin
<1>3. ~InFlight(k)
  BY <1>2, NothingInFlight
<1>4. k \notin failed
  BY DEF CompleteInv
<1>5. CASE walked
  BY <1>2, <1>3, <1>4, <1>5, Zenon DEF IInv, KeyInv, Reached, AheadOfWalk
<1>6. CASE ~walked
  BY <1>2, <1>3, <1>6, Zenon DEF CompleteInv, Complete
<1> QED
  BY <1>2, <1>5, <1>6

\* Every step keeps the index, and what is saved of it, complete.
LEMMA NextKeepsComplete ==
    ASSUME FindsAll, IInv, CompleteInv, Next
    PROVE  CompleteInv'
<1> USE DEF vol, pindex, index, walker, saver, life
<1>a. EndsInOrder /\ TypeOK /\ Orderly /\ failed = {}
  BY DEF FindsAll, IInv, CompleteInv
<1>b. Orderly' /\ failed' = {}
  BY <1>a, NextKeepsOrderly, NextFailsNothing
<1> DEFINE Warm == phase \in {"closing", "saving"} \/ (phase = "up" /\ ~walked) => ~cold
<1>c. Warm
  BY DEF CompleteInv
<1>d. SUFFICES Warm' /\ \A k \in Keys : Complete(k)'
  BY <1>b DEF CompleteInv
<1>e. \A k \in Keys : Complete(k)
  BY DEF CompleteInv
<1>f. \A k : op' = op => (InFlight(k)' <=> InFlight(k))
  BY SameCalls
<1> DEFINE Good == Warm' /\ \A k \in Keys : Complete(k)'
<1>1. ASSUME NEW p \in Procs, Put(p) \/ Get(p) \/ Remove(p) PROVE Good
  <2>1. /\ phase = "up" /\ UNCHANGED <<cold, phase, walked>>
        /\ \A q \in Procs \ {p} : op'[q] = op[q]
    BY <1>1, <1>a, CallsRunUp, CallsLeave, Zenon
  <2>2. ASSUME NEW k \in Keys PROVE Complete(k)'
    <3>1. Accounts(p, k)
      BY <1>1, CallsEffect
    <3>2. InFlightElsewhere(p, k)' <=> InFlightElsewhere(p, k)
      BY <2>1, OthersStay, Zenon
    <3>3. InFlight(k) => Recording(p, k) \/ Unlinking(p, k) \/ InFlightElsewhere(p, k)
      BY Zenon DEF InFlight, InFlightElsewhere
    <3>4. Recording(p, k)' \/ Unlinking(p, k)' \/ InFlightElsewhere(p, k)' => InFlight(k)'
      BY Zenon DEF InFlight, InFlightElsewhere
    <3>5. k \notin failed /\ k \notin failed'
      BY <1>a, <1>b
    <3> QED
      BY <1>e, <2>1, <3>1, <3>2, <3>3, <3>4, <3>5, Zenon DEF Complete, Accounts
  <2> QED
    BY <1>c, <2>1, <2>2, Zenon
<1>2. CASE WalkReaddir \/ WalkOpen \/ WalkAdd \/ WalkDiscard \/ WalkFinish
  <2>1. cold /\ phase' = phase /\ walked' = walked
    BY <1>2, Zenon DEF WalkReaddir, WalkOpen, WalkAdd, WalkDiscard, WalkFinish, finishWalk, IInv, Quiet
  <2>2. phase \notin {"closing", "saving", "down"} /\ walked
    <3>1. phase # "down"
      BY <1>2, Zenon DEF WalkReaddir, WalkOpen, WalkAdd, WalkDiscard, WalkFinish, IInv, Quiet
    <3> QED
      BY <1>a, <1>c, <2>1, <3>1, Zenon DEF TypeOK, LifeOK
  <2> QED
    BY <2>1, <2>2, Zenon DEF Complete
<1>3. CASE FlushSnapshot \/ SaveWrite
  <2>1. UNCHANGED <<files, m, cold, op, persist, fresh, phase, walked>> /\ (phase = "saving" => recs' = recs)
    BY <1>3, Zenon DEF FlushSnapshot, SaveWrite
  <2> QED
    BY <1>c, <1>e, <1>f, <2>1, Zenon DEF Complete
<1>4. CASE SaveRename /\ phase = "saving"
  <2>1. files' = files /\ persist' = recs /\ phase' = "down"
    BY <1>4, Zenon DEF SaveRename, SaveEnds, ProcessGone
  <2> QED
    BY <1>4, <1>e, <2>1, Zenon DEF Complete
<1>5. CASE (SaveRename \/ SaveFail) /\ phase # "saving"
  <2>1. UNCHANGED <<files, m, cold, op, phase, walked>> /\ phase # "down"
    BY <1>5, <1>a, Zenon DEF SaveRename, SaveFail, SaveEnds, Orderly
  <2> QED
    BY <1>5, <1>c, <1>e, <1>f, <2>1, Zenon DEF Complete
<1>6. ~(SaveFail /\ phase = "saving") /\ ~Crash
  BY DEF FindsAll, EndsInOrder, SaveFail, Crash
<1>7. CASE StartLoad
  <2>1. /\ phase = "down" /\ phase' = "up" /\ fresh /\ m' = persist /\ files' = files
        /\ walked' = FALSE /\ cold' = FALSE
    BY <1>7, Zenon DEF StartLoad
  <2> QED
    BY <1>e, <2>1, Zenon DEF Complete
<1>8. CASE StartWalk
  <2>1. phase' = "up" /\ walked'
    BY <1>8, Zenon DEF StartWalk
  <2> QED
    BY <2>1, Zenon DEF Complete
<1>9. CASE CloseBegin
  <2>1. phase' = "closing" /\ UNCHANGED <<files, m, cold>>
    BY <1>9, Zenon DEF CloseBegin
  <2>2. \A k \in Keys : files[k] # Absent => m[k] # Absent
    BY <1>9, ClosesComplete
  <2>3. ~cold
    BY <1>9 DEF CloseBegin, FindsAll
  <2> QED
    BY <2>1, <2>2, <2>3, Zenon DEF Complete
<1>10. CASE CloseSave /\ Flush
  <2>1. phase = "closing" /\ ~cold /\ phase' = "saving" /\ UNCHANGED <<files, m, cold>> /\ recs' = m
    BY <1>10, Zenon DEF CloseSave
  <2> QED
    BY <1>e, <2>1, Zenon DEF Complete
<1>11. CASE CloseSave /\ ~Flush
  <2>1. phase' = "down"
    BY <1>11, Zenon DEF CloseSave, ProcessGone
  <2>2. ~fresh'
    BY <1>11, <1>b, Zenon DEF Orderly
  <2> QED
    BY <2>1, <2>2, Zenon DEF Complete
<1>12. ASSUME NEW j \in Keys, HeaderRots(j) PROVE Good
  <2>1. UNCHANGED <<m, cold, op, persist, fresh, recs, phase, walked>>
    BY <1>12, Zenon DEF HeaderRots
  <2>2. \A k \in Keys : files'[k] # Absent => files[k] # Absent
    BY <1>12, <1>a, SizesAssumption DEF HeaderRots, TypeOK, VolumeOK, Absent
  <2> QED
    BY <1>c, <1>e, <1>f, <2>1, <2>2, Zenon DEF Complete
<1> QED
  BY <1>1, <1>2, <1>3, <1>4, <1>5, <1>6, <1>7, <1>8, <1>9, <1>10, <1>11, <1>12, Zenon DEF Next, Walk, Save

\* A start that believes the .index file misses no file, however many calls
\* ran in the lives before it, if these ended in order, every unlink and read
\* succeeded and no walk was cut short (disk.go New, Close; index.go load).
THEOREM TrustIsJustified == ASSUME FindsAll PROVE Spec => []TrustedIndexComplete
<1>1. Init => CompleteInv
  <2> SUFFICES ASSUME Init PROVE CompleteInv
    OBVIOUS
  <2>1. phase = "down" /\ ~fresh /\ sv = "idle" /\ failed = {}
    BY DEF Init
  <2> QED
    BY <2>1, Zenon DEF CompleteInv, Orderly, Complete
<1>2. IInv /\ CompleteInv /\ [Next]_vars => CompleteInv'
  <2> SUFFICES ASSUME IInv, CompleteInv, [Next]_vars PROVE CompleteInv'
    OBVIOUS
  <2>1. CASE UNCHANGED vars
    <3>1. \A k : InFlight(k)' <=> InFlight(k)
      BY <2>1, SameCalls DEF vars
    <3> QED
      BY <2>1, <3>1, Zenon DEF vars, CompleteInv, Orderly, Complete
  <2> QED
    BY <2>1, NextKeepsComplete
<1>3. CompleteInv => TrustedIndexComplete
  BY Zenon DEF CompleteInv, Complete, TrustedIndexComplete
<1> QED
  BY <1>1, <1>2, <1>3, IInvInvariant, PTL DEF Spec

-----------------------------------------------------------------------------
(* One caller.  Its own state then says all there is about calls in flight. *)

\* Exact(k) while the process is up and p is the only caller.
ExactAlone(p, k) ==
    /\ files[k] # Rot
    /\ m[k] # Absent => files[k] = m[k] \/ Recording(p, k)
    /\ Recording(p, k) => files[k] = op[p].size
    /\ op[p].pc = "observe" /\ op[p].key = k => files[k] = op[p].size
    /\ Unlinking(p, k) => m[k] = Absent /\ (cold => k \in tombs)
    /\ whold.key = k =>
          /\ whold.size # Rot
          /\ m[k] = Absent /\ k \notin tombs => files[k] = whold.size \/ Recording(p, k)

\* The two say the same.
LEMMA AloneIsExact ==
    ASSUME NEW p \in Procs, \A q \in Procs : q = p, phase = "up", NEW k
    PROVE  Exact(k) <=> ExactAlone(p, k)
<1>1. Recorded(k) <=> Recording(p, k)
  BY Zenon DEF Recorded
<1> QED
  BY <1>1, Zenon DEF Exact, ExactAlone

\* They say the same after the step, too.
LEMMA AloneIsExactNext ==
    ASSUME NEW p \in Procs, \A q \in Procs : q = p, phase' = "up", NEW k
    PROVE  Exact(k)' <=> ExactAlone(p, k)'
<1>1. Recorded(k)' <=> Recording(p, k)'
  BY Zenon DEF Recorded
<1> QED
  BY <1>1, Zenon DEF Exact, ExactAlone

\* A caller that starts, or gives up, and is about no file yet.
LEMMA AloneStarts ==
    ASSUME NEW p, NEW k, ExactAlone(p, k), UNCHANGED <<files, m, tombs, cold, whold>>,
           op[p].pc \in {"idle", "write"}, op'[p].pc \in {"idle", "write", "prefix"}
    PROVE  ExactAlone(p, k)'
  BY Zenon DEF ExactAlone, Recording, Unlinking

\* A key leaves the index before its file is unlinked, and leaves a tombstone
\* for the walk.
LEMMA AloneForgets ==
    ASSUME NEW p, NEW k \in Keys, ExactAlone(p, k), NEW ks, removeLocked(ks),
           UNCHANGED <<files, cold, whold>>, whold.key = k => cold,
           op[p].pc \in {"idle", "discard", "prefix"},
           op'[p].pc \in {"idle", "prefix", "unlink", "prefixUnlink"},
           op'[p].pc = "unlink" => op'[p].todo = ks,
           op'[p].pc = "prefixUnlink" => op'[p].key \in ks
    PROVE  ExactAlone(p, k)'
<1>1. /\ k \in tombs => k \in tombs'
      /\ k \in tombs' => k \in tombs \/ k \in ks
      /\ cold /\ k \in ks => k \in tombs'
      /\ k \notin ks => m'[k] = m[k]
  BY ForgetEffect, Zenon
<1>2. k \in ks => m'[k] = Absent
  BY DEF removeLocked
<1>3. ~Recording(p, k) /\ ~Recording(p, k)'
  BY Zenon DEF Recording
<1>4. Unlinking(p, k)' => k \in ks
  BY Zenon DEF Unlinking
<1> QED
  BY <1>1, <1>2, <1>3, <1>4, Zenon DEF ExactAlone

\* The file that is unlinked is not in the index, and the walk cannot add it.
LEMMA AloneUnlinks ==
    ASSUME NEW p, NEW k \in Keys, ExactAlone(p, k), NEW j \in Keys, VolumeOK,
           RemoveFile(j) \/ RemoveFileFails(j), Unlinking(p, j),
           UNCHANGED <<m, tombs, cold, whold>>, whold.key = k => cold,
           op'[p].pc \in {"idle", "prefix", "unlink"},
           Unlinking(p, k)' => Unlinking(p, k)
    PROVE  ExactAlone(p, k)'
<1>1. files'[k] = files[k] \/ (k = j /\ files'[k] = Absent)
  BY Zenon DEF RemoveFile, RemoveFileFails, VolumeOK
<1>2. ~Recording(p, k) /\ ~Recording(p, k)'
  BY Zenon DEF Recording, Unlinking
<1>3. Absent # Rot
  BY DEF Absent, Rot
<1>4. CASE files'[k] = files[k]
  BY <1>2, <1>4, Zenon DEF ExactAlone
<1>5. CASE k = j /\ files'[k] = Absent
  BY <1>2, <1>3, <1>5, Zenon DEF ExactAlone
<1> QED
  BY <1>1, <1>4, <1>5, Zenon

\* Every step of the one caller keeps the index exact.
LEMMA CallsKeepExact ==
    ASSUME NEW p \in Procs, IInv, Put(p) \/ Get(p) \/ Remove(p),
           NEW k \in Keys, ExactAlone(p, k)
    PROVE  ExactAlone(p, k)'
<1> USE DEF vol, pindex, index, walker, saver, life
<1>a. /\ op \in [Procs -> Ops] /\ op[p].todo \subseteq Keys
      /\ files \in [Keys -> Sizes \cup {Absent, Rot}]
      /\ m \in [Keys -> Sizes \cup {Absent}] /\ VolumeOK
  BY DEF IInv, TypeOK, CallsOK, VolumeOK, IndexOK, Ops
<1>b. /\ op[p].pc \in {"write", "set", "observe"} =>
            op[p].key \in Keys /\ op[p].size # Absent /\ op[p].size # Rot
      /\ op[p].pc = "prefixUnlink" => op[p].key \in Keys
  BY SizesAssumption DEF IInv, TypeOK, CallsOK, Absent, Rot
<1>c. UNCHANGED <<cold, whold>>
  BY CallsLeave, Zenon DEF IInv
<1>d. whold.key = k => cold
  <2>1. NotHeld.key = NoKey
    BY DEF NotHeld
  <2>2. whold # NotHeld => cold
    BY Zenon DEF IInv, Quiet
  <2> QED
    BY <2>1, <2>2, NoKeyAssumption, Zenon
<1>1. ASSUME NEW j \in Keys, NEW s \in Sizes, NEW i \in BOOLEAN, PutBegin(p, j, s, i)
      PROVE  ExactAlone(p, k)'
  <2>1. op'[p].pc = "write" /\ op[p].pc = "idle"
    BY <1>1, <1>a, Zenon DEF PutBegin, Call, CanStart
  <2>2. UNCHANGED <<files, m, tombs>>
    BY <1>1, Zenon DEF PutBegin
  <2> QED
    BY <1>c, <2>1, <2>2, AloneStarts, Zenon
<1>2. CASE PutAbort(p)
  <2>1. op'[p].pc = "idle" /\ op[p].pc = "write"
    BY <1>2, <1>a DEF PutAbort, Call, Idle
  <2>2. UNCHANGED <<files, m, tombs>>
    BY <1>2, Zenon DEF PutAbort
  <2> QED
    BY <1>c, <2>1, <2>2, AloneStarts, Zenon
<1>3. CASE PutRename(p)
  <2>1. /\ op'[p].pc = "set" /\ op'[p].key = op[p].key /\ op'[p].size = op[p].size
        /\ op[p].pc = "write"
    BY <1>3, <1>a DEF PutRename, Call
  <2>2. /\ UNCHANGED <<m, tombs>>
        /\ k # op[p].key => files'[k] = files[k]
        /\ k = op[p].key => files'[k] = op[p].size
    BY <1>3, <1>a, Zenon DEF PutRename
  <2>3. op[p].size # Rot
    BY <1>b, <2>1, Zenon
  <2> QED
    BY <1>c, <2>1, <2>2, <2>3, Zenon DEF ExactAlone, Recording, Unlinking
<1>4. CASE PutSet(p)
  <2>1. op'[p].pc = "idle" /\ op[p].pc = "set"
    BY <1>4, <1>a DEF PutSet, Call, Idle
  <2>2. /\ files' = files
        /\ k # op[p].key => m'[k] = m[k] /\ (k \in tombs' <=> k \in tombs)
        /\ k = op[p].key => m'[k] = op[p].size
    BY <1>4, <1>a, Zenon DEF PutSet, set
  <2>3. op[p].size # Absent
    BY <1>b, <2>1, Zenon
  <2> QED
    BY <1>c, <2>1, <2>2, <2>3, Zenon DEF ExactAlone, Recording, Unlinking
<1>5. ASSUME NEW j \in Keys, GetOpen(p, j)
      PROVE  ExactAlone(p, k)'
  <2>1. /\ op'[p].pc \in {"discard", "observe"} /\ op[p].pc = "idle"
        /\ op'[p].pc = "observe" => op'[p].key = j /\ op'[p].size = files[j]
    BY <1>5, <1>a, Zenon DEF GetOpen, Call, CanStart
  <2>2. UNCHANGED <<files, m, tombs>>
    BY <1>5, Zenon DEF GetOpen
  <2> QED
    BY <1>c, <2>1, <2>2, Zenon DEF ExactAlone, Recording, Unlinking
<1>6. CASE GetObserve(p)
  <2>1. op'[p].pc = "idle" /\ op[p].pc = "observe"
    BY <1>6, <1>a DEF GetObserve, Call, Idle
  <2>2. /\ UNCHANGED <<files, tombs>>
        /\ m'[k] = m[k] \/ (k = op[p].key /\ m'[k] = op[p].size)
    BY <1>6, <1>a, Zenon DEF GetObserve, addIfAbsent
  <2>3. op[p].size # Absent
    BY <1>b, <2>1
  <2>4. CASE m'[k] = m[k]
    BY <1>c, <2>1, <2>2, <2>4, Zenon DEF ExactAlone, Recording, Unlinking
  <2>5. CASE k = op[p].key /\ m'[k] = op[p].size
    BY <1>c, <2>1, <2>2, <2>3, <2>5, Zenon DEF ExactAlone, Recording, Unlinking
  <2> QED
    BY <2>2, <2>4, <2>5
<1>8. CASE GetDiscard(p)
  <2>1. op[p].pc = "discard" /\ op'[p].pc = "unlink" /\ op'[p].todo = {op[p].key}
    BY <1>8, <1>a DEF GetDiscard, Call
  <2>2. removeLocked({op[p].key}) /\ files' = files
    BY <1>8, Zenon DEF GetDiscard
  <2> QED
    BY <1>c, <1>d, <2>1, <2>2, AloneForgets, Zenon
<1>9. ASSUME NEW j \in Keys, DeleteBegin(p, j)
      PROVE  ExactAlone(p, k)'
  <2>1. op[p].pc = "idle" /\ op'[p].pc = "unlink" /\ op'[p].todo = {j}
    BY <1>9, <1>a DEF DeleteBegin, Call, CanStart
  <2>2. removeLocked({j}) /\ files' = files
    BY <1>9, Zenon DEF DeleteBegin
  <2> QED
    BY <1>c, <1>d, <2>1, <2>2, AloneForgets, Zenon
<1>10. ASSUME NEW n \in Sizes, NEW frontend \in Groups, EvictBegin(p, n, frontend)
       PROVE  ExactAlone(p, k)'
  <2>1. PICK victims \in takeLRU(n, frontend) :
          /\ removeLocked(victims)
          /\ op' = [op EXCEPT ![p] = Call("unlink", NoKey, Absent, victims)]
    BY <1>10, Zenon DEF EvictBegin
  <2>2. op'[p].pc = "unlink" /\ op'[p].todo = victims
    BY <1>a, <2>1 DEF Call
  <2>3. files' = files /\ op[p].pc = "idle"
    BY <1>10, Zenon DEF EvictBegin, CanStart
  <2> QED
    BY <1>c, <1>d, <2>1, <2>2, <2>3, AloneForgets, Zenon
<1>11. CASE Unlink(p)
  <2>1. PICK j \in op[p].todo :
          /\ RemoveFile(j) \/ RemoveFileFails(j)
          /\ op' = [op EXCEPT ![p] =
                IF op[p].todo = {j} THEN Idle
                ELSE Call("unlink", NoKey, Absent, op[p].todo \ {j})]
    BY <1>11, Zenon DEF Unlink
  <2>2. /\ op[p].todo # {j} => op'[p].pc = "unlink" /\ op'[p].todo = op[p].todo \ {j}
        /\ op[p].todo = {j} => op'[p].pc = "idle"
    BY <1>a, <2>1 DEF Call, Idle
  <2>3. UNCHANGED <<m, tombs>> /\ op[p].pc = "unlink"
    BY <1>11, Zenon DEF Unlink
  <2>4. Unlinking(p, j) /\ (Unlinking(p, k)' => Unlinking(p, k)) /\ j \in Keys
    BY <1>a, <2>2, <2>3, Zenon DEF Unlinking
  <2>5. op'[p].pc \in {"idle", "prefix", "unlink"}
    BY <2>2, Zenon
  <2>6. RemoveFile(j) \/ RemoveFileFails(j)
    BY <2>1, Zenon
  <2> QED
    BY <1>a, <1>c, <1>d, <2>3, <2>4, <2>5, <2>6, AloneUnlinks, Zenon
<1>12. ASSUME NEW prefix \in Groups, PrefixBegin(p, prefix)
       PROVE  ExactAlone(p, k)'
  <2>1. op'[p].pc = "prefix" /\ op[p].pc = "idle"
    BY <1>12, <1>a DEF PrefixBegin, Call, CanStart
  <2>2. UNCHANGED <<files, m, tombs>>
    BY <1>12, Zenon DEF PrefixBegin
  <2> QED
    BY <1>c, <2>1, <2>2, AloneStarts, Zenon
<1>13. CASE PrefixRemove(p)
  <2>1. PICK j \in op[p].todo :
          /\ removeLocked({j})
          /\ op' = [op EXCEPT ![p] =
                IF m[j] # Absent
                THEN Call("prefixUnlink", j, Absent, op[p].todo \ {j})
                ELSE IF op[p].todo \ {j} = {} THEN Idle
                ELSE Call("prefix", NoKey, Absent, op[p].todo \ {j})]
    BY <1>13, Zenon DEF PrefixRemove
  <2>2. \/ op'[p].pc = "prefixUnlink" /\ op'[p].key = j
        \/ op'[p].pc \in {"idle", "prefix"}
    BY <1>a, <2>1, Zenon DEF Call, Idle
  <2>3. files' = files /\ op[p].pc = "prefix"
    BY <1>13, Zenon DEF PrefixRemove
  <2>4. /\ op'[p].pc \in {"idle", "prefix", "unlink", "prefixUnlink"} /\ op'[p].pc # "unlink"
        /\ op'[p].pc = "prefixUnlink" => op'[p].key \in {j}
    BY <2>2, Zenon
  <2>5. removeLocked({j})
    BY <2>1, Zenon
  <2> QED
    BY <1>c, <1>d, <2>3, <2>4, <2>5, AloneForgets, Zenon
<1>14. CASE PrefixUnlink(p)
  <2>1. op[p].pc = "prefixUnlink" /\ op[p].key \in Keys /\ op'[p].pc \in {"idle", "prefix"}
    BY <1>14, <1>a, <1>b, Zenon DEF PrefixUnlink, Call, Idle
  <2>2. (RemoveFile(op[p].key) \/ RemoveFileFails(op[p].key)) /\ UNCHANGED <<m, tombs>>
    BY <1>14, Zenon DEF PrefixUnlink
  <2>3. Unlinking(p, op[p].key) /\ ~Unlinking(p, k)'
    BY <2>1, Zenon DEF Unlinking
  <2>4. op'[p].pc \in {"idle", "prefix", "unlink"}
    BY <2>1, Zenon
  <2> QED
    BY <1>a, <1>c, <1>d, <2>1, <2>2, <2>3, <2>4, AloneUnlinks, Zenon
<1> QED
  BY <1>1, <1>2, <1>3, <1>4, <1>5, <1>6, <1>8, <1>9, <1>10, <1>11, <1>12, <1>13, <1>14
     DEF Put, Get, Remove

\* A step that leaves the volume, the index, the calls and the walk's file
\* alone, in a process that neither starts, saves nor ends.
LEMMA SameExact ==
    ASSUME UNCHANGED <<files, m, tombs, cold, op, whold>>, NEW k, Exact(k),
           phase' \notin {"down", "saving"}
    PROVE  Exact(k)'
<1>1. Recorded(k)' <=> Recorded(k)
  BY Zenon DEF Recorded, Recording
<1>2. \A p \in Procs : /\ Recording(p, k)' <=> Recording(p, k)
                       /\ Unlinking(p, k)' <=> Unlinking(p, k)
  BY Zenon DEF Recording, Unlinking
<1> QED
  BY <1>1, <1>2, Zenon DEF Exact

\* A process that holds no file of k, is in no call and has in its index what
\* the volume has.
LEMMA QuietExact ==
    ASSUME NEW k, files'[k] # Rot, m'[k] # Absent => files'[k] = m'[k],
           \A p \in Procs : op'[p].pc = "idle", whold'.key # k,
           phase' # "saving",
           phase' = "down" => m'[k] = Absent,
           phase' = "down" /\ fresh' /\ persist'[k] # Absent => files'[k] = persist'[k]
    PROVE  Exact(k)'
  BY Zenon DEF Exact, Recording, Unlinking

\* The walk records the sizes it reads, and nothing for a key that is being
\* unlinked.
LEMMA WalkKeepsExact ==
    ASSUME OneByOne, IInv, ExactInv, Walk, NEW k \in Keys
    PROVE  Exact(k)'
<1> USE DEF vol, pindex, index, walker, saver, life
<1>a. Exact(k) /\ TypeOK /\ (whold # NotHeld => cold)
  BY DEF IInv, ExactInv, Quiet
<1>b. phase' = phase /\ phase \notin {"down", "saving"}
  <2>1. phase' = phase /\ cold /\ (whold # NotHeld \/ phase # "down")
    BY <1>a, Zenon DEF Walk, WalkReaddir, WalkOpen, WalkAdd, WalkDiscard, WalkFinish
  <2>2. phase # "saving"
    BY <2>1 DEF ExactInv, Orderly
  <2> QED
    BY <2>1, <2>2 DEF IInv, Quiet
<1>c. whold # NotHeld => whold.key \in Keys /\ whold.size \in Sizes \cup {Rot}
  BY <1>a DEF TypeOK, WalkOK
<1>d. Absent \notin Sizes /\ NotHeld.key # k
  BY SizesAssumption, NoKeyAssumption DEF Absent, NotHeld
<1>1. CASE WalkReaddir
  <2>1. UNCHANGED <<files, m, tombs, cold, op, whold>>
    BY <1>1, Zenon DEF WalkReaddir
  <2> QED
    BY <1>a, <1>b, <2>1, SameExact
<1>e. Recorded(k) <=> \E p \in Procs : Recording(p, k)
  BY Zenon DEF Recorded
<1>2. CASE WalkOpen
  <2>1. UNCHANGED <<files, m, tombs, cold, op>> /\ whold = NotHeld
    BY <1>2, Zenon DEF WalkOpen
  <2>2. whold'.key = k => whold'.size = files[k]
    BY <1>2, <1>d DEF WalkOpen
  <2>3. Recorded(k)' <=> Recorded(k)
    BY <2>1, Zenon DEF Recorded, Recording
  <2>4. \A p \in Procs : /\ Recording(p, k)' <=> Recording(p, k)
                         /\ Unlinking(p, k)' <=> Unlinking(p, k)
    BY <2>1, Zenon DEF Recording, Unlinking
  <2> QED
    BY <1>a, <1>b, <2>1, <2>2, <2>3, <2>4, Zenon DEF Exact
<1>3. CASE WalkAdd
  <2>1. UNCHANGED <<files, tombs, cold, op>> /\ whold' = NotHeld /\ whold # NotHeld
    BY <1>3, Zenon DEF WalkAdd, addIfAbsent
  <2>2. m'[k] = m[k] \/ (/\ k = whold.key /\ m'[k] = whold.size
                         /\ m[k] = Absent /\ k \notin tombs)
    BY <1>3, <1>a DEF WalkAdd, addIfAbsent, TypeOK, IndexOK
  <2>3. Recorded(k)' <=> Recorded(k)
    BY <2>1, Zenon DEF Recorded, Recording
  <2>4. \A p \in Procs : /\ Recording(p, k)' <=> Recording(p, k)
                         /\ Unlinking(p, k)' <=> Unlinking(p, k)
    BY <2>1, Zenon DEF Recording, Unlinking
  <2>5. CASE m'[k] = m[k]
    BY <1>a, <1>b, <1>d, <2>1, <2>3, <2>4, <2>5, Zenon DEF Exact
  <2>6. CASE k = whold.key /\ m'[k] = whold.size /\ m[k] = Absent /\ k \notin tombs
    <3>1. files[k] = whold.size \/ Recorded(k)
      BY <1>a, <2>6, Zenon DEF Exact
    <3>2. \A p \in Procs : ~Unlinking(p, k)
      BY <1>a, <2>1, <2>6, Zenon DEF Exact
    <3> QED
      BY <1>a, <1>b, <1>d, <2>1, <2>3, <2>4, <2>6, <3>1, <3>2, Zenon DEF Exact
  <2> QED
    BY <2>2, <2>5, <2>6
<1>4. CASE WalkDiscard
  <2>1. whold # NotHeld /\ whold.size = Rot
    BY <1>4, Zenon DEF WalkDiscard
  <2>2. Exact(whold.key)
    BY <1>c, <2>1 DEF ExactInv
  <2> QED
    BY <2>1, <2>2, Zenon DEF Exact
<1>5. CASE WalkFinish
  <2>1. UNCHANGED <<files, m, op, whold>> /\ whold = NotHeld /\ cold' = FALSE
    BY <1>5, Zenon DEF WalkFinish, finishWalk
  <2>2. Recorded(k)' <=> Recorded(k)
    BY <2>1, Zenon DEF Recorded, Recording
  <2>3. \A p \in Procs : /\ Recording(p, k)' <=> Recording(p, k)
                         /\ Unlinking(p, k)' <=> Unlinking(p, k)
    BY <2>1, Zenon DEF Recording, Unlinking
  <2> QED
    BY <1>a, <1>b, <1>d, <2>1, <2>2, <2>3, Zenon DEF Exact
<1> QED
  BY <1>1, <1>2, <1>3, <1>4, <1>5 DEF Walk

\* Every step keeps the index, and what is saved of it, exact.
LEMMA NextKeepsExact ==
    ASSUME OneByOne, IInv, ExactInv, Next
    PROVE  ExactInv'
<1> USE DEF vol, pindex, index, walker, saver, life
<1>a. EndsInOrder /\ TypeOK /\ Orderly
  BY DEF OneByOne, IInv, ExactInv
<1>b. Orderly'
  BY <1>a, NextKeepsOrderly
<1>c. SUFFICES ASSUME NEW k \in Keys PROVE Exact(k)'
  BY <1>b DEF ExactInv
<1>d. Exact(k) /\ NotHeld.key # k /\ NoEntries[k] = Absent
  BY NoKeyAssumption DEF ExactInv, NotHeld, NoEntries
<1>e. \A p \in Procs : ProcessGone => op'[p].pc = "idle"
  BY DEF ProcessGone, Idle, Call
<1>f. files[k] # Rot
  BY <1>d, Zenon DEF Exact
<1>1. ASSUME NEW p \in Procs, Put(p) \/ Get(p) \/ Remove(p) PROVE Exact(k)'
  <2>1. phase = "up" /\ phase' = "up"
    BY <1>1, <1>a, CallsRunUp, CallsLeave, Zenon
  <2>2. \A q \in Procs : q = p
    BY DEF OneByOne
  <2>3. ExactAlone(p, k)
    BY <1>d, <2>1, <2>2, AloneIsExact, Zenon
  <2>4. ExactAlone(p, k)'
    BY <1>1, <2>3, CallsKeepExact
  <2> QED
    BY <2>1, <2>2, <2>4, AloneIsExactNext
<1>2. CASE Walk
  BY <1>2, WalkKeepsExact
<1>3. CASE FlushSnapshot
  <2>1. UNCHANGED <<files, m, tombs, cold, op, whold>> /\ phase' \notin {"down", "saving"}
    BY <1>3 DEF FlushSnapshot
  <2> QED
    BY <1>d, <2>1, SameExact
<1>4. CASE SaveWrite
  <2>1. UNCHANGED <<files, m, tombs, cold, op, whold, recs, persist, fresh, phase>>
    BY <1>4, Zenon DEF SaveWrite
  <2>2. Recorded(k)' <=> Recorded(k)
    BY <2>1, Zenon DEF Recorded, Recording
  <2>3. \A p \in Procs : /\ Recording(p, k)' <=> Recording(p, k)
                         /\ Unlinking(p, k)' <=> Unlinking(p, k)
    BY <2>1, Zenon DEF Recording, Unlinking
  <2> QED
    BY <1>d, <2>1, <2>2, <2>3, Zenon DEF Exact
<1>5. CASE SaveRename /\ phase = "saving"
  <2>1. /\ files' = files /\ persist' = recs /\ phase' = "down"
        /\ m' = NoEntries /\ whold' = NotHeld /\ ProcessGone
    BY <1>5, Zenon DEF SaveRename, SaveEnds, ProcessGone
  <2>2. ~Recorded(k)
    BY <1>5, <1>a, Zenon DEF Orderly, Recorded, Recording
  <2>3. recs[k] # Absent => files[k] = recs[k]
    BY <1>5, <1>d, <2>2, Zenon DEF Exact
  <2> QED
    BY <1>d, <1>e, <1>f, <2>1, <2>3, QuietExact, Zenon
<1>6. CASE (SaveRename \/ SaveFail) /\ phase # "saving"
  <2>1. UNCHANGED <<files, m, tombs, cold, op, whold, phase>> /\ phase # "down"
    BY <1>6, <1>a, Zenon DEF SaveRename, SaveFail, SaveEnds, Orderly
  <2> QED
    BY <1>6, <1>d, <2>1, SameExact
<1>7. ~(SaveFail /\ phase = "saving") /\ ~Crash /\ ~\E j \in Keys : HeaderRots(j)
  BY <1>a DEF OneByOne, EndsInOrder, SaveFail, Crash, HeaderRots
<1>8. CASE StartLoad \/ StartWalk
  <2>1. /\ phase = "down" /\ phase' = "up" /\ UNCHANGED <<files, op, whold>>
        /\ (fresh /\ m' = persist) \/ m' = NoEntries
    BY <1>8, Zenon DEF StartLoad, StartWalk
  <2>2. (\A p \in Procs : op'[p].pc = "idle") /\ whold' = NotHeld
    BY <2>1, Zenon DEF IInv, Quiet
  <2>3. m'[k] # Absent => files[k] = m'[k]
    BY <1>d, <2>1, Zenon DEF Exact
  <2> QED
    BY <1>d, <1>f, <2>1, <2>2, <2>3, QuietExact
<1>9. CASE CloseBegin
  <2>1. UNCHANGED <<files, m, tombs, cold, op, whold>> /\ phase' \notin {"down", "saving"}
    BY <1>9, Zenon DEF CloseBegin
  <2> QED
    BY <1>d, <2>1, SameExact
<1>10. CASE CloseSave /\ Flush
  <2>1. UNCHANGED <<files, m, tombs, cold, op, whold>> /\ phase' = "saving" /\ recs' = m
    BY <1>10, Zenon DEF CloseSave
  <2>2. Recorded(k)' <=> Recorded(k)
    BY <2>1, Zenon DEF Recorded, Recording
  <2>3. \A p \in Procs : /\ Recording(p, k)' <=> Recording(p, k)
                         /\ Unlinking(p, k)' <=> Unlinking(p, k)
    BY <2>1, Zenon DEF Recording, Unlinking
  <2> QED
    BY <1>d, <2>1, <2>2, <2>3, Zenon DEF Exact
<1>11. CASE CloseSave /\ ~Flush
  <2>1. ProcessGone /\ files' = files /\ phase' = "down" /\ m' = NoEntries /\ whold' = NotHeld
    BY <1>11, Zenon DEF CloseSave, ProcessGone
  <2>2. ~fresh'
    BY <1>11, <1>b, Zenon DEF Orderly
  <2> QED
    BY <1>d, <1>e, <1>f, <2>1, <2>2, QuietExact, Zenon
<1> QED
  BY <1>1, <1>2, <1>3, <1>4, <1>5, <1>6, <1>7, <1>8, <1>9, <1>10, <1>11, Zenon DEF Next, Save

\* What Used counts is what the volume holds: as long as calls follow one
\* another, an index at rest records the size of every file it lists, across
\* walks, flushes, failed unlinks and reads, and restarts from the .index file
\* (disk.go Used, Put, observe, walk, New, Close).
THEOREM SizesAreExact == ASSUME OneByOne PROVE Spec => []IndexExact
<1>1. Init => ExactInv
  <2> SUFFICES ASSUME Init PROVE ExactInv
    OBVIOUS
  <2>1. Orderly
    BY DEF Init, Orderly
  <2>2. ASSUME NEW k \in Keys PROVE Exact(k)
    <3>1. files[k] # Rot
      BY SizesAssumption DEF Init, Rot, Absent
    <3>2. m[k] = Absent /\ whold.key # k
      BY NoKeyAssumption DEF Init, NoEntries, NotHeld
    <3>3. phase = "down" /\ ~fresh /\ \A p \in Procs : op[p].pc = "idle"
      BY DEF Init, Idle, Call
    <3> QED
      BY <3>1, <3>2, <3>3, Zenon DEF Exact, Recording, Unlinking
  <2> QED
    BY <2>1, <2>2 DEF ExactInv
<1>2. IInv /\ ExactInv /\ [Next]_vars => ExactInv'
  <2> SUFFICES ASSUME IInv, ExactInv, [Next]_vars PROVE ExactInv'
    OBVIOUS
  <2>1. CASE UNCHANGED vars
    <3>1. UNCHANGED <<files, m, cold, tombs, op, whold, recs, persist, fresh, sv, phase>>
      BY <2>1, Zenon DEF vars
    <3>2. ASSUME NEW k \in Keys PROVE Exact(k)'
      <4>1. Exact(k)
        BY DEF ExactInv
      <4>2. \A p \in Procs : /\ Recording(p, k)' <=> Recording(p, k)
                             /\ Unlinking(p, k)' <=> Unlinking(p, k)
        BY <3>1, Zenon DEF Recording, Unlinking
      <4>3. Recorded(k)' <=> Recorded(k)
        BY <4>2 DEF Recorded
      <4>4. whold' = whold /\ op' = op /\ phase' = phase /\ files' = files /\ m' = m
        BY <3>1, Zenon
      <4>5. UNCHANGED <<cold, tombs, recs, persist, fresh>>
        BY <3>1, Zenon
      <4> QED
        BY <4>1, <4>2, <4>3, <4>4, <4>5, Zenon DEF Exact
    <3>3. Orderly'
      BY <3>1, Zenon DEF ExactInv, Orderly
    <3> QED
      BY <3>2, <3>3, Zenon DEF ExactInv
  <2> QED
    BY <2>1, NextKeepsExact
<1>3. ExactInv => IndexExact
  BY Zenon DEF ExactInv, Exact, IndexExact, Recorded, Recording, Indexed
<1> QED
  BY <1>1, <1>2, <1>3, IInvInvariant, PTL DEF Spec
=============================================================================
