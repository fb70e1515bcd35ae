-------------------------------- MODULE Disk --------------------------------
(***************************************************************************)
(* The disk tier (engine/disk): object files on a volume, the in-memory    *)
(* index that counts them, the start-up walk that rebuilds the index, the  *)
(* persisted .index file that lets a start skip the walk, and the life of  *)
(* the process around them.                                                *)
(*                                                                         *)
(* Every lock region of index.go and every system call of disk.go that     *)
(* changes a name on the volume is one step, so the steps of concurrent    *)
(* calls interleave as they do in the program.  An object is abstracted to *)
(* its size: the index tells objects apart by nothing else.  The index is  *)
(* the one IndexSpec promises; its list and totals are in DiskIndex.       *)
(***************************************************************************)
EXTENDS IndexSpec, FiniteSets

CONSTANTS
    NoKey,      \* not a key
    Procs,      \* goroutines that call the tier
    Dirs,       \* shard directories, <frontend>/<xx>
    DirOf,      \* the shard directory of each key
    Flush,      \* WithIndexFlush(d) with d > 0: the index is persisted
    Faults      \* what the environment may do to the process, see below

\* crash     the process dies between any two steps
\* interrupt Close is called while the walk runs
\* undrained Close is called while calls are in flight
\* unlink    os.Remove of an object fails
\* read      the walk cannot read a directory or open a file
\* flush     writing the .index file fails, in the flush loop
\* save      writing the .index file fails, in Close
\* load      the .index file is refused (version, directory)
\* rot       an object's header becomes unreadable
AllFaults ==
    {"crash", "interrupt", "undrained", "unlink", "read", "flush", "save", "load", "rot"}

ASSUME NoKeyAssumption == NoKey \notin Keys
ASSUME DirOfAssumption == DirOf \in [Keys -> Dirs]
ASSUME FaultsAssumption == Faults \subseteq AllFaults
ASSUME FlushAssumption == Flush \in BOOLEAN

Rot == -1       \* a file whose header does not decode

VARIABLES
    files,      \* the volume: what the name of each key holds
    failed,     \* keys whose file could not be unlinked, or read by the walk
    persist,    \* the entries of the .index file
    fresh,      \* .index exists and no shard directory is newer than it
    op,         \* the call each goroutine is in
    wdirs,      \* directories the walk has still to read
    wlist,      \* names the walk has read and not visited yet
    whold,      \* the file the walk has opened
    sv,         \* where index.save is
    recs,       \* the entries index.save is writing
    svfresh,    \* no shard directory is newer than the temp index file
    phase,      \* life of the process
    walked      \* this life of the process started with a walk

vol == <<files, failed>>
pindex == <<persist, fresh>>
walker == <<wdirs, wlist, whold>>
saver == <<sv, recs, svfresh>>
life == <<phase, walked>>
vars == <<files, failed, persist, fresh, m, cold, tombs, op,
          wdirs, wlist, whold, sv, recs, svfresh, phase, walked>>

-----------------------------------------------------------------------------
(* The calls in flight.                                                    *)

PCs == {"idle", "write", "set", "observe", "discard", "unlink",
        "prefix", "prefixUnlink"}

Ops == [pc : PCs, key : Keys \cup {NoKey}, size : Sizes \cup {Absent},
        todo : SUBSET Keys]

Call(pc, k, s, todo) == [pc |-> pc, key |-> k, size |-> s, todo |-> todo]

Idle == Call("idle", NoKey, Absent, {})

NotHeld == [key |-> NoKey, size |-> Absent]

\* p has taken k out of the index and has not unlinked its file yet.
Unlinking(p, k) ==
    \/ op[p].pc = "unlink" /\ k \in op[p].todo
    \/ op[p].pc = "prefixUnlink" /\ k = op[p].key

\* p has renamed an object into place and has not recorded it yet.
Recording(p, k) == op[p].pc = "set" /\ op[p].key = k

\* A call may start: New has returned and, when the server has drained,
\* Close has not been called.
CanStart(p) ==
    /\ op[p].pc = "idle"
    /\ phase = "up" \/ (phase \in {"closing", "saving"} /\ "undrained" \in Faults)

-----------------------------------------------------------------------------
(* What a step does to the volume.                                         *)

\* A name created in or removed from a shard directory moves the
\* directory's mtime past the mtime of every index file written so far.
DirChanged == fresh' = FALSE /\ svfresh' = FALSE

DirUnchanged == UNCHANGED <<fresh, svfresh>>

\* os.Remove of an object's path; ENOENT is success.
RemoveFile(k) ==
    /\ files' = [files EXCEPT ![k] = Absent]
    /\ failed' = failed \ {k}
    /\ IF files[k] # Absent THEN DirChanged ELSE DirUnchanged

\* os.Remove that fails with anything but ENOENT leaves the file.
RemoveFileFails(k) ==
    /\ "unlink" \in Faults
    /\ files[k] # Absent
    /\ failed' = failed \cup {k}
    /\ UNCHANGED files
    /\ DirUnchanged

-----------------------------------------------------------------------------
(* Put.                                                                    *)

\* Up to the temp file.  An immutable key that is already there answers
\* ErrExists, which changes nothing but the LRU order.
PutBegin(p, k, s, i) ==
    /\ CanStart(p)
    /\ ~(i /\ files[k] # Absent)
    /\ op' = [op EXCEPT ![p] = Call("write", k, s, {})]
    /\ DirChanged
    /\ UNCHANGED <<files, failed, persist, index, walker, sv, recs, life>>

\* Every failure before the rename takes the temp file with it.
PutAbort(p) ==
    /\ op[p].pc = "write"
    /\ op' = [op EXCEPT ![p] = Idle]
    /\ DirChanged
    /\ UNCHANGED <<files, failed, persist, index, walker, sv, recs, life>>

PutRename(p) ==
    /\ op[p].pc = "write"
    /\ files' = [files EXCEPT ![op[p].key] = op[p].size]
    /\ failed' = failed \ {op[p].key}
    /\ op' = [op EXCEPT ![p] = Call("set", op[p].key, op[p].size, {})]
    /\ DirChanged
    /\ UNCHANGED <<persist, index, walker, sv, recs, life>>

PutSet(p) ==
    /\ op[p].pc = "set"
    /\ set(op[p].key, op[p].size)
    /\ op' = [op EXCEPT ![p] = Idle]
    /\ UNCHANGED <<vol, pindex, cold, walker, saver, life>>

-----------------------------------------------------------------------------
(* Get and Stat: open, read the header, then observe or discard.           *)

\* An absent file answers ErrNotFound and changes nothing.
GetOpen(p, k) ==
    /\ CanStart(p)
    /\ files[k] # Absent
    /\ op' = [op EXCEPT ![p] =
                IF files[k] = Rot THEN Call("discard", k, Absent, {})
                                  ELSE Call("observe", k, files[k], {})]
    /\ UNCHANGED <<vol, pindex, index, walker, saver, life>>

\* observe: touch when the index knows the key, insert when it does not.
GetObserve(p) ==
    /\ op[p].pc = "observe"
    /\ addIfAbsent(op[p].key, op[p].size)
    /\ op' = [op EXCEPT ![p] = Idle]
    /\ UNCHANGED <<vol, pindex, cold, walker, saver, life>>

\* discard: forget the key, then unlink whatever its path holds by then.
GetDiscard(p) ==
    /\ op[p].pc = "discard"
    /\ removeLocked({op[p].key})
    /\ op' = [op EXCEPT ![p] = Call("unlink", NoKey, Absent, {op[p].key})]
    /\ UNCHANGED <<vol, pindex, cold, walker, saver, life>>

-----------------------------------------------------------------------------
(* Delete, evict and DeletePrefix.                                         *)

DeleteBegin(p, k) ==
    /\ CanStart(p)
    /\ removeLocked({k})
    /\ op' = [op EXCEPT ![p] = Call("unlink", NoKey, Absent, {k})]
    /\ UNCHANGED <<vol, pindex, cold, walker, saver, life>>

EvictBegin(p, n, frontend) ==
    /\ CanStart(p)
    /\ \E victims \in takeLRU(n, frontend) :
          /\ removeLocked(victims)
          /\ op' = [op EXCEPT ![p] = Call("unlink", NoKey, Absent, victims)]
    /\ UNCHANGED <<vol, pindex, cold, walker, saver, life>>

\* One os.Remove of Delete, discard or evict; the last one ends the call.
Unlink(p) ==
    /\ op[p].pc = "unlink"
    /\ \E k \in op[p].todo :
          /\ RemoveFile(k) \/ RemoveFileFails(k)
          /\ op' = [op EXCEPT ![p] =
                IF op[p].todo = {k} THEN Idle
                ELSE Call("unlink", NoKey, Absent, op[p].todo \ {k})]
    /\ UNCHANGED <<persist, index, walker, sv, recs, life>>

PrefixBegin(p, prefix) ==
    /\ CanStart(p)
    /\ Indexed \cap prefix # {}
    /\ op' = [op EXCEPT ![p] =
                Call("prefix", NoKey, Absent, Indexed \cap prefix)]
    /\ UNCHANGED <<vol, pindex, index, walker, saver, life>>

\* A key of the snapshot that is no longer indexed is left alone.
PrefixRemove(p) ==
    /\ op[p].pc = "prefix"
    /\ \E k \in op[p].todo :
          LET rest == op[p].todo \ {k} IN
          /\ removeLocked({k})
          /\ op' = [op EXCEPT ![p] =
                IF m[k] # Absent THEN Call("prefixUnlink", k, Absent, rest)
                ELSE IF rest = {} THEN Idle
                ELSE Call("prefix", NoKey, Absent, rest)]
    /\ UNCHANGED <<vol, pindex, cold, walker, saver, life>>

PrefixUnlink(p) ==
    /\ op[p].pc = "prefixUnlink"
    /\ RemoveFile(op[p].key) \/ RemoveFileFails(op[p].key)
    /\ op' = [op EXCEPT ![p] =
                IF op[p].todo = {} THEN Idle
                ELSE Call("prefix", NoKey, Absent, op[p].todo)]
    /\ UNCHANGED <<persist, index, walker, sv, recs, life>>

-----------------------------------------------------------------------------
(* The start-up walk, one directory listing and one file at a time.        *)

WalkReaddir ==
    /\ phase = "up" /\ cold
    /\ wlist = {} /\ whold = NotHeld
    /\ \E d \in wdirs :
          LET found == {k \in Keys : DirOf[k] = d /\ files[k] # Absent} IN
          /\ wdirs' = wdirs \ {d}
          /\ \/ wlist' = found /\ UNCHANGED failed
             \/ "read" \in Faults /\ wlist' = {} /\ failed' = failed \cup found
    /\ UNCHANGED <<files, pindex, index, op, whold, saver, life>>

\* A file that is gone by now, or cannot be opened, is skipped.
WalkOpen ==
    /\ phase = "up" /\ cold
    /\ whold = NotHeld
    /\ \E k \in wlist :
          /\ wlist' = wlist \ {k}
          /\ \/ /\ whold' = IF files[k] = Absent THEN NotHeld
                            ELSE [key |-> k, size |-> files[k]]
                /\ UNCHANGED failed
             \/ /\ "read" \in Faults /\ files[k] # Absent
                /\ failed' = failed \cup {k}
                /\ UNCHANGED whold
    /\ UNCHANGED <<files, pindex, index, op, wdirs, saver, life>>

WalkAdd ==
    /\ whold # NotHeld /\ whold.size # Rot
    /\ addIfAbsent(whold.key, whold.size)
    /\ whold' = NotHeld
    /\ UNCHANGED <<vol, pindex, cold, op, wdirs, wlist, saver, life>>

\* An unreadable file is unlinked by path; the index is not told.
WalkDiscard ==
    /\ whold # NotHeld /\ whold.size = Rot
    /\ RemoveFile(whold.key) \/ RemoveFileFails(whold.key)
    /\ whold' = NotHeld
    /\ UNCHANGED <<persist, index, op, wdirs, wlist, sv, recs, life>>

\* The deferred finishWalk runs whether the walk reached the end or stopped
\* (SkipAll) because Close was called.
WalkFinish ==
    /\ cold /\ whold = NotHeld
    /\ \/ phase = "up" /\ wdirs = {} /\ wlist = {}
       \/ phase = "closing"
    /\ finishWalk
    /\ wdirs' = {} /\ wlist' = {}
    /\ UNCHANGED <<vol, pindex, op, whold, saver, life>>

-----------------------------------------------------------------------------
(* index.save: a snapshot under the lock, then a temp file, then a rename. *)

\* The flush loop's tick; a cold index is not persisted.  The select may
\* choose a tick over the stop channel that Close has closed.
FlushSnapshot ==
    /\ phase \in {"up", "closing"} /\ Flush /\ ~cold
    /\ sv = "idle"
    /\ sv' = "snapshot"
    /\ recs' = m
    /\ UNCHANGED <<vol, pindex, index, op, walker, svfresh, life>>

\* The temp file's mtime is the moment of this write.
SaveWrite ==
    /\ sv = "snapshot"
    /\ sv' = "written"
    /\ svfresh' = TRUE
    /\ UNCHANGED <<vol, pindex, index, op, walker, recs, life>>

-----------------------------------------------------------------------------
(* The life of the process.                                                *)

\* The process is gone and its memory with it.  What stays is the volume;
\* the temp files of writes under way, which nothing ever reads, are left out.
ProcessGone ==
    /\ phase' = "down" /\ walked' = FALSE
    /\ m' = NoEntries /\ cold' = TRUE /\ tombs' = {}
    /\ op' = [p \in Procs |-> Idle]
    /\ wdirs' = {} /\ wlist' = {} /\ whold' = NotHeld
    /\ sv' = "idle" /\ recs' = NoEntries /\ svfresh' = FALSE

\* Seeded fault: a save of the flush loop does not end once Close has begun.
SaveEndsUp ==
    \/ phase = "saving" /\ ProcessGone
    \/ /\ phase = "up"
       /\ sv' = "idle" /\ recs' = NoEntries /\ svfresh' = FALSE
       /\ UNCHANGED <<index, op, walker, life>>

\* index.save returned, to Close or to the flush loop.
SaveEnds ==
    \/ phase = "saving" /\ ProcessGone
    \/ /\ phase # "saving"
       /\ sv' = "idle" /\ recs' = NoEntries /\ svfresh' = FALSE
       /\ UNCHANGED <<index, op, walker, life>>

SaveRename ==
    /\ sv = "written"
    /\ persist' = recs
    /\ fresh' = svfresh
    /\ UNCHANGED <<files, failed>>
    /\ SaveEnds

\* A failed save removes its temp file and leaves the old .index.
SaveFail ==
    /\ sv # "idle"
    /\ (IF phase = "saving" THEN "save" ELSE "flush") \in Faults
    /\ UNCHANGED <<files, failed, pindex>>
    /\ SaveEnds

\* New, when the .index file is believed.
StartLoad ==
    /\ phase = "down" /\ fresh
    /\ phase' = "up" /\ walked' = FALSE
    /\ m' = persist /\ cold' = FALSE /\ tombs' = {}
    /\ UNCHANGED <<vol, pindex, op, walker, saver>>

\* New, when there is no index file to believe.  The walk will find the
\* files that could not be unlinked.
StartWalk ==
    /\ phase = "down"
    /\ ~fresh \/ "load" \in Faults
    /\ failed' = {}
    /\ phase' = "up" /\ walked' = TRUE
    /\ m' = NoEntries /\ cold' = TRUE /\ tombs' = {}
    /\ wdirs' = Dirs
    /\ UNCHANGED <<files, pindex, op, wlist, whold, saver>>

\* Close: the stop channel is closed; the goroutines see it.
CloseBegin ==
    /\ phase = "up"
    /\ cold => "interrupt" \in Faults
    /\ (\E p \in Procs : op[p].pc # "idle") => "undrained" \in Faults
    /\ phase' = "closing"
    /\ UNCHANGED <<vol, pindex, index, op, walker, saver, walked>>

\* Seeded fault: Close leaves the saving to the flush loop.
CloseNoSave ==
    /\ phase = "closing" /\ ~cold /\ sv = "idle"
    /\ UNCHANGED <<files, failed, pindex>>
    /\ ProcessGone

\* Close: wg.Wait returned.  The walk's deferred function has cleared cold,
\* so the test for a cold index does not stop the save.
CloseSave ==
    /\ phase = "closing" /\ ~cold /\ sv = "idle"
    /\ UNCHANGED <<files, failed, pindex>>
    /\ \/ /\ Flush
          /\ phase' = "saving" /\ sv' = "snapshot" /\ recs' = m
          /\ UNCHANGED <<index, op, walker, svfresh, walked>>
       \/ ~Flush /\ ProcessGone

Crash ==
    /\ "crash" \in Faults /\ phase # "down"
    /\ ProcessGone
    /\ UNCHANGED <<files, failed, pindex>>

\* Bit rot, or a file edited by hand.
HeaderRots(k) ==
    /\ "rot" \in Faults
    /\ files[k] \in Sizes
    /\ files' = [files EXCEPT ![k] = Rot]
    /\ UNCHANGED <<failed, pindex, index, op, walker, saver, life>>

-----------------------------------------------------------------------------

\* The first start finds a volume that earlier versions of the process left.
Init ==
    /\ files \in [Keys -> Sizes \cup {Absent}]
    /\ failed = {}
    /\ persist = NoEntries /\ fresh = FALSE
    /\ m = NoEntries /\ cold = TRUE /\ tombs = {}
    /\ op = [p \in Procs |-> Idle]
    /\ wdirs = {} /\ wlist = {} /\ whold = NotHeld
    /\ sv = "idle" /\ recs = NoEntries /\ svfresh = FALSE
    /\ phase = "down" /\ walked = FALSE

Put(p) ==
    \/ \E k \in Keys, s \in Sizes, i \in BOOLEAN : PutBegin(p, k, s, i)
    \/ PutAbort(p) \/ PutRename(p) \/ PutSet(p)

Get(p) == (\E k \in Keys : GetOpen(p, k)) \/ GetObserve(p) \/ GetDiscard(p)

Remove(p) ==
    \/ \E k \in Keys : DeleteBegin(p, k)
    \/ \E n \in Sizes, frontend \in Groups : EvictBegin(p, n, frontend)
    \/ Unlink(p)
    \/ \E prefix \in Groups : PrefixBegin(p, prefix)
    \/ PrefixRemove(p) \/ PrefixUnlink(p)

Walk == WalkReaddir \/ WalkOpen \/ WalkAdd \/ WalkDiscard \/ WalkFinish

Save == SaveWrite \/ SaveRename \/ SaveFail

Next ==
    \/ \E p \in Procs : Put(p) \/ Get(p) \/ Remove(p)
    \/ Walk \/ FlushSnapshot \/ Save
    \/ StartLoad \/ StartWalk \/ CloseBegin \/ CloseSave \/ Crash
    \/ \E k \in Keys : HeaderRots(k)

Spec == Init /\ [][Next]_vars

\* The walk and Close run on goroutines of their own that nothing blocks.
\* Callers owe no progress: a call may hang in its body's reader.  The flush
\* loop's select cannot prefer its ticker to the closed stop channel forever,
\* so wg.Wait returns: strong fairness of CloseSave.
Fairness ==
    /\ WF_vars(Walk)
    /\ WF_vars(SaveWrite \/ SaveRename)
    /\ SF_vars(CloseSave)

FairSpec == Spec /\ Fairness

-----------------------------------------------------------------------------
(* Properties.                                                             *)

VolumeOK ==
    /\ files \in [Keys -> Sizes \cup {Absent, Rot}]
    /\ failed \subseteq Keys

IndexOK ==
    /\ m \in [Keys -> Sizes \cup {Absent}]
    /\ cold \in BOOLEAN /\ tombs \subseteq Keys

\* A call that will touch one key, or record a size, has it.
CallsOK ==
    /\ op \in [Procs -> Ops]
    /\ \A p \in Procs :
          /\ op[p].pc \notin {"idle", "unlink", "prefix"} => op[p].key \in Keys
          /\ op[p].pc \in {"write", "set", "observe"} => op[p].size \in Sizes

WalkOK ==
    /\ wdirs \subseteq Dirs /\ wlist \subseteq Keys
    /\ whold \in [key : Keys, size : Sizes \cup {Rot}] \cup {NotHeld}

SavedOK ==
    /\ persist \in [Keys -> Sizes \cup {Absent}] /\ fresh \in BOOLEAN
    /\ sv \in {"idle", "snapshot", "written"}
    /\ recs \in [Keys -> Sizes \cup {Absent}] /\ svfresh \in BOOLEAN

LifeOK == phase \in {"down", "up", "closing", "saving"} /\ walked \in BOOLEAN

TypeOK == VolumeOK /\ IndexOK /\ CallsOK /\ WalkOK /\ SavedOK /\ LifeOK

\* The walk has still to look at the file of k.
AheadOfWalk(k) ==
    cold /\ (DirOf[k] \in wdirs \/ k \in wlist \/ whold.key = k)

InFlight(k) == \E p \in Procs : Recording(p, k) \/ Unlinking(p, k)

\* No object is lost to the garbage collector: in a life of the process that
\* began with a walk, a file on the volume is in the index, or a call is
\* about to record or unlink it, or the walk has still to reach it, or the
\* volume refused to unlink it or to read it.  Put renames before it records,
\* every remover forgets before it unlinks, and the walk reads directories
\* while all of them run (disk.go Put, Delete, evict, DeletePrefix, discard,
\* walk).
NoOrphan ==
    phase = "up" /\ walked =>
        \A k \in Keys :
            files[k] # Absent =>
               m[k] # Absent \/ InFlight(k) \/ AheadOfWalk(k) \/ k \in failed

\* The walk never brings a deleted object back into the index: when the
\* walk inserts an entry, the file it read a moment ago is still there
\* (index.go tombs, addIfAbsent, removeLocked).
WalkInsertHasFile ==
    [][\A k \in Keys :
          /\ whold.key = k /\ whold' = NotHeld
          /\ m[k] = Absent /\ m'[k] # Absent
          => files[k] # Absent]_vars

\* Used() is the bytes the indexed objects occupy: while no call is in
\* flight, every entry of the index records the size of the file that is
\* on the volume under its key (disk.go Used, Put, observe, walk).
IndexExact ==
    phase = "up" /\ (\A p \in Procs : op[p].pc = "idle") =>
        \A k \in Indexed : files[k] = m[k]

\* A start that believes the .index file misses no file: the index it loads
\* holds every object on the volume that no call in flight is about to
\* record or unlink (disk.go New, Close; index.go load, indexIsFresh).
TrustedIndexComplete ==
    phase = "up" /\ ~walked =>
        \A k \in Keys : files[k] # Absent => m[k] # Absent \/ InFlight(k)

\* Close returns: it waits for the walk and for a save under way, and for
\* nothing else (disk.go Close).
CloseEnds == (phase = "closing") ~> (phase = "down")
=============================================================================
