----------------------------- MODULE SliceCache -----------------------------
(***************************************************************************)
(* Volume's cached slices (core/src/Volume.cpp): threads that read slices  *)
(* through cache_slice_, rewrite slice files, purge the cache and change   *)
(* its capacity.                                                           *)
(*                                                                         *)
(* Three kinds of locks are at work. cache_mutex_ is a std::shared_mutex:  *)
(* readers is the set of threads that hold it shared. Whoever takes it     *)
(* exclusively makes one call on the cache under it and releases it, which *)
(* is one step that waits for readers = {}. slice_mutexes_[i] is held by   *)
(* sliceLock[i] through the load of slice i. The cache's own mutex makes   *)
(* each of its methods one step (module LRUCache), with or without         *)
(* cache_mutex_: setCacheCapacity takes only that one.                     *)
(***************************************************************************)
EXTENDS LRUCache

CONSTANTS Threads,
          Nobody,       \* owner of a free slice mutex
          Torn,         \* what a read makes of a file that is being rewritten
          Absent,       \* the refinement's value of a slice that is not cached
          Jxl,          \* the slices are .jxl files, whose reader throws
          MaxOps        \* bound: operations the threads perform

Slices == Keys
Images == Values

ASSUME TornAssumption == Torn \in Images
ASSUME NobodyAssumption == Nobody \notin Threads
ASSUME JxlAssumption == Jxl \in BOOLEAN
ASSUME MaxOpsAssumption == MaxOps \in Nat

VARIABLES pc,           \* where each thread is
          slice,        \* the slice its operation is about
          img,          \* the image it read, or is writing
          readers,      \* holders of cache_mutex_ in shared mode
          sliceLock,    \* owner of each mutex of slice_mutexes_
          disk,         \* content of each slice's file
          ops,          \* operations begun
          clean         \* auxiliary: no write to this slice since a purge that
                        \* no load of it straddled

locals == <<pc, slice, img, ops>>
locks == <<readers, sliceLock>>
vars == <<cacheVars, locals, locks, disk, clean>>

Labels == {"idle", "check", "get", "lock", "load", "read", "store", "write", "threw"}

\* A thread in the part of cache_slice_ between the second check and the return.
Loading(t) == pc[t] \in {"load", "read", "store"}

Holds(t, i) == sliceLock[i] = t

\* A volume opened from its folder. (The constructor for new volumes sizes
\* slice_mutexes_ before it knows the number of slices and never again: a volume
\* it made has no mutex to take in cache_slice_, and is not modelled.)
Init ==
    /\ CacheInit
    /\ pc = [t \in Threads |-> "idle"]
    /\ slice \in [Threads -> Slices]
    /\ img = [t \in Threads |-> Torn]
    /\ readers = {}
    /\ sliceLock = [i \in Slices |-> Nobody]
    /\ disk \in [Slices -> Images \ {Torn}]
    /\ ops = 0
    /\ clean = [i \in Slices |-> TRUE]

Begin(t) ==
    /\ pc[t] = "idle"
    /\ ops < MaxOps
    /\ ops' = ops + 1

Goto(t, l) == pc' = [pc EXCEPT ![t] = l]

\* The destructors of the lock objects when t leaves cache_slice_.
ReleaseSliceLock(t) ==
    sliceLock' = [i \in Slices |-> IF Holds(t, i) THEN Nobody ELSE sliceLock[i]]

-----------------------------------------------------------------------------
(***************************************************************************)
(* getSliceData: cache_slice_. (Of a zarr volume getSliceData calls         *)
(* load_slice_, which throws, without the cache or its locks.)             *)
(***************************************************************************)
GetSliceData(t, i) ==
    /\ Begin(t)
    /\ slice' = [slice EXCEPT ![t] = i]
    /\ Goto(t, "check")
    /\ UNCHANGED <<cacheVars, img, locks, disk, clean>>

\* contains() under the shared lock, before and after the slice mutex is taken.
\* A hit keeps the lock for get(); a miss releases it.
CheckHit(t) ==
    /\ pc[t] = "check"
    /\ slice[t] \in lookup
    /\ readers' = readers \cup {t}
    /\ Goto(t, "get")
    /\ UNCHANGED <<cacheVars, slice, img, ops, sliceLock, disk, clean>>

CheckMiss(t) ==
    /\ pc[t] = "check"
    /\ slice[t] \notin lookup
    /\ Goto(t, IF Holds(t, slice[t]) THEN "load" ELSE "lock")
    /\ UNCHANGED <<cacheVars, slice, img, ops, locks, disk, clean>>

\* Mutant of GetHit: the slice mutex is not released on a hit of the second check.
GetHitKeepsMutex(t) ==
    /\ pc[t] = "get"
    /\ Get(slice[t])
    /\ img' = [img EXCEPT ![t] = ValueOf(slice[t])]
    /\ readers' = readers \ {t}
    /\ Goto(t, "idle")
    /\ UNCHANGED <<slice, ops, sliceLock, disk, clean>>

GetHit(t) ==
    /\ pc[t] = "get"
    /\ Get(slice[t])
    /\ img' = [img EXCEPT ![t] = ValueOf(slice[t])]
    /\ readers' = readers \ {t}
    /\ ReleaseSliceLock(t)
    /\ Goto(t, "idle")
    /\ UNCHANGED <<slice, ops, disk, clean>>

\* get() finds the slice gone since contains() and throws through cache_slice_.
GetThrows(t) ==
    /\ pc[t] = "get"
    /\ slice[t] \notin lookup
    /\ readers' = readers \ {t}
    /\ ReleaseSliceLock(t)
    /\ Goto(t, "threw")
    /\ UNCHANGED <<cacheVars, slice, img, ops, disk, clean>>

\* Mutant of TakeSliceLock: no second check once the mutex is held.
TakeSliceLockAndLoad(t) ==
    /\ pc[t] = "lock"
    /\ sliceLock[slice[t]] = Nobody
    /\ sliceLock' = [sliceLock EXCEPT ![slice[t]] = t]
    /\ Goto(t, "load")
    /\ UNCHANGED <<cacheVars, slice, img, ops, readers, disk, clean>>

TakeSliceLock(t) ==
    /\ pc[t] = "lock"
    /\ sliceLock[slice[t]] = Nobody
    /\ sliceLock' = [sliceLock EXCEPT ![slice[t]] = t]
    /\ Goto(t, "check")
    /\ UNCHANGED <<cacheVars, slice, img, ops, readers, disk, clean>>

\* load_slice_: reading the file takes time. An unreadable .tif gives an empty
\* image (one of Images) that is cached like any other: its exceptions are caught.
StartLoad(t) ==
    /\ pc[t] = "load"
    /\ img' = [img EXCEPT ![t] = disk[slice[t]]]
    /\ Goto(t, "read")
    /\ UNCHANGED <<cacheVars, slice, ops, locks, disk, clean>>

\* A file rewritten under the read gives a torn image.
FinishLoad(t) ==
    /\ pc[t] = "read"
    /\ img' = [img EXCEPT ![t] = IF @ = disk[slice[t]] THEN @ ELSE Torn]
    /\ Goto(t, "store")
    /\ UNCHANGED <<cacheVars, slice, ops, locks, disk, clean>>

\* read_jxl throws, when it opens the file or when it decodes it, and nothing
\* catches that: the slice mutex is released and nothing is stored.
LoadThrows(t) ==
    /\ Jxl
    /\ pc[t] \in {"load", "read"}
    /\ ReleaseSliceLock(t)
    /\ Goto(t, "threw")
    /\ UNCHANGED <<cacheVars, slice, img, ops, readers, disk, clean>>

\* Mutant of Store: the image goes into the cache only while there is room.
StoreIfRoom(t) ==
    /\ pc[t] = "store"
    /\ readers = {}
    /\ IF Len(items) < capacity THEN Put(slice[t], img[t]) ELSE UNCHANGED cacheVars
    /\ ReleaseSliceLock(t)
    /\ Goto(t, "idle")
    /\ UNCHANGED <<slice, img, ops, readers, disk, clean>>

Store(t) ==
    /\ pc[t] = "store"
    /\ readers = {}
    /\ Put(slice[t], img[t])
    /\ ReleaseSliceLock(t)
    /\ Goto(t, "idle")
    /\ UNCHANGED <<slice, img, ops, readers, disk, clean>>

-----------------------------------------------------------------------------
(***************************************************************************)
(* setSliceData: rewrites the file and leaves the cache alone.             *)
(***************************************************************************)
BeginWrite(t, i, v) ==
    /\ Begin(t)
    /\ slice' = [slice EXCEPT ![t] = i]
    /\ img' = [img EXCEPT ![t] = v]
    /\ disk' = [disk EXCEPT ![i] = Torn]
    /\ clean' = [clean EXCEPT ![i] = FALSE]
    /\ Goto(t, "write")
    /\ UNCHANGED <<cacheVars, locks>>

EndWrite(t) ==
    /\ pc[t] = "write"
    /\ disk' = [disk EXCEPT ![slice[t]] = img[t]]
    /\ clean' = [clean EXCEPT ![slice[t]] = FALSE]
    /\ Goto(t, "idle")
    /\ UNCHANGED <<cacheVars, slice, img, ops, locks>>

(***************************************************************************)
(* cachePurge and setCacheCapacity.                                        *)
(***************************************************************************)
\* No load of i is past the point where it has opened the file.
NoLoadStraddles(i) ==
    \A u \in Threads : slice[u] = i => pc[u] \notin {"read", "store"}

\* Mutant of CachePurge: only the cache's own mutex is taken.
CachePurgeUnlocked(t) ==
    /\ Begin(t)
    /\ Purge
    /\ clean' = [i \in Slices |-> clean[i] \/ NoLoadStraddles(i)]
    /\ UNCHANGED <<pc, slice, img, locks, disk>>

CachePurge(t) ==
    /\ Begin(t)
    /\ readers = {}
    /\ Purge
    /\ clean' = [i \in Slices |-> clean[i] \/ NoLoadStraddles(i)]
    /\ UNCHANGED <<pc, slice, img, locks, disk>>

\* Takes no lock of the volume.
SetCacheCapacity(t, c) ==
    /\ Begin(t)
    /\ SetCapacity(c)
    /\ UNCHANGED <<pc, slice, img, locks, disk, clean>>

\* Every thread has performed its operations.
Finished ==
    /\ \A t \in Threads : pc[t] \in {"idle", "threw"}
    /\ UNCHANGED vars

CacheSlice(t) ==
    \/ CheckHit(t)
    \/ CheckMiss(t)
    \/ GetHit(t)
    \/ GetThrows(t)
    \/ TakeSliceLock(t)
    \/ StartLoad(t)
    \/ FinishLoad(t)
    \/ LoadThrows(t)
    \/ Store(t)

Next ==
    \/ \E t \in Threads :
           \/ \E i \in Slices : GetSliceData(t, i)
           \/ CacheSlice(t)
           \/ \E i \in Slices, v \in Images \ {Torn} : BeginWrite(t, i, v)
           \/ EndWrite(t)
           \/ CachePurge(t)
           \/ \E c \in Capacities : SetCacheCapacity(t, c)
    \/ Finished

Spec == Init /\ [][Next]_vars

\* The scheduler runs every thread that can run. No fairness of the locks is
\* needed: a thread performs finitely many operations.
FairSpec == Spec /\ \A t \in Threads : WF_vars(CacheSlice(t)) /\ WF_vars(EndWrite(t))

-----------------------------------------------------------------------------
(***************************************************************************)
(* Properties.                                                             *)
(***************************************************************************)
\* Type invariant of the volume's state.
TypeOK ==
    /\ CacheTypeOK
    /\ pc \in [Threads -> Labels]
    /\ slice \in [Threads -> Slices]
    /\ img \in [Threads -> Images]
    /\ readers \subseteq Threads
    /\ sliceLock \in [Slices -> Threads \cup {Nobody}]
    /\ disk \in [Slices -> Images]
    /\ ops \in 0..MaxOps
    /\ clean \in [Slices -> BOOLEAN]

\* The two checks and the slice mutex together keep a slice from being loaded
\* twice: whoever is between the second check and put has the slice to itself,
\* and the slice has not entered the cache in the meantime, whatever readers,
\* purges and capacity changes did.
LoadsAreNeeded ==
    \A t \in Threads :
        Loading(t) =>
            /\ slice[t] \notin lookup
            /\ \A u \in Threads \ {t} : ~(Loading(u) /\ slice[u] = slice[t])

\* A slice that was not rewritten since the last purge, or since a purge that no
\* load of it straddled, is cached with the content of its file. (setSliceData
\* does not touch the cache and purging under a load brings the old image back,
\* so nothing stronger holds.)
CleanIsFresh ==
    \A n \in DOMAIN items : clean[items[n].key] => items[n].val = disk[items[n].key]

\* While a thread is between contains() and get() its slice leaves the cache only
\* when the capacity shrinks, which setCacheCapacity does without the volume's
\* lock: purges and the evictions of put wait for the shared lock.
ShrinkingAloneCausesMisses ==
    [][ (\E t \in Threads : /\ pc[t] = "get"
                            /\ slice[t] \in lookup
                            /\ slice[t] \notin lookup')
        => capacity' < capacity ]_vars

\* The volume implements the forgetful table of module SliceMemo: recency, locks
\* and threads only decide when it forgets and who loads. A load that ends without
\* its image in the table has thrown to its reader, and a read that throws with no
\* load under way is of a slice the table has forgotten.
Table == [i \in Slices |-> IF i \in lookup THEN ValueOf(i) ELSE Absent]
Busy == {slice[t] : t \in {u \in Threads : Loading(u)}}
Failed == {t \in Threads : pc[t] = "threw"}
Memo == INSTANCE SliceMemo WITH Readers <- Threads,
                                memo <- Table, loading <- Busy, failed <- Failed
ImplementsMemo == Memo!MemoSpec

\* Every read comes to an end: no thread stays behind a slice mutex or behind the
\* shared lock for ever.
ReadsEnd == \A t \in Threads : pc[t] = "check" ~> pc[t] \in {"idle", "threw"}
=============================================================================
