-------------------------- MODULE InterpolatedRead ---------------------------
(***************************************************************************)
(* readInterpolated3D (core/src/Slicing.cpp): threads that fill the rows   *)
(* of an image from the chunks of a dataset, through a ChunkCache.         *)
(*                                                                         *)
(* A thread looks a chunk up once for a run of pixels and keeps the        *)
(* pointer. At the border of a chunk it looks up the neighbours too        *)
(* (retrieve_single_value_cached). A lookup that misses gives the lock up, *)
(* reads the chunk and takes the lock exclusively for put. The mutex is    *)
(* then released with unlock(), also where it is held shared: the C++      *)
(* library of the build releases a lock of either kind that way.           *)
(*                                                                         *)
(* A chunk is read after the lock is released (pc = "use"). Reading a      *)
(* deleted chunk gives any bytes; the thread goes on.                      *)
(***************************************************************************)
EXTENDS ChunkCache

CONSTANTS Threads,
          MaxLookups    \* bound: pixels and neighbours each thread reads

ASSUME MaxLookupsAssumption == MaxLookups \in Nat

VARIABLES pc,           \* "row" between pixels, "find", "get", "put", "use"
          key,          \* the key of the lookup
          last,         \* last_key; Null before the row's first lookup
          chunk,        \* chunk, the pointer kept along the row
          temp,         \* chunk of the lambda, and a chunk read and not yet put
          aim,          \* what the lookup is for: "pixel" or "neighbour"
          seen,         \* the generation get has read
          readers,      \* holders of the mutex in shared mode
          lookups,      \* pixels and neighbours read so far
          raced         \* auxiliary: keys of which two loads were under way at once

locals == <<pc, key, last, chunk, temp, aim, seen, lookups>>
vars == <<cacheVars, locals, readers, raced>>

Pointers == Chunk \cup {Null}

ReadInit ==
    /\ CacheInit
    /\ pc = [t \in Threads |-> "row"]
    /\ key \in {[t \in Threads |-> k] : k \in Keys}
    /\ last = [t \in Threads |-> Null]
    /\ chunk = [t \in Threads |-> Null]
    /\ temp = [t \in Threads |-> Null]
    /\ aim = [t \in Threads |-> "pixel"]
    /\ seen = [t \in Threads |-> 0]
    /\ readers = {}
    /\ lookups = [t \in Threads |-> 0]
    /\ raced = {}

Goto(t, l) == pc' = [pc EXCEPT ![t] = l]

Count(t) ==
    /\ lookups[t] < MaxLookups
    /\ lookups' = [lookups EXCEPT ![t] = @ + 1]

LookUp(t, k, what) ==
    /\ key' = [key EXCEPT ![t] = k]
    /\ aim' = [aim EXCEPT ![t] = what]
    /\ Goto(t, "find")

\* A pixel in the chunk of the pixel before needs no lookup.
SamePixelChunk(t) ==
    /\ pc[t] = "row"
    /\ last[t] # Null
    /\ Count(t)
    /\ Goto(t, "use")
    /\ UNCHANGED <<cacheVars, key, last, chunk, temp, aim, seen, readers, raced>>

\* A pixel in another chunk, or the first of a row.
NewPixelChunk(t, k) ==
    /\ pc[t] = "row"
    /\ Count(t)
    /\ last' = [last EXCEPT ![t] = k]
    /\ LookUp(t, k, "pixel")
    /\ UNCHANGED <<cacheVars, chunk, temp, seen, readers, raced>>

\* The lookup's result goes to chunk or to the lambda's value.
Deliver(t, p) ==
    /\ chunk' = IF aim[t] = "pixel" THEN [chunk EXCEPT ![t] = p] ELSE chunk
    /\ temp' = [temp EXCEPT ![t] = p]
    /\ Goto(t, "use")

\* has() finds nothing; the chunk is read with the lock released.
Miss(t) ==
    /\ pc[t] = "find"
    /\ ~Has(key[t])
    /\ \E p \in {Null, [key |-> key[t], load |-> loads[key[t]] + 1]} :
           /\ ReadChunk(key[t], p)
           /\ temp' = [temp EXCEPT ![t] = p]
    /\ raced' = raced \cup {key[t] : u \in {v \in Threads : pc[v] = "put" /\ key[v] = key[t]}}
    /\ Goto(t, "put")
    /\ UNCHANGED <<store, gen_store, generation, stored>>
    /\ UNCHANGED <<key, last, chunk, aim, seen, lookups, readers>>

PutChunk(t) ==
    /\ pc[t] = "put"
    /\ readers = {}
    /\ Put(key[t], temp[t])
    /\ Deliver(t, temp[t])
    /\ UNCHANGED <<key, last, aim, seen, lookups, readers, raced>>

\* has() finds the key, and get() reads the generation.
Hit(t) ==
    /\ pc[t] = "find"
    /\ Has(key[t])
    /\ readers' = readers \cup {t}
    /\ seen' = [seen EXCEPT ![t] = generation]
    /\ Goto(t, "get")
    /\ UNCHANGED <<cacheVars, key, last, chunk, temp, aim, lookups, raced>>

\* get() writes the generation and returns; the lock is released.
Get(t) ==
    /\ pc[t] = "get"
    /\ Touch(key[t], seen[t])
    /\ readers' = readers \ {t}
    /\ Deliver(t, store[key[t]])
    /\ UNCHANGED <<key, last, aim, seen, lookups, raced>>

\* The lambda's value is read; the interpolation of the pixel goes on.
UseNeighbour(t) ==
    /\ pc[t] = "use"
    /\ aim[t] = "neighbour"
    /\ aim' = [aim EXCEPT ![t] = "pixel"]
    /\ UNCHANGED <<cacheVars, pc, key, last, chunk, temp, seen, lookups, readers, raced>>

\* The row's chunk is read; at its border neighbours are wanted, among them voxels
\* of the row's chunk itself, which are looked up like the others.
UseAndLookUpNeighbour(t, k) ==
    /\ pc[t] = "use"
    /\ aim[t] = "pixel"
    /\ chunk[t] # Null
    /\ Count(t)
    /\ LookUp(t, k, "neighbour")
    /\ UNCHANGED <<cacheVars, last, chunk, temp, seen, readers, raced>>

\* The row's chunk, if there is one, is read and the pixel is done.
UsePixel(t) ==
    /\ pc[t] = "use"
    /\ aim[t] = "pixel"
    /\ Goto(t, "row")
    /\ UNCHANGED <<cacheVars, key, last, chunk, temp, aim, seen, lookups, readers, raced>>

\* All rows are filled.
Finished ==
    /\ \A t \in Threads : pc[t] = "row"
    /\ UNCHANGED vars

ReadNext ==
    \/ \E t \in Threads :
           \/ SamePixelChunk(t)
           \/ \E k \in Keys : NewPixelChunk(t, k)
           \/ Miss(t)
           \/ PutChunk(t)
           \/ Hit(t)
           \/ Get(t)
           \/ UseNeighbour(t)
           \/ \E k \in Keys : UseAndLookUpNeighbour(t, k)
           \/ UsePixel(t)
    \/ Finished

ReadSpec == ReadInit /\ [][ReadNext]_vars

-----------------------------------------------------------------------------
(***************************************************************************)
(* Properties.                                                             *)
(***************************************************************************)
\* Type invariant; the two maps have the same keys, or the loop of put would insert
\* null pointers under keys that nobody stored.
TypeOK ==
    /\ DOMAIN store \subseteq Keys
    /\ \A k \in DOMAIN store : store[k] \in Pointers
    /\ DOMAIN gen_store = DOMAIN store
    /\ \A k \in DOMAIN gen_store : gen_store[k] \in Nat
    /\ generation \in Nat
    /\ stored \in Nat
    /\ heap \subseteq Chunk
    /\ loads \in [Keys -> Nat]
    /\ pc \in [Threads -> {"row", "find", "get", "put", "use"}]
    /\ key \in [Threads -> Keys]
    /\ last \in [Threads -> Keys \cup {Null}]
    /\ chunk \in [Threads -> Pointers]
    /\ temp \in [Threads -> Pointers]
    /\ aim \in [Threads -> {"pixel", "neighbour"}]
    /\ seen \in [Threads -> Nat]
    /\ readers \subseteq Threads
    /\ lookups \in [Threads -> 0..MaxLookups]
    /\ raced \subseteq Keys

\* The cache never holds a deleted chunk, whatever was evicted, replaced or loaded
\* twice: get returns a chunk that exists, and the destructor deletes each once.
StoreIsLive == \A k \in DOMAIN store : store[k] # Null => store[k] \in heap

\* Chunks read and not yet put.
InTransit == {temp[t] : t \in {u \in Threads : pc[u] = "put"}}

\* _stored counts every chunk ever put and not deleted: those in the store and those
\* that a second load of their key has pushed out of it, which nobody deletes.
StoredIsCounted == stored = Cardinality(heap \ InTransit)

\* Every chunk in memory is in the store or on its way there with a thread, or a
\* second load of its key was under way beside its own: evictions lose no chunk and
\* free none that the store still holds, and chunks loaded one after the other leak
\* nothing, however lookups, evictions and reloads of the same key follow.
OnlyDoubleLoadsLeak ==
    /\ StoreIsLive
    /\ \A p \in heap \ (ChunksOf(DOMAIN store) \cup InTransit) : p.key \in raced
=============================================================================
