----------------------------- MODULE ChunkCache ------------------------------
(***************************************************************************)
(* The chunk cache of the interpolated reads (core/src/Slicing.cpp): raw   *)
(* pointers to chunks of a zarr dataset, the generation of each one's last *)
(* use, and a count of the bytes held, which decides when old chunks are   *)
(* deleted.                                                                *)
(*                                                                         *)
(* The cache has no lock of its own. put is called under an exclusive lock *)
(* and is one step; get is called under a shared one and is two, so that   *)
(* two of them can race for the generation counter. The cache owns the     *)
(* chunks it holds; the heap shows which chunks exist at all. Bytes are    *)
(* counted in chunks: readChunk gives every chunk the dataset's full size. *)
(***************************************************************************)
EXTENDS Naturals, FiniteSets, Functions

CONSTANTS Keys,     \* keys of the dataset's chunks
          Missing,  \* keys whose chunk does not exist in the dataset
          Size,     \* _size, in chunks
          Null

ASSUME MissingAssumption == Missing \subseteq Keys
ASSUME SizeAssumption == Size \in Nat \ {0}

\* A chunk in memory, named by its key and the number of its load.
Chunk == [key : Keys, load : Nat \ {0}]

ASSUME NullAssumption == Null \notin Chunk

VARIABLES store,        \* _store
          gen_store,    \* _gen_store
          generation,   \* _generation
          stored,       \* _stored
          heap,         \* the chunks allocated and not deleted
          loads         \* loads of each key so far

cacheVars == <<store, gen_store, generation, stored, heap, loads>>

CacheInit ==
    /\ store = <<>>
    /\ gen_store = <<>>
    /\ generation = 0
    /\ stored = 0
    /\ heap = {}
    /\ loads = [k \in Keys |-> 0]

Has(k) == k \in DOMAIN store

\* The chunks under the keys E; a missing chunk is cached as a null pointer.
ChunksOf(E) == {store[k] : k \in E} \ {Null}

\* f with k mapped to v, whether k was in its domain or not.
Update(f, k, v) == [j \in DOMAIN f \cup {k} |-> IF j = k THEN v ELSE f[j]]

\* readChunk: allocates a chunk, or none where the dataset has none.
ReadChunk(k, p) ==
    \/ /\ k \in Missing
       /\ p = Null
       /\ UNCHANGED <<heap, loads>>
    \/ /\ k \notin Missing
       /\ p = [key |-> k, load |-> loads[k] + 1]
       /\ heap' = heap \cup {p}
       /\ loads' = [loads EXCEPT ![k] = @ + 1]

\* get after it has read the generation g: the key becomes the youngest, unless
\* others that read g as well, or more since, have written theirs.
Touch(k, g) ==
    /\ generation' = g + 1
    /\ \E h \in {g + 1, generation} : gen_store' = [gen_store EXCEPT ![k] = h]
    /\ UNCHANGED <<store, stored, heap, loads>>

-----------------------------------------------------------------------------
BelowNineTenths(bytes) == bytes * 10 < Size * 9

\* The keys that the loop over the chunks sorted by generation removes when count
\* bytes are stored: the oldest ones up to the first that makes enough room.
Oldest(E, count) ==
    LET left(F) == count - Cardinality(ChunksOf(F))
    IN  /\ \A k \in E, j \in DOMAIN store \ E : gen_store[k] <= gen_store[j]
        /\ E = DOMAIN store \/ BelowNineTenths(left(E))
        /\ E # {} => \E v \in E : /\ \A k \in E : gen_store[k] <= gen_store[v]
                                  /\ E = {v} \/ ~BelowNineTenths(left(E \ {v}))
        /\ E = {} => DOMAIN store = {}

Reduce(E, count) ==
    IF count >= Size THEN Oldest(E, count) ELSE E = {}

Bytes(p) == IF p = Null THEN 0 ELSE 1

\* Mutant of Put: the chunks that go are no longer counted and not deleted.
PutForgetsOldest(k, p) ==
    \E E \in SUBSET DOMAIN store :
        /\ Reduce(E, stored + Bytes(p))
        /\ stored' = stored + Bytes(p) - Cardinality(ChunksOf(E))
        /\ store' = Update(Restrict(store, DOMAIN store \ E), k, p)
        /\ generation' = generation + 1
        /\ gen_store' = Update(Restrict(gen_store, DOMAIN gen_store \ E), k, generation')
        /\ UNCHANGED <<heap, loads>>

\* put: the new chunk is counted, old ones are deleted if that makes too many, and
\* the new one is stored as the youngest. A chunk stored under the key before is
\* replaced and not deleted.
Put(k, p) ==
    \E E \in SUBSET DOMAIN store :
        /\ Reduce(E, stored + Bytes(p))
        /\ stored' = stored + Bytes(p) - Cardinality(ChunksOf(E))
        /\ heap' = heap \ ChunksOf(E)
        /\ store' = Update(Restrict(store, DOMAIN store \ E), k, p)
        /\ generation' = generation + 1
        /\ gen_store' = Update(Restrict(gen_store, DOMAIN gen_store \ E), k, generation')
        /\ UNCHANGED loads
=============================================================================
