-------------------------- MODULE Rendering_proofs ---------------------------
(***************************************************************************)
(* Rendering: the chunk cache and the threads of an interpolated read, for *)
(* any number of threads, chunks and sizes; the transforms of a package,   *)
(* for any number of pointers, identifiers and volumes; and what vc_render *)
(* makes of its options.                                                   *)
(***************************************************************************)
EXTENDS InterpolatedRead, RenderPipeline, FiniteSetTheorems, WellFoundedInduction, TLAPS

-----------------------------------------------------------------------------
(***************************************************************************)
(* Interpolated reads.                                                     *)
(***************************************************************************)
\* The mutex is held shared exactly between has() and the return of get(), where
\* the key stays in the store.
ReadersInv ==
    /\ readers = {t \in Threads : pc[t] = "get"}
    /\ \A t \in Threads : pc[t] = "get" => key[t] \in DOMAIN store

\* A stored chunk is a live one of its key.
StoreInv == \A k \in DOMAIN store : store[k] # Null => store[k] \in heap /\ store[k].key = k

\* A load gives a chunk that was never there before.
FreshInv == \A p \in heap : p.load <= loads[p.key]

\* A chunk in transit is live, its thread's own, and not yet in the store.
TransitInv ==
    \A t \in Threads : pc[t] = "put" /\ temp[t] # Null =>
        /\ temp[t] \in heap
        /\ temp[t].key = key[t]
        /\ \A u \in Threads \ {t} : pc[u] = "put" => temp[u] # temp[t]
        /\ \A k \in DOMAIN store : store[k] # temp[t]

Counted == heap \ InTransit

\* The chunks counted by stored.
CountInv ==
    /\ IsFiniteSet(Counted)
    /\ stored = Cardinality(Counted)

Inv ==
    /\ TypeOK
    /\ ReadersInv
    /\ StoreInv
    /\ FreshInv
    /\ TransitInv
    /\ CountInv

-----------------------------------------------------------------------------
\* A chunk is not the null pointer.
LEMMA ChunkNotNull == \A p \in Chunk : p # Null
  BY NullAssumption

\* Removing members of a finite set takes their number off its cardinality.
LEMMA RemoveCounted ==
    ASSUME NEW C, NEW D, IsFiniteSet(C), D \subseteq C
    PROVE  /\ IsFiniteSet(C \ D)
           /\ Cardinality(C \ D) = Cardinality(C) - Cardinality(D)
  <1>1. C \cap D = D
    OBVIOUS
  <1> QED
    BY <1>1, FS_Difference

\* The first read of a cache begins in the invariant.
LEMMA InitInv == ReadInit => Inv
  <1> SUFFICES ASSUME ReadInit PROVE Inv
    OBVIOUS
  <1> USE DEF ReadInit, CacheInit
  <1>1. DOMAIN store = {} /\ DOMAIN gen_store = {}
    OBVIOUS
  <1>2. TypeOK
    BY <1>1, MaxLookupsAssumption DEF TypeOK, Pointers
  <1>3. ReadersInv /\ StoreInv /\ FreshInv /\ TransitInv
    BY <1>1 DEF ReadersInv, StoreInv, FreshInv, TransitInv
  <1>4. CountInv
    <2>1. Counted = {}
      BY DEF Counted
    <2> QED
      BY <2>1, FS_EmptySet DEF CountInv
  <1> QED
    BY <1>2, <1>3, <1>4 DEF Inv

\* Steps that neither touch the cache nor begin or end a transit.
LEMMA LocalStep ==
    ASSUME Inv, TypeOK', ReadersInv', UNCHANGED cacheVars,
           \A t \in Threads : \/ pc[t] # "put" /\ pc'[t] # "put"
                              \/ pc'[t] = pc[t] /\ temp'[t] = temp[t] /\ key'[t] = key[t]
    PROVE  Inv'
  <1> USE DEF Inv, cacheVars
  <1>1. StoreInv' /\ FreshInv'
    BY DEF StoreInv, FreshInv
  <1>2. TransitInv'
    BY DEF TransitInv
  <1>3. InTransit' = InTransit
    BY DEF InTransit
  <1>4. CountInv'
    BY <1>3 DEF CountInv, Counted
  <1> QED
    BY <1>1, <1>2, <1>4

\* A thread moves from one pixel or neighbour to the next.
LEMMA PixelInv ==
    ASSUME Inv, NEW t \in Threads,
           \/ SamePixelChunk(t)
           \/ \E k \in Keys : NewPixelChunk(t, k)
           \/ UseNeighbour(t)
           \/ \E k \in Keys : UseAndLookUpNeighbour(t, k)
           \/ UsePixel(t)
    PROVE  Inv'
  <1> USE DEF SamePixelChunk, NewPixelChunk, UseNeighbour, UseAndLookUpNeighbour, UsePixel,
              LookUp, Goto, cacheVars
  <1>1. TypeOK
    BY DEF Inv
  <1>2. lookups' \in [Threads -> 0..MaxLookups]
    BY <1>1, MaxLookupsAssumption DEF TypeOK, Count
  <1>3. TypeOK'
    BY <1>1, <1>2 DEF TypeOK
  <1>4. ReadersInv'
    BY <1>1 DEF Inv, ReadersInv, TypeOK
  <1>5. UNCHANGED cacheVars
    OBVIOUS
  <1>6. \A u \in Threads : \/ pc[u] # "put" /\ pc'[u] # "put"
                           \/ pc'[u] = pc[u] /\ temp'[u] = temp[u] /\ key'[u] = key[u]
    BY <1>1 DEF TypeOK
  <1> HIDE DEF SamePixelChunk, NewPixelChunk, UseNeighbour, UseAndLookUpNeighbour, UsePixel,
              LookUp, Goto, cacheVars
  <1> QED
    BY <1>3, <1>4, <1>5, <1>6, LocalStep

\* has() finds the key and the thread joins the readers.
LEMMA HitInv ==
    ASSUME Inv, NEW t \in Threads, Hit(t)
    PROVE  Inv'
  <1> USE DEF Hit, Goto, cacheVars
  <1>1. TypeOK
    BY DEF Inv
  <1>2. TypeOK'
    BY <1>1 DEF TypeOK
  <1>3. ReadersInv'
    BY <1>1 DEF Inv, ReadersInv, TypeOK, Has
  <1>4. \A u \in Threads : \/ pc[u] # "put" /\ pc'[u] # "put"
                           \/ pc'[u] = pc[u] /\ temp'[u] = temp[u] /\ key'[u] = key[u]
    BY <1>1 DEF TypeOK
  <1>5. UNCHANGED cacheVars
    OBVIOUS
  <1> HIDE DEF Hit, Goto, cacheVars
  <1> QED
    BY <1>2, <1>3, <1>4, <1>5, LocalStep

\* get returns: only the generations change.
LEMMA GetInv ==
    ASSUME Inv, NEW t \in Threads, Get(t)
    PROVE  Inv'
  <1> USE DEF Get, Touch, Deliver, Goto
  <1>1. TypeOK /\ key[t] \in DOMAIN store /\ store[key[t]] \in Pointers
    BY DEF Inv, ReadersInv, TypeOK
  <1>2. PICK h \in {seen[t] + 1, generation} : gen_store' = [gen_store EXCEPT ![key[t]] = h]
    OBVIOUS
  <1>3. h \in Nat /\ DOMAIN gen_store' = DOMAIN store'
    BY <1>1, <1>2 DEF TypeOK
  <1>4. \A k \in DOMAIN gen_store' : gen_store'[k] \in Nat
    BY <1>1, <1>2, <1>3 DEF TypeOK
  <1>5. generation' \in Nat
    BY <1>1 DEF TypeOK
  <1>6. TypeOK'
    BY <1>1, <1>3, <1>4, <1>5 DEF TypeOK
  <1>7. ReadersInv'
    BY <1>1 DEF Inv, ReadersInv, TypeOK
  <1>8. StoreInv' /\ FreshInv'
    BY DEF Inv, StoreInv, FreshInv
  <1>9. \A u \in Threads : \/ pc[u] # "put" /\ pc'[u] # "put"
                           \/ pc'[u] = pc[u] /\ temp'[u] = temp[u] /\ key'[u] = key[u]
    BY <1>1 DEF TypeOK
  <1>10. TransitInv'
    BY <1>9 DEF Inv, TransitInv
  <1>11. InTransit' = InTransit
    BY <1>9 DEF InTransit
  <1>12. CountInv'
    BY <1>11 DEF Inv, CountInv, Counted
  <1> QED
    BY <1>6, <1>7, <1>8, <1>10, <1>12 DEF Inv

\* A chunk is read from the dataset: it is in transit until it is put.
LEMMA MissInv ==
    ASSUME Inv, NEW t \in Threads, Miss(t)
    PROVE  Inv'
  <1> USE DEF Miss, Goto
  <1>1. TypeOK /\ key[t] \in Keys
    BY DEF Inv, TypeOK
  <1>2. PICK p : ReadChunk(key[t], p) /\ temp' = [temp EXCEPT ![t] = p]
    OBVIOUS
  <1>3. CASE key[t] \in Missing
    <2>1. p = Null /\ UNCHANGED <<heap, loads>>
      BY <1>2, <1>3 DEF ReadChunk
    <2>2. TypeOK'
      BY <1>1, <1>2, <2>1 DEF TypeOK, Pointers
    <2>3. ReadersInv' /\ StoreInv' /\ FreshInv'
      BY <1>1, <2>1 DEF Inv, ReadersInv, StoreInv, FreshInv, TypeOK
    <2>4. TransitInv'
      BY <1>1, <1>2, <2>1 DEF Inv, TransitInv, TypeOK
    <2>5. InTransit' = InTransit \cup {Null}
      BY <1>1, <1>2, <2>1 DEF InTransit, TypeOK
    <2>6. Null \notin heap
      BY <1>1, ChunkNotNull DEF TypeOK
    <2>7. Counted' = Counted
      BY <2>1, <2>5, <2>6 DEF Counted
    <2> QED
      BY <2>2, <2>3, <2>4, <2>7 DEF Inv, CountInv
  <1>4. CASE key[t] \notin Missing
    <2>1. /\ p = [key |-> key[t], load |-> loads[key[t]] + 1]
          /\ heap' = heap \cup {p}
          /\ loads' = [loads EXCEPT ![key[t]] = @ + 1]
      BY <1>2, <1>4 DEF ReadChunk
    <2>2. loads[key[t]] \in Nat
      BY <1>1 DEF TypeOK
    <2>3. p \in Chunk /\ p # Null /\ p.key = key[t]
      BY <1>1, <2>1, <2>2, ChunkNotNull DEF Chunk
    <2>4. p \notin heap
      BY <2>1, <2>2 DEF Inv, FreshInv
    <2>5. \A u \in Threads : pc[u] = "put" => temp[u] # p
      BY <2>3, <2>4 DEF Inv, TransitInv
    <2>6. \A k \in DOMAIN store : store[k] # p
      BY <2>3, <2>4 DEF Inv, StoreInv
    <2>7. TypeOK'
      <3>1. loads' \in [Keys -> Nat]
        BY <1>1, <2>1, <2>2 DEF TypeOK
      <3> QED
        BY <1>1, <1>2, <2>1, <2>3, <3>1 DEF TypeOK, Pointers
    <2>8. ReadersInv' /\ StoreInv'
      BY <1>1, <2>1 DEF Inv, ReadersInv, StoreInv, TypeOK
    <2>9. FreshInv'
      <3>1. ASSUME NEW q \in heap PROVE q.load <= loads'[q.key]
        <4>1. q.load \in Nat /\ q.key \in Keys /\ loads[q.key] \in Nat /\ q.load <= loads[q.key]
          BY <1>1 DEF Inv, FreshInv, TypeOK, Chunk
        <4>2. loads'[q.key] = IF q.key = key[t] THEN loads[q.key] + 1 ELSE loads[q.key]
          BY <1>1, <2>1, <4>1 DEF TypeOK
        <4> QED
          BY <4>1, <4>2
      <3>2. p.load <= loads'[p.key]
        BY <1>1, <2>1, <2>2 DEF TypeOK
      <3> QED
        BY <2>1, <3>1, <3>2 DEF FreshInv
    <2>10. TransitInv'
      BY <1>1, <1>2, <2>1, <2>3, <2>5, <2>6 DEF Inv, TransitInv, TypeOK
    <2>11. InTransit' = InTransit \cup {p}
      BY <1>1, <1>2 DEF InTransit, TypeOK
    <2>12. Counted' = Counted
      BY <2>1, <2>4, <2>11 DEF Counted
    <2> QED
      BY <2>7, <2>8, <2>9, <2>10, <2>12 DEF Inv, CountInv
  <1> QED
    BY <1>3, <1>4

\* A read chunk is put: the chunks that go are counted ones, and the new one becomes
\* counted as it leaves transit.
LEMMA PutChunkInv ==
    ASSUME Inv, NEW t \in Threads, PutChunk(t)
    PROVE  Inv'
  <1> DEFINE k == key[t]
             p == temp[t]
  <1>1. TypeOK /\ k \in Keys /\ p \in Pointers /\ pc[t] = "put" /\ readers = {}
    BY DEF Inv, TypeOK, PutChunk
  <1>2. PICK E \in SUBSET DOMAIN store :
            /\ stored' = stored + Bytes(p) - Cardinality(ChunksOf(E))
            /\ heap' = heap \ ChunksOf(E)
            /\ store' = Update(Restrict(store, DOMAIN store \ E), k, p)
            /\ generation' = generation + 1
            /\ gen_store' = Update(Restrict(gen_store, DOMAIN gen_store \ E), k, generation')
            /\ UNCHANGED loads
    BY DEF PutChunk, Put
  <1> DEFINE D == ChunksOf(E)
  <1>3. /\ DOMAIN store' = (DOMAIN store \ E) \cup {k}
        /\ store'[k] = p
        /\ \A j \in DOMAIN store' : j # k => store'[j] = store[j]
    BY <1>2 DEF Update, Restrict
  <1>4. /\ DOMAIN gen_store' = DOMAIN store'
        /\ gen_store'[k] = generation + 1
        /\ \A j \in DOMAIN gen_store' : j # k => gen_store'[j] = gen_store[j]
    BY <1>1, <1>2, <1>3 DEF Update, Restrict, TypeOK
  <1>5. /\ pc' = [pc EXCEPT ![t] = "use"]
        /\ temp' = [temp EXCEPT ![t] = p]
        /\ chunk' \in [Threads -> Pointers]
        /\ UNCHANGED <<key, last, aim, seen, lookups, readers, raced>>
    BY <1>1 DEF PutChunk, Deliver, Goto, TypeOK
  <1>6. temp' = temp
    BY <1>1, <1>5 DEF TypeOK
  <1>7. /\ \A q \in D : q # p
        /\ p # Null => p \in heap /\ p.key = k
    BY <1>1 DEF Inv, TransitInv, ChunksOf
  <1>8. D \subseteq Counted
    <2>1. \A q \in D : q \in heap /\ q # Null
      BY DEF Inv, StoreInv, ChunksOf
    <2>2. \A q \in D : q \notin InTransit
      BY <2>1 DEF Inv, TransitInv, ChunksOf, InTransit
    <2> QED
      BY <2>1, <2>2 DEF Counted
  <1>9. Counted' = (IF p = Null THEN Counted ELSE Counted \cup {p}) \ D
    <2>1. Null \notin heap
      BY <1>1, ChunkNotNull DEF TypeOK
    <2>2. \A q \in heap : q \in InTransit' <=> q \in InTransit /\ q # p
      <3>1. \A u \in Threads : pc'[u] = "put" <=> pc[u] = "put" /\ u # t
        BY <1>1, <1>5 DEF TypeOK
      <3>2. \A u \in Threads \ {t} : pc[u] = "put" /\ temp[u] # Null => temp[u] # p
        BY <1>1 DEF Inv, TransitInv
      <3> QED
        BY <1>1, <1>6, <2>1, <3>1, <3>2 DEF InTransit
    <2> QED
      BY <1>2, <1>7, <2>1, <2>2 DEF Counted
  <1>10. CountInv' /\ stored' \in Nat
    <2> DEFINE C == IF p = Null THEN Counted ELSE Counted \cup {p}
    <2>1. IsFiniteSet(Counted) /\ stored = Cardinality(Counted) /\ stored \in Nat
      BY <1>1 DEF Inv, CountInv, TypeOK
    <2>2. p # Null => p \notin Counted
      BY <1>1 DEF Counted, InTransit
    <2>3. IsFiniteSet(C) /\ Cardinality(C) = stored + Bytes(p)
      <3>1. CASE p = Null
        BY <2>1, <3>1 DEF Bytes
      <3>2. CASE p # Null
        <4>1. /\ IsFiniteSet(Counted \cup {p})
              /\ Cardinality(Counted \cup {p}) = Cardinality(Counted) + 1
          BY <2>1, <2>2, <3>2, FS_AddElement
        <4> QED
          BY <2>1, <3>2, <4>1 DEF Bytes
      <3> QED
        BY <3>1, <3>2
    <2>4. D \subseteq C
      BY <1>8
    <2> HIDE DEF C, D
    <2>5. IsFiniteSet(C \ D) /\ Cardinality(C \ D) = stored + Bytes(p) - Cardinality(D)
      <3>1. IsFiniteSet(C \ D) /\ Cardinality(C \ D) = Cardinality(C) - Cardinality(D)
        BY <2>3, <2>4, RemoveCounted, Zenon
      <3>2. Cardinality(C) \in Nat /\ Cardinality(D) \in Nat
        BY <2>3, <2>4, FS_Subset, FS_CardinalityType
      <3>3. stored \in Nat /\ Bytes(p) \in Nat
        BY <2>1 DEF Bytes
      <3> QED
        BY <2>3, <3>1, <3>2, <3>3
    <2>6. Cardinality(C \ D) \in Nat
      BY <2>5, FS_CardinalityType
    <2>7. Counted' = C \ D
      BY <1>9 DEF C, D
    <2>8. stored' = Cardinality(C \ D)
      BY <1>2, <2>5 DEF D
    <2> QED
      BY <2>5, <2>6, <2>7, <2>8 DEF CountInv
  <1>11. TypeOK'
    <2>1. /\ DOMAIN store' \subseteq Keys
          /\ \A j \in DOMAIN store' : store'[j] \in Pointers
      BY <1>1, <1>3 DEF TypeOK
    <2>2. generation' \in Nat /\ \A j \in DOMAIN gen_store' : gen_store'[j] \in Nat
      <3>1. generation + 1 \in Nat /\ generation' = generation + 1
        BY <1>1, <1>2 DEF TypeOK
      <3>2. \A j \in DOMAIN gen_store' : j # k => j \in DOMAIN gen_store
        BY <1>1, <1>3, <1>4 DEF TypeOK
      <3>3. \A j \in DOMAIN gen_store' : j # k => gen_store'[j] \in Nat
        BY <1>1, <1>4, <3>2 DEF TypeOK
      <3> QED
        BY <1>4, <3>1, <3>3
    <2>3. heap' \subseteq Chunk /\ loads' \in [Keys -> Nat]
      BY <1>1, <1>2 DEF TypeOK
    <2> QED
      BY <1>1, <1>4, <1>5, <1>6, <1>10, <2>1, <2>2, <2>3 DEF TypeOK
  <1>12. ReadersInv'
    BY <1>1, <1>5 DEF Inv, ReadersInv, TypeOK
  <1>13. StoreInv'
    <2>1. ASSUME NEW j \in DOMAIN store', store'[j] # Null
          PROVE  store'[j] \in heap' /\ store'[j].key = j
      <3>1. CASE j = k
        BY <1>2, <1>3, <1>7, <2>1, <3>1
      <3>2. CASE j # k
        <4>1. j \in DOMAIN store \ E /\ store'[j] = store[j]
          BY <1>3, <3>2
        <4>2. store[j] \in heap /\ store[j].key = j
          BY <2>1, <4>1 DEF Inv, StoreInv
        <4>3. store[j] \notin D
          BY <4>1, <4>2 DEF Inv, StoreInv, ChunksOf
        <4> QED
          BY <1>2, <4>1, <4>2, <4>3
      <3> QED
        BY <3>1, <3>2
    <2> QED
      BY <2>1 DEF StoreInv
  <1>14. FreshInv'
    BY <1>2 DEF Inv, FreshInv
  <1>15. TransitInv'
    <2>1. ASSUME NEW u \in Threads, pc'[u] = "put", temp[u] # Null
          PROVE  /\ temp[u] \in heap'
                 /\ temp[u].key = key[u]
                 /\ \A v \in Threads \ {u} : pc'[v] = "put" => temp[v] # temp[u]
                 /\ \A j \in DOMAIN store' : store'[j] # temp[u]
      <3>1. u # t /\ pc[u] = "put"
        BY <1>1, <1>5, <2>1 DEF TypeOK
      <3>2. \A v \in Threads : pc'[v] = "put" => pc[v] = "put"
        BY <1>1, <1>5 DEF TypeOK
      <3>3. /\ temp[u] \in heap
            /\ temp[u].key = key[u]
            /\ \A v \in Threads \ {u} : pc[v] = "put" => temp[v] # temp[u]
            /\ \A j \in DOMAIN store : store[j] # temp[u]
        BY <2>1, <3>1 DEF Inv, TransitInv
      <3>4. temp[u] \notin D
        BY <3>3 DEF ChunksOf
      <3>5. p # temp[u]
        BY <1>1, <3>1, <3>3
      <3> QED
        BY <1>2, <1>3, <3>2, <3>3, <3>4, <3>5
    <2> QED
      BY <1>5, <1>6, <2>1 DEF TransitInv
  <1> QED
    BY <1>10, <1>11, <1>12, <1>13, <1>14, <1>15 DEF Inv

\* Every step of every thread keeps the invariant.
LEMMA NextInv == Inv /\ [ReadNext]_vars => Inv'
  <1> SUFFICES ASSUME Inv, [ReadNext]_vars PROVE Inv'
    OBVIOUS
  <1>1. CASE UNCHANGED vars
    <2>1. TypeOK' /\ ReadersInv'
      BY <1>1 DEF vars, locals, cacheVars, Inv, TypeOK, ReadersInv
    <2> QED
      BY <1>1, <2>1, LocalStep DEF vars, locals
  <1>2. ASSUME NEW t \in Threads,
               \/ SamePixelChunk(t)
               \/ \E k \in Keys : NewPixelChunk(t, k)
               \/ UseNeighbour(t)
               \/ \E k \in Keys : UseAndLookUpNeighbour(t, k)
               \/ UsePixel(t)
        PROVE  Inv'
    BY <1>2, PixelInv
  <1>3. ASSUME NEW t \in Threads, Miss(t) PROVE Inv'
    BY <1>3, MissInv
  <1>4. ASSUME NEW t \in Threads, PutChunk(t) PROVE Inv'
    BY <1>4, PutChunkInv
  <1>5. ASSUME NEW t \in Threads, Hit(t) PROVE Inv'
    BY <1>5, HitInv
  <1>6. ASSUME NEW t \in Threads, Get(t) PROVE Inv'
    BY <1>6, GetInv
  <1> QED
    BY <1>1, <1>2, <1>3, <1>4, <1>5, <1>6 DEF ReadNext, Finished

-----------------------------------------------------------------------------
\* The invariant holds of every read: loads that race for a key, evictions and
\* replacements leave the store, the heap and the count in agreement.
THEOREM ReadInvariant == ReadSpec => []Inv
  BY InitInv, NextInv, PTL DEF ReadSpec

\* Every variable keeps its type, and the store and the generations their keys.
THEOREM TypeCorrect == ReadSpec => []TypeOK
  <1>1. Inv => TypeOK
    BY DEF Inv
  <1> QED
    BY <1>1, ReadInvariant, PTL

\* No sequence of puts and gets leaves a deleted chunk in the store, so that get never
\* returns one and ~ChunkCache deletes none twice.
THEOREM StoreStaysLive == ReadSpec => []StoreIsLive
  <1>1. Inv => StoreIsLive
    BY DEF Inv, StoreInv, StoreIsLive
  <1> QED
    BY <1>1, ReadInvariant, PTL

\* _stored is the number of chunks put and not deleted, those included that a second
\* load of their key has pushed out of the store.
THEOREM StoredStaysCounted == ReadSpec => []StoredIsCounted
  <1>1. Inv => StoredIsCounted
    BY DEF Inv, CountInv, Counted, StoredIsCounted
  <1> QED
    BY <1>1, ReadInvariant, PTL

-----------------------------------------------------------------------------
\* Chunks in memory that neither the store nor a thread on its way to put holds.
Leaked == heap \ (ChunksOf(DOMAIN store) \cup InTransit)

\* Where a put can push a chunk out of the store, its key is raced: another load of
\* the key is under way, or has been put since this one missed.
RacedInv ==
    /\ \A t \in Threads : \A u \in Threads \ {t} :
           pc[t] = "put" /\ pc[u] = "put" /\ key[t] = key[u] => key[t] \in raced
    /\ \A t \in Threads : pc[t] = "put" /\ Has(key[t]) => key[t] \in raced
    /\ \A p \in Leaked : p.key \in raced

\* At first nothing is loaded.
LEMMA InitRaced == ReadInit => RacedInv
  BY DEF ReadInit, CacheInit, RacedInv, Leaked, Has

\* Steps that leave the chunks and the loads under way alone.
LEMMA LocalRaced ==
    ASSUME RacedInv, UNCHANGED <<store, heap, raced>>,
           \A t \in Threads : \/ pc[t] # "put" /\ pc'[t] # "put"
                              \/ pc'[t] = pc[t] /\ temp'[t] = temp[t] /\ key'[t] = key[t]
    PROVE  RacedInv'
  <1>1. InTransit' = InTransit /\ ChunksOf(DOMAIN store)' = ChunksOf(DOMAIN store)
    BY DEF InTransit, ChunksOf
  <1>2. Leaked' = Leaked
    BY <1>1 DEF Leaked
  <1> QED
    BY <1>2 DEF RacedInv, Has

\* A miss finds nothing stored; loads of the key under way make it raced.
LEMMA MissRaced ==
    ASSUME Inv, RacedInv, NEW t \in Threads, Miss(t)
    PROVE  RacedInv'
  <1>1. PICK p : ReadChunk(key[t], p) /\ temp' = [temp EXCEPT ![t] = p]
    BY DEF Miss
  <1>2. /\ pc' = [pc EXCEPT ![t] = "put"]
        /\ pc[t] = "find"
        /\ ~Has(key[t])
        /\ key' = key
        /\ store' = store
        /\ raced \subseteq raced'
        /\ \A u \in Threads : pc[u] = "put" /\ key[u] = key[t] => key[t] \in raced'
    BY DEF Miss, Goto
  <1>3. TypeOK
    BY DEF Inv
  <1>4. \A u \in Threads : u # t => pc'[u] = pc[u] /\ temp'[u] = temp[u]
    BY <1>1, <1>2, <1>3 DEF TypeOK
  <1>5. \A q \in Leaked' : q \in Leaked
    <2>1. pc'[t] = "put" /\ temp'[t] = p
      BY <1>1, <1>2, <1>3 DEF TypeOK
    <2>2. heap' \subseteq heap \cup {p}
      BY <1>1 DEF ReadChunk
    <2>3. p \in InTransit'
      BY <2>1 DEF InTransit
    <2>4. InTransit \subseteq InTransit'
      BY <1>2, <1>4 DEF InTransit
    <2>5. ChunksOf(DOMAIN store)' = ChunksOf(DOMAIN store)
      BY <1>2 DEF ChunksOf
    <2> QED
      BY <2>2, <2>3, <2>4, <2>5 DEF Leaked
  <1>6. \A q \in Leaked' : q.key \in raced'
    BY <1>2, <1>5 DEF RacedInv
  <1>7. ASSUME NEW u \in Threads, pc'[u] = "put", Has(key[u])' PROVE key'[u] \in raced'
    <2>1. u # t /\ pc[u] = "put" /\ Has(key[u])
      BY <1>2, <1>4, <1>7 DEF Has
    <2> QED
      BY <1>2, <2>1 DEF RacedInv
  <1>8. ASSUME NEW u \in Threads, NEW v \in Threads \ {u},
               pc'[u] = "put", pc'[v] = "put", key'[u] = key'[v]
        PROVE  key'[u] \in raced'
    <2>1. CASE u # t /\ v # t
      BY <1>2, <1>4, <1>8, <2>1 DEF RacedInv
    <2>2. CASE u = t \/ v = t
      BY <1>2, <1>4, <1>8, <2>2
    <2> QED
      BY <2>1, <2>2
  <1> QED
    BY <1>6, <1>7, <1>8 DEF RacedInv

\* A put pushes a chunk out of the store only under a raced key.
LEMMA PutRaced ==
    ASSUME Inv, RacedInv, NEW t \in Threads, PutChunk(t)
    PROVE  RacedInv'
  <1>1. PICK E \in SUBSET DOMAIN store :
            /\ heap' = heap \ ChunksOf(E)
            /\ store' = Update(Restrict(store, DOMAIN store \ E), key[t], temp[t])
    BY DEF PutChunk, Put
  <1>2. /\ DOMAIN store' = (DOMAIN store \ E) \cup {key[t]}
        /\ store'[key[t]] = temp[t]
        /\ \A j \in DOMAIN store' : j # key[t] => store'[j] = store[j]
    BY <1>1 DEF Update, Restrict
  <1>3. /\ pc' = [pc EXCEPT ![t] = "use"]
        /\ temp' = [temp EXCEPT ![t] = temp[t]]
        /\ UNCHANGED <<key, raced>>
        /\ pc[t] = "put"
    BY DEF PutChunk, Deliver, Goto
  <1>4. TypeOK
    BY DEF Inv
  <1>5. /\ temp' = temp
        /\ \A u \in Threads : pc'[u] = "put" <=> pc[u] = "put" /\ u # t
    BY <1>3, <1>4 DEF TypeOK
  <1>6. ASSUME NEW u \in Threads, pc'[u] = "put", Has(key[u])' PROVE key'[u] \in raced'
    <2>1. CASE key[u] = key[t]
      BY <1>3, <1>5, <1>6, <2>1 DEF RacedInv
    <2>2. CASE key[u] # key[t]
      <3>1. Has(key[u])
        BY <1>2, <1>3, <1>6, <2>2 DEF Has
      <3> QED
        BY <1>3, <1>5, <1>6, <3>1 DEF RacedInv
    <2> QED
      BY <2>1, <2>2
  <1>7. ASSUME NEW u \in Threads, NEW v \in Threads \ {u},
               pc'[u] = "put", pc'[v] = "put", key'[u] = key'[v]
        PROVE  key'[u] \in raced'
    BY <1>3, <1>5, <1>7 DEF RacedInv
  <1>8. ASSUME NEW q \in Leaked' PROVE q.key \in raced'
    <2>1. q \in heap /\ q \notin ChunksOf(E) /\ q # Null
      <3>1. Null \notin heap
        BY <1>4, ChunkNotNull DEF TypeOK
      <3> QED
        BY <1>1, <1>8, <3>1 DEF Leaked
    <2>2. /\ \A j \in DOMAIN store' : store'[j] # q
          /\ \A u \in Threads : pc'[u] = "put" => temp'[u] # q
      BY <1>8, <2>1 DEF Leaked, ChunksOf, InTransit
    <2>3. q # temp[t]
      BY <1>2, <2>2
    <2>4. q \notin InTransit
      BY <1>5, <2>2, <2>3 DEF InTransit
    <2>5. CASE q \in ChunksOf(DOMAIN store)
      <3>1. PICK j \in DOMAIN store : q = store[j]
        BY <2>5 DEF ChunksOf
      <3>2. j \notin E
        BY <2>1, <3>1 DEF ChunksOf
      <3>3. j = key[t]
        BY <1>2, <2>2, <3>1, <3>2
      <3>4. q.key = key[t] /\ Has(key[t])
        BY <2>1, <3>1, <3>3 DEF Inv, StoreInv, Has
      <3> QED
        BY <1>3, <3>4 DEF RacedInv
    <2>6. CASE q \notin ChunksOf(DOMAIN store)
      <3>1. q \in Leaked
        BY <2>1, <2>4, <2>6 DEF Leaked
      <3> QED
        BY <1>3, <3>1 DEF RacedInv
    <2> QED
      BY <2>5, <2>6
  <1> QED
    BY <1>6, <1>7, <1>8 DEF RacedInv

\* Every step keeps the raced keys in order.
LEMMA NextRaced == Inv /\ RacedInv /\ [ReadNext]_vars => RacedInv'
  <1> SUFFICES ASSUME Inv, RacedInv, [ReadNext]_vars PROVE RacedInv'
    OBVIOUS
  <1>1. TypeOK
    BY DEF Inv
  <1>2. CASE UNCHANGED vars
    BY <1>2, LocalRaced DEF vars, locals, cacheVars
  <1>3. ASSUME NEW t \in Threads,
               \/ SamePixelChunk(t)
               \/ \E k \in Keys : NewPixelChunk(t, k)
               \/ UseNeighbour(t)
               \/ \E k \in Keys : UseAndLookUpNeighbour(t, k)
               \/ UsePixel(t)
               \/ Hit(t)
        PROVE  RacedInv'
    <2>1. UNCHANGED <<store, heap, raced>>
      BY <1>3 DEF SamePixelChunk, NewPixelChunk, UseNeighbour, UseAndLookUpNeighbour,
                  UsePixel, Hit, cacheVars
    <2>2. \A u \in Threads : \/ pc[u] # "put" /\ pc'[u] # "put"
                             \/ pc'[u] = pc[u] /\ temp'[u] = temp[u] /\ key'[u] = key[u]
      BY <1>1, <1>3 DEF SamePixelChunk, NewPixelChunk, UseNeighbour, UseAndLookUpNeighbour,
                        UsePixel, Hit, LookUp, Goto, TypeOK
    <2> QED
      BY <2>1, <2>2, LocalRaced
  <1>4. ASSUME NEW t \in Threads, Get(t) PROVE RacedInv'
    <2>1. UNCHANGED <<store, heap, raced>>
      BY <1>4 DEF Get, Touch
    <2>2. \A u \in Threads : \/ pc[u] # "put" /\ pc'[u] # "put"
                             \/ pc'[u] = pc[u] /\ temp'[u] = temp[u] /\ key'[u] = key[u]
      BY <1>1, <1>4 DEF Get, Deliver, Goto, TypeOK
    <2> QED
      BY <2>1, <2>2, LocalRaced
  <1>5. ASSUME NEW t \in Threads, Miss(t) PROVE RacedInv'
    BY <1>5, MissRaced
  <1>6. ASSUME NEW t \in Threads, PutChunk(t) PROVE RacedInv'
    BY <1>6, PutRaced
  <1> QED
    BY <1>2, <1>3, <1>4, <1>5, <1>6 DEF ReadNext, Finished

\* A chunk is lost only under a key of which two loads were under way at once, and
\* the store never holds a chunk that was deleted.
THEOREM OnlyRacesLeak == ReadSpec => []OnlyDoubleLoadsLeak
  <1>1. Inv /\ RacedInv => OnlyDoubleLoadsLeak
    BY DEF Inv, StoreInv, StoreIsLive, RacedInv, Leaked, OnlyDoubleLoadsLeak
  <1>2. ReadSpec => []RacedInv
    BY InitRaced, NextRaced, ReadInvariant, PTL DEF ReadSpec
  <1> QED
    BY <1>1, <1>2, ReadInvariant, PTL

-----------------------------------------------------------------------------
(***************************************************************************)
(* The transforms on the heap.                                             *)
(***************************************************************************)
\* A set of natural numbers has a least element.
LEMMA MinIsMember ==
    ASSUME NEW S, S \subseteq Nat, S # {}
    PROVE  Min(S) \in S
  <1>1. PICK x \in S : \A y \in S : ~ (<<y, x>> \in OpToRel(<, Nat))
    BY NatLessThanWellFounded, WFMin, Zenon
  <1>2. \A y \in S : x <= y
    <2> SUFFICES ASSUME NEW y \in S PROVE x <= y
      OBVIOUS
    <2>1. x \in Nat /\ y \in Nat
      OBVIOUS
    <2>2. ~(y < x)
      BY <1>1, <2>1, Zenon DEF OpToRel
    <2> QED
      BY <2>1, <2>2
  <1> QED
    BY <1>2 DEF Min

\* What holds of 0, and of the next number with each below n, holds up to n.
LEMMA Climb ==
    ASSUME NEW n \in Nat, NEW S, 0 \in S, \A k \in 0..(n - 1) : k \in S => k + 1 \in S
    PROVE  0..n \subseteq S
  <1> DEFINE T == (0..n) \ S
  <1> SUFFICES ASSUME T # {} PROVE FALSE
    OBVIOUS
  <1>1. T \subseteq Nat
    OBVIOUS
  <1>2. PICK m \in T : \A k \in T : ~ (<<k, m>> \in OpToRel(<, Nat))
    BY <1>1, NatLessThanWellFounded, WFMin, Zenon
  <1>3. m \in Nat /\ m # 0 /\ m <= n /\ m \notin S
    <2>1. m \in T
      BY <1>2, Zenon
    <2> QED
      BY <2>1
  <1>4. m - 1 \in 0..(n - 1) /\ m - 1 < m /\ m - 1 \in Nat
    BY <1>3
  <1>5. m - 1 \notin T
    BY <1>2, <1>3, <1>4, Zenon DEF OpToRel
  <1>6. m - 1 \in S
    BY <1>3, <1>4, <1>5
  <1> QED
    BY <1>3, <1>4, <1>6

\* A function can be defined by what it is at 0 and how each of its values follows from
\* the one before.
LEMMA StepsDefine ==
    ASSUME NEW A, NEW b \in A, NEW n \in Nat, NEW next \in [1..n -> [A -> A]]
    PROVE  \E f \in [0..n -> A] : f[0] = b /\ \A k \in 1..n : f[k] = next[k][f[k - 1]]
  <1> DEFINE Upto(m) == {f \in [0..m -> A] : f[0] = b /\ \A k \in 1..m : f[k] = next[k][f[k - 1]]}
             S == {m \in 0..n : Upto(m) # {}}
  <1>1. 0 \in S
    <2>1. [k \in 0..0 |-> b] \in Upto(0)
      OBVIOUS
    <2> QED
      BY <2>1
  <1>2. ASSUME NEW m \in 0..(n - 1), m \in S PROVE m + 1 \in S
    <2>1. PICK f \in Upto(m) : TRUE
      BY <1>2
    <2>2. f \in [0..m -> A] /\ f[0] = b /\ \A k \in 1..m : f[k] = next[k][f[k - 1]]
      BY <2>1
    <2>3. m \in Nat /\ m + 1 \in 1..n
      BY <1>2
    <2>4. PICK x \in A : x = next[m + 1][f[m]]
      <3>1. f[m] \in A
        BY <2>2, <2>3
      <3> QED
        BY <2>3, <3>1
    <2>5. PICK g : g = [k \in 0..(m + 1) |-> IF k = m + 1 THEN x ELSE f[k]]
      OBVIOUS
    <2>6. g \in [0..(m + 1) -> A] /\ \A k \in 0..m : g[k] = f[k]
      BY <2>2, <2>3, <2>5
    <2>7. g[0] = b /\ g[m + 1] = x
      BY <2>2, <2>3, <2>5
    <2>8. ASSUME NEW k \in 1..(m + 1) PROVE g[k] = next[k][g[k - 1]]
      <3>1. CASE k = m + 1
        <4>1. g[k - 1] = f[m]
          BY <2>3, <2>6, <3>1
        <4> QED
          BY <2>4, <2>7, <3>1, <4>1
      <3>2. CASE k # m + 1
        <4>1. k \in 1..m /\ k - 1 \in 0..m /\ k \in 0..m
          BY <2>3, <3>2
        <4> QED
          BY <2>2, <2>6, <4>1
      <3> QED
        BY <3>1, <3>2
    <2>9. g \in Upto(m + 1)
      BY <2>6, <2>7, <2>8
    <2> QED
      BY <2>3, <2>9
  <1> HIDE DEF Upto
  <1>3. S = {m \in 0..n : Upto(m) # {}}
    OBVIOUS
  <1> HIDE DEF S
  <1>4. 0..n \subseteq S
    BY <1>1, <1>2, Climb
  <1>5. PICK f : f \in Upto(n)
    BY <1>3, <1>4
  <1> QED
    BY <1>5 DEF Upto

-----------------------------------------------------------------------------
\* Affine maps and their products.
LEMMA MapsCompose ==
    /\ Identity \in Maps
    /\ \A f, g \in Maps : Then(f, g) \in Maps
    /\ \A f \in Maps : /\ InverseMap(f) \in Maps
                       /\ Then(f, Identity) = f /\ Then(Identity, f) = f
    /\ \A f, g, h \in Maps : Then(Then(f, g), h) = Then(f, Then(g, h))
  <1>1. \A a, b \in {1, 2} : /\ (b * a) % 3 \in {1, 2} /\ (1 * a) % 3 = a /\ (a * 1) % 3 = a
                            /\ \A c \in {1, 2} : (c * ((b * a) % 3)) % 3 = (((c * b) % 3) * a) % 3
    OBVIOUS
  <1>2. \A x, y \in 0..2 : /\ (x + y) % 3 \in 0..2 /\ (x + 0) % 3 = x /\ (0 + x) % 3 = x
                           /\ (3 - x) % 3 \in 0..2
                           /\ \A z \in 0..2 : (((x + y) % 3) + z) % 3 = (x + ((y + z) % 3)) % 3
    OBVIOUS
  <1>3. \A a \in {1, 2} : \A x, y \in 0..2 :
            /\ (a * x + y) % 3 \in 0..2 /\ (a * (3 - x)) % 3 \in 0..2
            /\ (1 * x + 0) % 3 = x /\ (a * 0 + x) % 3 = x
    OBVIOUS
  <1>4. \A b, c \in {1, 2} : \A x, y, z \in 0..2 :
            (c * ((b * x + y) % 3) + z) % 3 = (((c * b) % 3) * x + ((c * y + z) % 3)) % 3
    OBVIOUS
  <1>5. \A f \in Maps : /\ f[1] \in {1, 2} /\ f[2] \in 0..2 /\ f[3] \in 0..2
                        /\ f = <<f[1], f[2], f[3]>>
    BY DEF Maps
  <1>6. Identity \in Maps
    BY DEF Identity, Maps
  <1>7. \A f, g \in Maps : Then(f, g) \in Maps
    BY <1>1, <1>2, <1>3, <1>5 DEF Then, Maps
  <1>8. \A f \in Maps : InverseMap(f) \in Maps
    BY <1>2, <1>3, <1>5 DEF InverseMap, Maps
  <1>9. ASSUME NEW f \in Maps PROVE Then(f, Identity) = f /\ Then(Identity, f) = f
    BY <1>1, <1>2, <1>3, <1>5 DEF Then, Identity
  <1>10. ASSUME NEW f \in Maps, NEW g \in Maps, NEW h \in Maps
         PROVE  Then(Then(f, g), h) = Then(f, Then(g, h))
    <2> QED
      BY <1>1, <1>2, <1>4, <1>5 DEF Then
  <1> QED
    BY <1>6, <1>7, <1>8, <1>9, <1>10

\* The run of InTurn over a sequence of maps.
Run(f, maps) ==
    /\ f \in [0..Len(maps) -> Maps]
    /\ f[0] = Identity
    /\ \A n \in 1..Len(maps) : f[n] = Then(f[n - 1], maps[n])

LEMMA InTurnRuns ==
    ASSUME NEW maps \in Seq(Maps)
    PROVE  \E f : Run(f, maps) /\ InTurn(maps) = f[Len(maps)]
  <1> DEFINE L == Len(maps)
             Rec(f) == f = [n \in 0..L |-> IF n = 0 THEN Identity ELSE Then(f[n - 1], maps[n])]
             h == CHOOSE f : Rec(f)
  <1>1. /\ L \in Nat /\ Identity \in Maps /\ \A n \in 1..L : maps[n] \in Maps
        /\ \A f, g \in Maps : Then(f, g) \in Maps
    BY MapsCompose
  <1>2. \E f : Rec(f)
    <2>1. PICK next : next = [k \in 1..L |-> [x \in Maps |-> Then(x, maps[k])]]
      OBVIOUS
    <2>2. next \in [1..L -> [Maps -> Maps]]
      BY <1>1, <2>1, MapsCompose
    <2>3. PICK f \in [0..L -> Maps] : f[0] = Identity /\ \A k \in 1..L : f[k] = next[k][f[k - 1]]
      <3>1. L \in Nat /\ Identity \in Maps
        BY <1>1
      <3> HIDE DEF L
      <3> QED
        BY <2>2, <3>1, StepsDefine
    <2>4. ASSUME NEW k \in 1..L PROVE f[k] = Then(f[k - 1], maps[k])
      <3>1. f[k - 1] \in Maps /\ f[k] = next[k][f[k - 1]]
        BY <1>1, <2>3
      <3> QED
        BY <2>1, <3>1
    <2>5. Rec(f)
      BY <1>1, <2>3, <2>4
    <2> QED
      BY <2>5
  <1>3. Rec(h)
    BY <1>2
  <1>4. InTurn(maps) = h[L]
    BY DEF InTurn
  <1> HIDE DEF h
  <1>5. DOMAIN h = 0..L /\ h[0] = Identity /\ \A n \in 1..L : h[n] = Then(h[n - 1], maps[n])
    BY <1>1, <1>3
  <1>6. PICK S : S = {k \in 0..L : h[k] \in Maps}
    OBVIOUS
  <1>7. ASSUME NEW k \in 0..(L - 1), k \in S PROVE k + 1 \in S
    <2>1. k + 1 \in 1..L /\ k + 1 - 1 = k /\ k + 1 \in 0..L
      BY <1>1
    <2>2. h[k] \in Maps /\ maps[k + 1] \in Maps /\ h[k + 1] = Then(h[k], maps[k + 1])
      BY <1>1, <1>5, <1>6, <1>7, <2>1
    <2> QED
      BY <1>1, <1>6, <2>1, <2>2
  <1>8. 0..L \subseteq S
    <2>1. 0 \in S
      BY <1>1, <1>5, <1>6
    <2> HIDE DEF L
    <2> QED
      BY <1>1, <1>7, <2>1, Climb
  <1>9. h \in [0..L -> Maps]
    BY <1>3, <1>6, <1>8
  <1> QED
    BY <1>4, <1>5, <1>9 DEF Run

LEMMA InTurnExtends ==
    ASSUME NEW maps \in Seq(Maps), NEW m \in Maps
    PROVE  /\ InTurn(maps) \in Maps
           /\ InTurn(<<>>) = Identity
           /\ InTurn(Append(maps, m)) = Then(InTurn(maps), m)
  <1>1. PICK f : Run(f, maps) /\ InTurn(maps) = f[Len(maps)]
    BY InTurnRuns
  <1>2. PICK more : more = Append(maps, m)
    OBVIOUS
  <1>3. /\ more \in Seq(Maps) /\ Len(more) = Len(maps) + 1
        /\ more[Len(maps) + 1] = m /\ \A n \in 1..Len(maps) : more[n] = maps[n]
    BY <1>2
  <1>4. PICK g : Run(g, more) /\ InTurn(more) = g[Len(more)]
    BY <1>3, InTurnRuns
  <1>5. InTurn(maps) \in Maps
    BY <1>1 DEF Run
  <1>6. InTurn(<<>>) = Identity
    <2>1. <<>> \in Seq(Maps) /\ Len(<<>>) = 0
      OBVIOUS
    <2> QED
      BY <2>1, InTurnRuns DEF Run
  <1>7. PICK L \in Nat : L = Len(maps)
    OBVIOUS
  <1>8. PICK S : S = {k \in 0..L : f[k] = g[k]}
    OBVIOUS
  <1>9. 0 \in S
    BY <1>1, <1>4, <1>7, <1>8 DEF Run
  <1>10. ASSUME NEW k \in 0..(L - 1), k \in S PROVE k + 1 \in S
    <2>1. k + 1 \in 1..Len(maps) /\ k + 1 \in 1..Len(more) /\ k + 1 - 1 = k /\ k + 1 \in 0..L
      BY <1>3, <1>7
    <2>2. f[k + 1] = Then(f[k], maps[k + 1]) /\ g[k + 1] = Then(g[k], more[k + 1])
      BY <1>1, <1>4, <2>1 DEF Run
    <2> QED
      BY <1>3, <1>8, <1>10, <2>1, <2>2
  <1>11. L \in S
    <2>1. 0..L \subseteq S
      BY <1>9, <1>10, Climb
    <2> QED
      BY <2>1
  <1>12. g[L + 1] = Then(g[L], m)
    BY <1>3, <1>4, <1>7 DEF Run
  <1> QED
    BY <1>1, <1>2, <1>3, <1>4, <1>5, <1>6, <1>7, <1>8, <1>11, <1>12

-----------------------------------------------------------------------------
\* The parts of a stack.
LEMMA PlainParts ==
    ASSUME NEW p \in Plain
    PROVE  /\ ~IsStack(p) /\ p \in Parts /\ p \in Saved /\ p \in Transforms
           /\ p.map \in Maps /\ PartMap(p) = p.map /\ PointMap(p) = p.map /\ p.parts = <<>>
  BY DEF Plain, IsStack, Parts, Saved, Transforms, PartMap, PointMap

LEMMA StackedParts ==
    ASSUME NEW p \in StacksOf(Plain)
    PROVE  /\ IsStack(p) /\ p \in Parts /\ p.parts \in Seq(Plain) /\ PartMap(p) \in Maps
           /\ p.parts = <<>> => PartMap(p) = Identity
  <1>1. IsStack(p) /\ p \in Parts /\ p.parts \in Seq(Plain)
    BY DEF StacksOf, IsStack, Parts
  <1>2. PICK maps : maps = [n \in DOMAIN p.parts |-> p.parts[n].map]
    OBVIOUS
  <1>3. \A n \in DOMAIN p.parts : p.parts[n].map \in Maps
    BY <1>1, PlainParts
  <1>4. maps \in Seq(Maps) /\ (p.parts = <<>> => maps = <<>>)
    BY <1>1, <1>2, <1>3
  <1>5. PartMap(p) = InTurn(maps)
    BY <1>1, <1>2 DEF PartMap
  <1>6. Identity \in Maps
    BY MapsCompose
  <1> QED
    BY <1>1, <1>4, <1>5, <1>6, InTurnExtends

LEMMA PartsMap ==
    ASSUME NEW p \in Parts
    PROVE  PartMap(p) \in Maps /\ (Composable(p) => p \in Plain)
  BY PlainParts, StackedParts DEF Parts, Composable

LEMMA PartsInTurn ==
    ASSUME NEW parts \in Seq(Parts)
    PROVE  /\ PartMaps(parts) \in Seq(Maps) /\ Len(PartMaps(parts)) = Len(parts)
           /\ \A n \in 1..Len(parts) : PartMaps(parts)[n] = PartMap(parts[n])
           /\ InTurn(PartMaps(parts)) \in Maps
           /\ InTurn(PartMaps(<<>>)) = Identity
           /\ \A p \in Parts : InTurn(PartMaps(Append(parts, p))) =
                                  Then(InTurn(PartMaps(parts)), PartMap(p))
  <1>1. \A n \in 1..Len(parts) : PartMap(parts[n]) \in Maps
    BY PartsMap
  <1>2. DOMAIN parts = 1..Len(parts) /\ Len(parts) \in Nat
    OBVIOUS
  <1>3. PartMaps(parts) = [n \in 1..Len(parts) |-> PartMap(parts[n])]
    BY <1>2 DEF PartMaps
  <1>4. PartMaps(parts) \in Seq(Maps) /\ Len(PartMaps(parts)) = Len(parts)
    BY <1>1, <1>2, <1>3
  <1>5. PartMaps(<<>>) = <<>>
    BY DEF PartMaps
  <1>6. ASSUME NEW p \in Parts PROVE PartMaps(Append(parts, p)) = Append(PartMaps(parts), PartMap(p))
    <2>1. PICK more : more = Append(parts, p)
      OBVIOUS
    <2>2. /\ DOMAIN more = 1..(Len(parts) + 1) /\ more[Len(parts) + 1] = p
          /\ \A n \in 1..Len(parts) : more[n] = parts[n]
      BY <1>2, <2>1
    <2>3. PICK m : m = PartMap(p)
      OBVIOUS
    <2>4. PartMaps(more) = [n \in 1..(Len(parts) + 1) |-> PartMap(more[n])]
      BY <2>2 DEF PartMaps
    <2>5. \A n \in 1..(Len(parts) + 1) :
             PartMap(more[n]) = IF n = Len(parts) + 1 THEN m ELSE PartMap(parts[n])
      BY <1>2, <2>2, <2>3
    <2>6. PartMaps(more) = [n \in 1..(Len(parts) + 1) |->
                               IF n = Len(parts) + 1 THEN m ELSE PartMaps(parts)[n]]
      BY <1>2, <1>3, <2>4, <2>5
    <2>7. PICK maps \in Seq(Maps) : maps = PartMaps(parts)
      BY <1>4
    <2>8. Append(maps, m) = [n \in 1..(Len(parts) + 1) |->
                               IF n = Len(parts) + 1 THEN m ELSE maps[n]]
      <3>1. m \in Maps /\ Len(maps) = Len(parts)
        BY <1>4, <2>3, <2>7, PartsMap
      <3>2. PICK s : s = Append(maps, m)
        OBVIOUS
      <3>3. /\ s \in Seq(Maps) /\ Len(s) = Len(parts) + 1
            /\ \A n \in 1..(Len(parts) + 1) : s[n] = IF n = Len(parts) + 1 THEN m ELSE maps[n]
        BY <3>1, <3>2
      <3>4. s = [n \in 1..(Len(parts) + 1) |-> s[n]]
        BY <3>3
      <3> QED
        BY <3>2, <3>3, <3>4
    <2> QED
      BY <2>1, <2>3, <2>6, <2>7, <2>8
  <1>7. Identity \in Maps
    BY MapsCompose
  <1>8. InTurn(PartMaps(parts)) \in Maps /\ InTurn(<<>>) = Identity
    BY <1>4, <1>7, InTurnExtends
  <1>9. ASSUME NEW p \in Parts
        PROVE  InTurn(PartMaps(Append(parts, p))) = Then(InTurn(PartMaps(parts)), PartMap(p))
    <2>1. PartMap(p) \in Maps
      BY PartsMap
    <2> QED
      BY <1>4, <1>6, <2>1, InTurnExtends
  <1> QED
    BY <1>2, <1>3, <1>4, <1>5, <1>8, <1>9

\* Composing two transforms of one map each.
LEMMA PlainComposed ==
    ASSUME NEW l \in Plain, NEW r \in Plain
    PROVE  ComposeTfms(l, r) \in Plain /\ ComposeTfms(l, r).map = Then(l.map, r.map)
  <1>1. Then(l.map, r.map) \in Maps
    BY PlainParts, MapsCompose
  <1>2. PICK m : m = Then(l.map, r.map)
    OBVIOUS
  <1> QED
    BY <1>1, <1>2 DEF Plain, ComposeTfms, Tfm

-----------------------------------------------------------------------------
\* simplify(): where it stands after some of the parts.
Accs == {a \in [done : Seq(Parts), lhs : Parts \cup {None}] : a.lhs = None => a.done = <<>>}
Start == [done |-> <<>>, lhs |-> None]

\* Parts with nullptr at the head at most.
HeadMayBeNull(parts) ==
    parts \in Seq(Parts \cup {None}) /\ \A n \in DOMAIN parts : parts[n] = None => n = 1

Simplifies(f, parts) ==
    /\ f \in [0..Len(parts) -> Accs]
    /\ f[0] = Start
    /\ \A n \in 1..Len(parts) : f[n] = SimplifyStep(f[n - 1], parts[n])

LEMMA NoneIsNoPart == None \notin Parts /\ None \notin Plain
  BY NoneAssumption DEF Transforms, Parts, StacksOf

LEMMA SimplifyStepTypes ==
    ASSUME NEW a \in Accs, NEW p \in Parts \cup {None}, p = None => a = Start
    PROVE  SimplifyStep(a, p) \in Accs /\ (p # None => SimplifyStep(a, p).lhs # None)
  <1>0. a = [done |-> a.done, lhs |-> a.lhs] /\ a.done \in Seq(Parts) /\ a.lhs \in Parts \cup {None}
        /\ (a.lhs = None => a.done = <<>>)
    BY DEF Accs
  <1>1. CASE a.lhs = None
    <2>1. SimplifyStep(a, p) = [done |-> a.done, lhs |-> p]
      BY <1>0, <1>1 DEF SimplifyStep
    <2> QED
      BY <1>0, <1>1, <2>1 DEF Accs
  <1>2. CASE a.lhs # None
    <2>0. p \in Parts /\ a.lhs \in Parts
      BY <1>0, <1>2 DEF Start
    <2>1. CASE Composable(a.lhs) /\ Composable(p)
      <3>1. PICK c \in Plain : c = ComposeTfms(a.lhs, p)
        BY <2>0, <2>1, PartsMap, PlainComposed
      <3>2. SimplifyStep(a, p) = [done |-> a.done, lhs |-> c]
        BY <1>0, <1>2, <2>1, <3>1 DEF SimplifyStep
      <3> QED
        BY <1>0, <3>1, <3>2, NoneIsNoPart DEF Accs, Parts
    <2>2. CASE ~(Composable(a.lhs) /\ Composable(p))
      <3>1. SimplifyStep(a, p) = [done |-> Append(a.done, a.lhs), lhs |-> p]
        BY <1>2, <2>2 DEF SimplifyStep
      <3>2. Append(a.done, a.lhs) \in Seq(Parts)
        BY <1>0, <2>0
      <3> QED
        BY <2>0, <3>1, <3>2, NoneIsNoPart DEF Accs
    <2> QED
      BY <2>1, <2>2
  <1> QED
    BY <1>1, <1>2

LEMMA SimplifyRuns ==
    ASSUME NEW parts, HeadMayBeNull(parts)
    PROVE  \E f : Simplifies(f, parts)
                 /\ Simplified(parts) = Append(f[Len(parts)].done, f[Len(parts)].lhs)
  <1> DEFINE L == Len(parts)
             Rec(f) == f = [n \in 0..L |-> IF n = 0 THEN Start ELSE SimplifyStep(f[n - 1], parts[n])]
             h == CHOOSE f : Rec(f)
  <1>1. /\ L \in Nat /\ DOMAIN parts = 1..L
        /\ \A n \in 1..L : parts[n] \in Parts \cup {None} /\ (parts[n] = None => n = 1)
    BY DEF HeadMayBeNull
  <1>2. Start \in Accs
    BY DEF Start, Accs
  <1>3. \E f : Rec(f)
    <2>1. PICK next : next = [k \in 1..L |-> [a \in Accs |->
                 IF parts[k] = None /\ a # Start THEN a ELSE SimplifyStep(a, parts[k])]]
      OBVIOUS
    <2>2. next \in [1..L -> [Accs -> Accs]]
      BY <1>1, <2>1, SimplifyStepTypes
    <2>3. PICK f \in [0..L -> Accs] : f[0] = Start /\ \A k \in 1..L : f[k] = next[k][f[k - 1]]
      <3> HIDE DEF L
      <3> QED
        BY <1>1, <1>2, <2>2, StepsDefine, SMTT(30)
    <2>4. ASSUME NEW k \in 1..L PROVE f[k] = SimplifyStep(f[k - 1], parts[k])
      <3>1. f[k - 1] \in Accs /\ f[k] = next[k][f[k - 1]]
        BY <1>1, <2>3
      <3>2. parts[k] = None => f[k - 1] = Start
        BY <1>1, <2>3
      <3> QED
        BY <2>1, <3>1, <3>2
    <2>5. Rec(f)
      BY <1>1, <2>3, <2>4
    <2> QED
      BY <2>5
  <1>4. Rec(h)
    BY <1>3
  <1>5. Simplified(parts) = Append(h[L].done, h[L].lhs)
    BY DEF Simplified, Start
  <1> HIDE DEF h
  <1>6. DOMAIN h = 0..L /\ h[0] = Start /\ \A n \in 1..L : h[n] = SimplifyStep(h[n - 1], parts[n])
    BY <1>1, <1>4
  <1>7. PICK S : S = {k \in 0..L : h[k] \in Accs}
    OBVIOUS
  <1>8. ASSUME NEW k \in 0..(L - 1), k \in S PROVE k + 1 \in S
    <2>1. k + 1 \in 1..L /\ k + 1 - 1 = k /\ k + 1 \in 0..L
      BY <1>1
    <2>2. /\ h[k] \in Accs /\ h[k + 1] = SimplifyStep(h[k], parts[k + 1])
          /\ parts[k + 1] \in Parts \cup {None}
      BY <1>1, <1>6, <1>7, <1>8, <2>1
    <2>3. parts[k + 1] = None => h[k] = Start
      BY <1>1, <1>6, <2>1
    <2> QED
      BY <1>7, <2>1, <2>2, <2>3, SimplifyStepTypes
  <1>9. 0..L \subseteq S
    <2>1. 0 \in S
      BY <1>1, <1>2, <1>6, <1>7
    <2> HIDE DEF L
    <2> QED
      BY <1>1, <1>8, <2>1, Climb
  <1>10. h \in [0..L -> Accs]
    BY <1>4, <1>7, <1>9
  <1> QED
    BY <1>5, <1>6, <1>10 DEF Simplifies

\* A simplified stack has nullptr at its head at most, and none if it had a part that is not.
LEMMA SimplifiedTypes ==
    ASSUME NEW parts, HeadMayBeNull(parts)
    PROVE  /\ HeadMayBeNull(Simplified(parts))
  <1>1. PICK f : Simplifies(f, parts) /\ Simplified(parts) = Append(f[Len(parts)].done, f[Len(parts)].lhs)
    BY SimplifyRuns
  <1>2. Len(parts) \in Nat
    BY DEF HeadMayBeNull
  <1>3. PICK a \in Accs : a = f[Len(parts)]
    BY <1>1, <1>2 DEF Simplifies
  <1>4. /\ a.done \in Seq(Parts) /\ a.lhs \in Parts \cup {None} /\ (a.lhs = None => a.done = <<>>)
        /\ Simplified(parts) = Append(a.done, a.lhs)
    BY <1>1, <1>3 DEF Accs
  <1> QED
    BY <1>4, NoneIsNoPart DEF HeadMayBeNull

\* simplify() of parts that are all there leaves what they do to points.
LEMMA SimplifiedMap ==
    ASSUME NEW parts \in Seq(Parts), parts # <<>>
    PROVE  InTurn(PartMaps(Simplified(parts))) = InTurn(PartMaps(parts))
  <1>0. HeadMayBeNull(parts)
    BY NoneIsNoPart DEF HeadMayBeNull
  <1>1. PICK f : Simplifies(f, parts) /\ Simplified(parts) = Append(f[Len(parts)].done, f[Len(parts)].lhs)
    BY <1>0, SimplifyRuns
  <1>2. PICK L \in Nat : L = Len(parts) /\ L >= 1 /\ \A n \in 1..L : parts[n] \in Parts
    OBVIOUS
  <1>3. /\ PartMaps(parts) \in Seq(Maps) /\ Len(PartMaps(parts)) = L
        /\ \A n \in 1..L : PartMaps(parts)[n] = PartMap(parts[n])
    BY <1>2, PartsInTurn
  <1>4. PICK g : Run(g, PartMaps(parts)) /\ InTurn(PartMaps(parts)) = g[L]
    BY <1>3, InTurnRuns
  \* After n parts, what is done and what is at hand do what those parts do.
  <1> DEFINE Does(a, m) == /\ a.lhs # None => Then(InTurn(PartMaps(a.done)), PartMap(a.lhs)) = m
                           /\ a.lhs = None => m = Identity
  <1>5. ASSUME NEW a \in Accs, NEW m \in Maps, NEW p \in Parts, Does(a, m)
        PROVE  Does(SimplifyStep(a, p), Then(m, PartMap(p))) /\ SimplifyStep(a, p).lhs # None
    <2>0. /\ a = [done |-> a.done, lhs |-> a.lhs] /\ a.done \in Seq(Parts)
          /\ a.lhs \in Parts \cup {None} /\ (a.lhs = None => a.done = <<>>)
      BY DEF Accs
    <2>1. PartMap(p) \in Maps /\ p # None /\ InTurn(PartMaps(a.done)) \in Maps
      BY <2>0, PartsMap, PartsInTurn, NoneIsNoPart
    <2>2. CASE a.lhs = None
      <3>1. SimplifyStep(a, p) = [done |-> <<>>, lhs |-> p]
        BY <2>0, <2>2 DEF SimplifyStep
      <3>2. InTurn(PartMaps(<<>>)) = Identity /\ m = Identity
        BY <1>5, <2>0, <2>2, PartsInTurn
      <3> QED
        BY <2>1, <3>1, <3>2
    <2>3. CASE a.lhs # None
      <3>0. /\ a.lhs \in Parts /\ PartMap(a.lhs) \in Maps
            /\ m = Then(InTurn(PartMaps(a.done)), PartMap(a.lhs))
        BY <1>5, <2>0, <2>3, PartsMap
      <3>1. CASE Composable(a.lhs) /\ Composable(p)
        <4>1. a.lhs \in Plain /\ p \in Plain
          BY <3>0, <3>1, PartsMap
        <4>2. PICK c \in Plain : c = ComposeTfms(a.lhs, p) /\ c.map = Then(a.lhs.map, p.map)
          BY <4>1, PlainComposed
        <4>3. SimplifyStep(a, p) = [done |-> a.done, lhs |-> c]
          BY <2>0, <2>3, <3>1, <4>2 DEF SimplifyStep
        <4>4. PartMap(c) = Then(PartMap(a.lhs), PartMap(p)) /\ c # None
          BY <4>1, <4>2, PlainParts, NoneIsNoPart
        <4>5. Then(InTurn(PartMaps(a.done)), Then(PartMap(a.lhs), PartMap(p))) = Then(m, PartMap(p))
          BY <2>1, <3>0, MapsCompose
        <4> QED
          BY <4>3, <4>4, <4>5
      <3>2. CASE ~(Composable(a.lhs) /\ Composable(p))
        <4>1. SimplifyStep(a, p) = [done |-> Append(a.done, a.lhs), lhs |-> p]
          BY <2>3, <3>2 DEF SimplifyStep
        <4>2. InTurn(PartMaps(Append(a.done, a.lhs))) = m
          BY <2>0, <3>0, PartsInTurn
        <4> QED
          BY <2>1, <4>1, <4>2
      <3> QED
        BY <3>1, <3>2
    <2> QED
      BY <2>2, <2>3
  <1> HIDE DEF Does
  <1>6. PICK S : S = {k \in 0..L : Does(f[k], g[k]) /\ (k > 0 => f[k].lhs # None)}
    OBVIOUS
  <1>7. 0 \in S
    <2>1. f[0] = Start /\ g[0] = Identity
      BY <1>1, <1>4 DEF Simplifies, Run
    <2>2. Does(Start, Identity)
      BY DEF Does, Start
    <2> QED
      BY <1>2, <1>6, <2>1, <2>2
  <1>8. ASSUME NEW k \in 0..(L - 1), k \in S PROVE k + 1 \in S
    <2>1. k + 1 \in 1..L /\ k + 1 - 1 = k /\ k + 1 \in 0..L /\ k \in 0..L
      BY <1>2
    <2>2. /\ f[k] \in Accs /\ f[k + 1] = SimplifyStep(f[k], parts[k + 1])
          /\ g[k] \in Maps /\ g[k + 1] = Then(g[k], PartMap(parts[k + 1]))
      BY <1>1, <1>2, <1>3, <1>4, <2>1 DEF Simplifies, Run
    <2>3. Does(f[k], g[k]) /\ parts[k + 1] \in Parts
      BY <1>2, <1>6, <1>8, <2>1
    <2>4. Does(f[k + 1], g[k + 1]) /\ f[k + 1].lhs # None
      BY <1>5, <2>2, <2>3
    <2> QED
      BY <1>6, <2>1, <2>4
  <1>9. Does(f[L], g[L]) /\ f[L].lhs # None
    <2>1. 0..L \subseteq S
      BY <1>7, <1>8, Climb
    <2> QED
      BY <1>2, <1>6, <2>1
  <1>10. f[L] \in Accs
    BY <1>1, <1>2 DEF Simplifies
  <1>11. f[L].done \in Seq(Parts) /\ f[L].lhs \in Parts
    BY <1>9, <1>10 DEF Accs
  <1>12. InTurn(PartMaps(Append(f[L].done, f[L].lhs))) = g[L]
    BY <1>9, <1>11, PartsInTurn DEF Does
  <1> QED
    BY <1>1, <1>2, <1>4, <1>12

-----------------------------------------------------------------------------
\* What push_back can push is a part: a stack without nullptr and without stacks in it.
LEMMA PushedIsPart ==
    ASSUME NEW t \in Transforms, ~HasNull(t), ~PushHangs(t)
    PROVE  t \in Parts
  <1>1. CASE t \in Plain
    BY <1>1, PlainParts
  <1>2. CASE t \notin Plain
    <2>1. /\ t.kind = "composite" /\ t.map = Identity /\ t.src \in Labels /\ t.tgt \in Labels
          /\ t = [kind |-> t.kind, map |-> t.map, parts |-> t.parts, src |-> t.src, tgt |-> t.tgt]
          /\ t.parts \in Seq(Parts \cup {None})
      BY <1>2 DEF Transforms, StacksOf
    <2>2. \A n \in DOMAIN t.parts : t.parts[n] # None /\ ~IsStack(t.parts[n])
      BY <2>1 DEF HasNull, ToSet, PushHangs, HasStack, IsStack
    <2>3. \A n \in 1..Len(t.parts) : t.parts[n] \in Plain
      BY <2>1, <2>2 DEF Parts, StacksOf, IsStack
    <2>4. t.parts \in Seq(Plain)
      BY <2>1, <2>3
    <2> QED
      BY <2>1, <2>4 DEF Parts, StacksOf
  <1> QED
    BY <1>1, <1>2

\* What is pushed once, or once for each part it has.
LEMMA PushedTypes ==
    ASSUME NEW p \in Parts
    PROVE  /\ \A parts : HeadMayBeNull(parts) => HeadMayBeNull(Pushed(parts, p))
           /\ \A parts \in Seq(Parts) :
                 /\ Pushed(parts, p) \in Seq(Parts)
                 /\ Len(p.parts) <= 1 => InTurn(PartMaps(Pushed(parts, p))) =
                                         Then(InTurn(PartMaps(parts)), PartMap(p))
  <1> DEFINE some == IF IsStack(p) THEN [n \in DOMAIN p.parts |-> p] ELSE <<p>>
  <1>1. /\ some \in Seq(Parts)
        /\ IsStack(p) => p \in StacksOf(Plain) /\ p.parts \in Seq(Plain)
        /\ ~IsStack(p) => some = <<p>>
        /\ IsStack(p) => some = [n \in 1..Len(p.parts) |-> p]
    <2>1. CASE p \in Plain
      BY <2>1, PlainParts
    <2>2. CASE p \notin Plain
      <3>1. p \in StacksOf(Plain)
        BY <2>2 DEF Parts
      <3>2. IsStack(p) /\ p.parts \in Seq(Plain)
        BY <3>1, StackedParts
      <3> QED
        BY <3>1, <3>2
    <2> QED
      BY <2>1, <2>2
  <1>2. \A parts : Pushed(parts, p) = parts \o some
    BY DEF Pushed
  <1> HIDE DEF some
  <1>3. ASSUME NEW parts, HeadMayBeNull(parts) PROVE HeadMayBeNull(parts \o some)
    <2>1. /\ parts \in Seq(Parts \cup {None}) /\ some \in Seq(Parts \cup {None})
          /\ \A n \in 1..Len(parts) : parts[n] = None => n = 1
      BY <1>1, <1>3 DEF HeadMayBeNull
    <2>2. parts \o some \in Seq(Parts \cup {None})
      BY <2>1
    <2>3. ASSUME NEW n \in 1..Len(parts \o some), (parts \o some)[n] = None PROVE n = 1
      <3>1. CASE n <= Len(parts)
        BY <2>1, <2>3, <3>1
      <3>2. CASE n > Len(parts)
        <4>1. n - Len(parts) \in 1..Len(some) /\ (parts \o some)[n] = some[n - Len(parts)]
          BY <2>1, <3>2
        <4>2. some[n - Len(parts)] \in Parts
          BY <1>1, <4>1
        <4> QED
          BY <2>3, <4>1, <4>2, NoneIsNoPart
      <3> QED
        BY <2>1, <3>1, <3>2
    <2> QED
      BY <2>2, <2>3 DEF HeadMayBeNull
  <1>4. ASSUME NEW parts \in Seq(Parts) PROVE parts \o some \in Seq(Parts)
    BY <1>1
  <1>5. ASSUME NEW parts \in Seq(Parts), Len(p.parts) <= 1
        PROVE  InTurn(PartMaps(parts \o some)) = Then(InTurn(PartMaps(parts)), PartMap(p))
    <2>1. CASE some = <<p>>
      <3>1. parts \o some = Append(parts, p)
        BY <2>1
      <3> QED
        BY <3>1, PartsInTurn
    <2>2. CASE some = <<>> /\ PartMap(p) = Identity
      <3>1. parts \o some = parts
        BY <2>2
      <3>2. InTurn(PartMaps(parts)) \in Maps
        BY PartsInTurn
      <3> QED
        BY <2>2, <3>1, <3>2, MapsCompose
    <2>3. CASE IsStack(p)
      <3>1. p \in StacksOf(Plain) /\ p.parts \in Seq(Plain) /\ some = [n \in 1..Len(p.parts) |-> p]
        BY <1>1, <2>3
      <3>2. Len(p.parts) = 0 \/ Len(p.parts) = 1
        <4>1. PICK n \in Nat : n = Len(p.parts)
          BY <3>1
        <4>2. n <= 1
          BY <1>5, <4>1
        <4>3. n = 0 \/ n = 1
          BY <4>2
        <4> QED
          BY <4>1, <4>3
      <3>3. CASE Len(p.parts) = 0
        <4>1. p.parts = <<>>
          BY <3>1, <3>3
        <4>2. some = <<>>
          BY <3>1, <3>3
        <4> QED
          BY <2>2, <3>1, <4>1, <4>2, StackedParts
      <3>4. CASE Len(p.parts) = 1
        <4>1. some = <<p>>
          BY <3>1, <3>4
        <4> QED
          BY <2>1, <4>1
      <3> QED
        BY <3>2, <3>3, <3>4
    <2> QED
      BY <1>1, <2>1, <2>3
  <1> QED
    BY <1>2, <1>3, <1>4, <1>5

\* The run of PushedInTurn.
Pushes(f, parts) ==
    /\ f \in [0..Len(parts) -> Seq(Parts)]
    /\ f[0] = <<>>
    /\ \A n \in 1..Len(parts) : f[n] = Pushed(f[n - 1], parts[n])

LEMMA PushRuns ==
    ASSUME NEW parts \in Seq(Parts)
    PROVE  \E f : Pushes(f, parts) /\ PushedInTurn(parts) = f[Len(parts)]
  <1> DEFINE L == Len(parts)
             Rec(f) == f = [n \in 0..L |-> IF n = 0 THEN <<>> ELSE Pushed(f[n - 1], parts[n])]
             h == CHOOSE f : Rec(f)
  <1>1. L \in Nat /\ \A n \in 1..L : parts[n] \in Parts
    OBVIOUS
  <1>2. PICK A : A = Seq(Parts) /\ <<>> \in A
    <2>1. <<>> \in Seq(Parts)
      OBVIOUS
    <2> QED
      BY <2>1, Zenon
  <1>3. \A ps \in Seq(Parts), p \in Parts : Pushed(ps, p) \in Seq(Parts)
    BY PushedTypes
  <1>4. \E f : Rec(f)
    <2>1. PICK next : next = [k \in 1..L |-> [ps \in A |-> Pushed(ps, parts[k])]]
      OBVIOUS
    <2>2. next \in [1..L -> [A -> A]]
      BY <1>1, <1>2, <1>3, <2>1
    <2>3. PICK f \in [0..L -> A] : f[0] = <<>> /\ \A k \in 1..L : f[k] = next[k][f[k - 1]]
      <3>1. PICK b \in A : b = <<>>
        BY <1>2
      <3>2. L \in Nat
        BY <1>1
      <3> HIDE DEF L
      <3>3. \E f \in [0..L -> A] : f[0] = b /\ \A k \in 1..L : f[k] = next[k][f[k - 1]]
        BY <2>2, <3>2, StepsDefine
      <3> QED
        BY <3>1, <3>3
    <2>4. ASSUME NEW k \in 1..L PROVE f[k] = Pushed(f[k - 1], parts[k])
      <3>1. f[k - 1] \in A /\ f[k] = next[k][f[k - 1]]
        BY <1>1, <2>3
      <3> QED
        BY <2>1, <3>1
    <2>5. Rec(f)
      BY <1>1, <2>3, <2>4
    <2> QED
      BY <2>5
  <1>5. Rec(h)
    BY <1>4
  <1>6. PushedInTurn(parts) = h[L]
    BY DEF PushedInTurn
  <1> HIDE DEF h
  <1>7. DOMAIN h = 0..L /\ h[0] = <<>> /\ \A n \in 1..L : h[n] = Pushed(h[n - 1], parts[n])
    BY <1>1, <1>5
  <1>8. PICK S : S = {k \in 0..L : h[k] \in A}
    OBVIOUS
  <1>9. ASSUME NEW k \in 0..(L - 1), k \in S PROVE k + 1 \in S
    <2>1. k + 1 \in 1..L /\ k + 1 - 1 = k /\ k + 1 \in 0..L
      BY <1>1
    <2>2. h[k] \in A /\ h[k + 1] = Pushed(h[k], parts[k + 1]) /\ parts[k + 1] \in Parts
      BY <1>1, <1>7, <1>8, <1>9, <2>1
    <2> QED
      BY <1>2, <1>3, <1>8, <2>1, <2>2
  <1>10. 0..L \subseteq S
    <2>1. 0 \in S
      <3>1. h[0] \in A
        BY <1>2, <1>7
      <3> QED
        BY <1>1, <1>8, <3>1
    <2> HIDE DEF L
    <2> QED
      BY <1>1, <1>9, <2>1, Climb
  <1>11. h \in [0..L -> Seq(Parts)]
    BY <1>2, <1>5, <1>8, <1>10
  <1> QED
    BY <1>6, <1>7, <1>11 DEF Pushes

\* Loading what was saved: parts again, and the same map unless a stack of several parts
\* among them was repeated.
LEMMA ReloadedParts ==
    ASSUME NEW parts \in Seq(Parts)
    PROVE  /\ PushedInTurn(parts) \in Seq(Parts)
           /\ (\A n \in DOMAIN parts : Len(parts[n].parts) <= 1) =>
                 InTurn(PartMaps(PushedInTurn(parts))) = InTurn(PartMaps(parts))
  <1>1. PICK f : Pushes(f, parts) /\ PushedInTurn(parts) = f[Len(parts)]
    BY PushRuns
  <1>2. PICK L \in Nat : L = Len(parts) /\ DOMAIN parts = 1..L /\ \A n \in 1..L : parts[n] \in Parts
    OBVIOUS
  <1>3. PushedInTurn(parts) \in Seq(Parts)
    BY <1>1, <1>2 DEF Pushes
  <1>4. ASSUME \A n \in DOMAIN parts : Len(parts[n].parts) <= 1
        PROVE  InTurn(PartMaps(PushedInTurn(parts))) = InTurn(PartMaps(parts))
    <2>1. /\ PartMaps(parts) \in Seq(Maps) /\ Len(PartMaps(parts)) = L
          /\ \A n \in 1..L : PartMaps(parts)[n] = PartMap(parts[n])
      BY <1>2, PartsInTurn
    <2>2. PICK g : Run(g, PartMaps(parts)) /\ InTurn(PartMaps(parts)) = g[L]
      BY <2>1, InTurnRuns
    <2>3. PICK S : S = {k \in 0..L : InTurn(PartMaps(f[k])) = g[k]}
      OBVIOUS
    <2>4. 0 \in S
      <3>1. f[0] = <<>> /\ g[0] = Identity
        BY <1>1, <2>2 DEF Pushes, Run
      <3>2. InTurn(PartMaps(<<>>)) = Identity
        BY PartsInTurn
      <3> QED
        BY <1>2, <2>3, <3>1, <3>2
    <2>5. ASSUME NEW k \in 0..(L - 1), k \in S PROVE k + 1 \in S
      <3>1. k + 1 \in 1..L /\ k + 1 - 1 = k /\ k + 1 \in 0..L /\ k \in 0..L
        BY <1>2
      <3>2. f[k] \in Seq(Parts) /\ f[k + 1] = Pushed(f[k], parts[k + 1])
        BY <1>1, <1>2, <3>1 DEF Pushes
      <3>a. g[k + 1] = Then(g[k], PartMap(parts[k + 1]))
        <4>1. g[k + 1] = Then(g[k], PartMaps(parts)[k + 1])
          BY <2>1, <2>2, <3>1 DEF Run
        <4> QED
          BY <2>1, <3>1, <4>1
      <3>3. parts[k + 1] \in Parts /\ Len(parts[k + 1].parts) <= 1
        BY <1>2, <1>4, <3>1
      <3>4. InTurn(PartMaps(f[k + 1])) = Then(InTurn(PartMaps(f[k])), PartMap(parts[k + 1]))
        BY <3>2, <3>3, PushedTypes
      <3>5. InTurn(PartMaps(f[k])) = g[k]
        BY <2>3, <2>5
      <3> QED
        BY <2>3, <3>1, <3>a, <3>4, <3>5
    <2>6. 0..L \subseteq S
      BY <2>4, <2>5, Climb
    <2> QED
      BY <1>1, <1>2, <2>2, <2>3, <2>6
  <1> QED
    BY <1>3, <1>4
-----------------------------------------------------------------------------
\* What a transform is made of.
LEMMA PlainMade ==
    ASSUME NEW k \in {"affine", "identity"}, NEW m \in Maps, NEW a \in Labels, NEW b \in Labels
    PROVE  [kind |-> k, map |-> m, parts |-> <<>>, src |-> a, tgt |-> b] \in Plain
  BY DEF Plain

LEMMA StackMade ==
    ASSUME NEW parts, HeadMayBeNull(parts), NEW a \in Labels, NEW b \in Labels
    PROVE  [kind |-> "composite", map |-> Identity, parts |-> parts, src |-> a, tgt |-> b]
               \in Transforms
  BY DEF Transforms, StacksOf, HeadMayBeNull

LEMMA TfmShapes ==
    ASSUME NEW t \in Transforms
    PROVE  /\ t = [kind |-> t.kind, map |-> t.map, parts |-> t.parts, src |-> t.src, tgt |-> t.tgt]
           /\ t.src \in Labels /\ t.tgt \in Labels
           /\ ~IsStack(t) => t \in Plain /\ t.kind \in {"affine", "identity"} /\ t.parts = <<>>
           /\ IsStack(t) => t.kind = "composite" /\ t.map = Identity /\ HeadMayBeNull(t.parts)
  BY DEF Transforms, Plain, StacksOf, IsStack, HeadMayBeNull

\* What can be saved is what has no nullptr.
LEMMA SavedShapes ==
    /\ Saved \subseteq Transforms
    /\ \A t \in Saved : ~HasNull(t) /\ (IsStack(t) => t.parts \in Seq(Parts))
    /\ \A t \in Transforms : ~HasNull(t) => t \in Saved
  <1>1. ASSUME NEW t \in Saved, t \notin Plain
        PROVE  t \in Transforms /\ ~HasNull(t) /\ t.parts \in Seq(Parts)
    <2>1. /\ t = [kind |-> "composite", map |-> Identity, parts |-> t.parts,
                  src |-> t.src, tgt |-> t.tgt]
          /\ t.parts \in Seq(Parts) /\ t.src \in Labels /\ t.tgt \in Labels
      BY <1>1 DEF Saved, StacksOf
    <2>2. HeadMayBeNull(t.parts)
      BY <2>1, NoneIsNoPart DEF HeadMayBeNull
    <2>3. ~HasNull(t)
      BY <2>1, NoneIsNoPart DEF HasNull, ToSet
    <2> QED
      BY <2>1, <2>2, <2>3, StackMade
  <1>2. ASSUME NEW t \in Plain PROVE t \in Saved /\ t \in Transforms /\ ~HasNull(t) /\ ~IsStack(t)
    BY PlainParts DEF HasNull, ToSet
  <1>3. ASSUME NEW t \in Transforms, ~HasNull(t), t \notin Plain PROVE t \in Saved
    <2>1. /\ t = [kind |-> "composite", map |-> Identity, parts |-> t.parts,
                  src |-> t.src, tgt |-> t.tgt]
          /\ t.parts \in Seq(Parts \cup {None}) /\ t.src \in Labels /\ t.tgt \in Labels
      BY <1>3 DEF Transforms, StacksOf
    <2>2. \A n \in 1..Len(t.parts) : t.parts[n] \in Parts
      BY <1>3, <2>1 DEF HasNull, ToSet
    <2>3. t.parts \in Seq(Parts)
      BY <2>1, <2>2
    <2> QED
      BY <2>1, <2>3 DEF Saved, StacksOf
  <1> QED
    BY <1>1, <1>2, <1>3

\* The fields of a record, some of them set.
LEMMA FieldsSet ==
    ASSUME NEW t, t = [kind |-> t.kind, map |-> t.map, parts |-> t.parts, src |-> t.src, tgt |-> t.tgt],
           NEW x, NEW y
    PROVE  /\ [t EXCEPT !.map = x, !.parts = y] =
                  [kind |-> t.kind, map |-> x, parts |-> y, src |-> t.src, tgt |-> t.tgt]
           /\ [t EXCEPT !.map = x, !.src = y, !.tgt = t.src] =
                  [kind |-> t.kind, map |-> x, parts |-> t.parts, src |-> y, tgt |-> t.src]
  <1>1. PICK k, m, p, a, b : /\ t = [kind |-> k, map |-> m, parts |-> p, src |-> a, tgt |-> b]
                             /\ t.kind = k /\ t.map = m /\ t.parts = p /\ t.src = a /\ t.tgt = b
    OBVIOUS
  <1>2. [t EXCEPT !.map = x, !.parts = y] =
            [kind |-> k, map |-> x, parts |-> y, src |-> a, tgt |-> b]
    <2>1. PICK r : r = [t EXCEPT !.map = x, !.parts = y]
      OBVIOUS
    <2>2. r = [kind |-> r.kind, map |-> r.map, parts |-> r.parts, src |-> r.src, tgt |-> r.tgt]
      BY <1>1, <2>1
    <2>3. r.kind = k /\ r.map = x /\ r.parts = y /\ r.src = a /\ r.tgt = b
      BY <1>1, <2>1
    <2> QED
      BY <2>1, <2>2, <2>3
  <1>3. [t EXCEPT !.map = x, !.src = y, !.tgt = a] =
            [kind |-> k, map |-> x, parts |-> p, src |-> y, tgt |-> a]
    <2>1. PICK r : r = [t EXCEPT !.map = x, !.src = y, !.tgt = a]
      OBVIOUS
    <2>2. r = [kind |-> r.kind, map |-> r.map, parts |-> r.parts, src |-> r.src, tgt |-> r.tgt]
      BY <1>1, <2>1
    <2>3. r.kind = k /\ r.map = x /\ r.parts = p /\ r.src = y /\ r.tgt = a
      BY <1>1, <2>1
    <2> QED
      BY <2>1, <2>2, <2>3
  <1> QED
    BY <1>1, <1>2, <1>3

\* What the operations on transforms make is a transform.
LEMMA TfmsMade ==
    /\ Affine(Identity, None, None) \in Transforms
    /\ IdentityTfm(None, None) \in Transforms
    /\ Stack(<<>>, None, None) \in Transforms
  <1>1. Identity \in Maps /\ None \in Labels
    BY MapsCompose DEF Labels
  <1>2. HeadMayBeNull(<<>>)
    BY DEF HeadMayBeNull
  <1> QED
    BY <1>1, <1>2, PlainMade, PlainParts, StackMade DEF Affine, IdentityTfm, Stack, Tfm

LEMMA TfmsChanged ==
    ASSUME NEW t \in Transforms
    PROVE  /\ \A a, b \in Labels : [t EXCEPT !.src = a, !.tgt = b] \in Transforms
           /\ ResetTfm(t) \in Transforms
           /\ ~IsStack(t) => \A m \in Maps : [t EXCEPT !.map = m] \in Transforms
           /\ IsStack(t) => \A parts : HeadMayBeNull(parts) => [t EXCEPT !.parts = parts] \in Transforms
  <1>1. /\ t = [kind |-> t.kind, map |-> t.map, parts |-> t.parts, src |-> t.src, tgt |-> t.tgt]
        /\ t.src \in Labels /\ t.tgt \in Labels
        /\ ~IsStack(t) => /\ t \in Plain /\ t.kind \in {"affine", "identity"} /\ t.parts = <<>>
                          /\ t.map \in Maps
        /\ IsStack(t) => t.kind = "composite" /\ t.map = Identity /\ HeadMayBeNull(t.parts)
    BY TfmShapes, PlainParts
  <1>2. ASSUME NEW a \in Labels, NEW b \in Labels PROVE [t EXCEPT !.src = a, !.tgt = b] \in Transforms
    <2>1. PICK r : r = [t EXCEPT !.src = a, !.tgt = b]
      OBVIOUS
    <2>2. r = [kind |-> t.kind, map |-> t.map, parts |-> t.parts, src |-> a, tgt |-> b]
      <3>1. r = [kind |-> r.kind, map |-> r.map, parts |-> r.parts, src |-> r.src, tgt |-> r.tgt]
        BY <1>1, <2>1
      <3>2. r.kind = t.kind /\ r.map = t.map /\ r.parts = t.parts /\ r.src = a /\ r.tgt = b
        BY <1>1, <2>1
      <3> QED
        BY <3>1, <3>2
    <2>3. r \in Transforms
      BY <1>1, <2>2, PlainMade, PlainParts, StackMade
    <2> QED
      BY <2>1, <2>3, Zenon
  <1>3. ResetTfm(t) \in Transforms
    <2>1. ResetTfm(t) = [kind |-> t.kind, map |-> Identity, parts |-> <<>>, src |-> t.src, tgt |-> t.tgt]
      BY <1>1, FieldsSet DEF ResetTfm
    <2>2. Identity \in Maps /\ HeadMayBeNull(<<>>)
      BY MapsCompose DEF HeadMayBeNull
    <2> QED
      BY <1>1, <2>1, <2>2, PlainMade, PlainParts, StackMade
  <1>4. ASSUME ~IsStack(t), NEW m \in Maps PROVE [t EXCEPT !.map = m] \in Transforms
    <2>1. [t EXCEPT !.map = m] = [kind |-> t.kind, map |-> m, parts |-> <<>>, src |-> t.src, tgt |-> t.tgt]
      BY <1>1, <1>4
    <2> QED
      BY <1>1, <1>4, <2>1, PlainMade, PlainParts
  <1>5. ASSUME IsStack(t), NEW parts, HeadMayBeNull(parts) PROVE [t EXCEPT !.parts = parts] \in Transforms
    <2>1. [t EXCEPT !.parts = parts] =
              [kind |-> "composite", map |-> Identity, parts |-> parts, src |-> t.src, tgt |-> t.tgt]
      BY <1>1, <1>5
    <2> QED
      BY <1>1, <1>5, <2>1, StackMade
  <1> QED
    BY <1>2, <1>3, <1>4, <1>5

LEMMA TfmsDerived ==
    ASSUME NEW t \in Transforms
    PROVE  /\ t.src \in Labels /\ t.tgt \in Labels
           /\ Invertible(t) => /\ Invert(t) \in Transforms
                               /\ Invert(t).src = t.tgt /\ Invert(t).tgt = t.src
  <1>1. t.src \in Labels /\ t.tgt \in Labels
    BY TfmShapes
  <1>2. ASSUME Invertible(t)
        PROVE  /\ Invert(t) \in Transforms
               /\ Invert(t).src = t.tgt /\ Invert(t).tgt = t.src
    <2>1. /\ t \in Plain /\ t.kind \in {"affine", "identity"}
          /\ t = [kind |-> t.kind, map |-> t.map, parts |-> <<>>, src |-> t.src, tgt |-> t.tgt]
      BY <1>2, TfmShapes DEF Invertible
    <2>2. PICK m \in Maps : m = InverseMap(t.map)
      BY <2>1, PlainParts, MapsCompose
    <2>3. Invert(t) = [kind |-> t.kind, map |-> m, parts |-> <<>>, src |-> t.tgt, tgt |-> t.src]
      <3>1. Invert(t) = [t EXCEPT !.map = m, !.src = t.tgt, !.tgt = t.src]
        BY <2>1, <2>2 DEF Invert
      <3>2. t.parts = <<>>
        BY <2>1, PlainParts
      <3> QED
        BY <1>1, <3>1, <3>2, TfmShapes, FieldsSet
    <2> QED
      BY <1>1, <2>1, <2>3, PlainMade, PlainParts
  <1> QED
    BY <1>1, <1>2

LEMMA TfmsReloaded ==
    ASSUME NEW t \in Saved
    PROVE  /\ Reloaded(t) \in Saved /\ Reloaded(t) \in Transforms
           /\ Reloaded(t).src = t.src /\ Reloaded(t).tgt = t.tgt
           /\ (\A n \in DOMAIN t.parts : Len(t.parts[n].parts) <= 1) =>
                 PointMap(Reloaded(t)) = PointMap(t)
  <1>1. CASE IsStack(t)
    <2>1. /\ t = [kind |-> "composite", map |-> Identity, parts |-> t.parts,
                  src |-> t.src, tgt |-> t.tgt]
          /\ t.parts \in Seq(Parts) /\ t.src \in Labels /\ t.tgt \in Labels
      BY <1>1, SavedShapes, TfmShapes
    <2>2. PICK parts \in Seq(Parts) : parts = PushedInTurn(t.parts)
      BY <2>1, ReloadedParts
    <2>3. Reloaded(t) = [kind |-> "composite", map |-> Identity, parts |-> parts,
                         src |-> t.src, tgt |-> t.tgt]
      BY <1>1, <2>1, <2>2 DEF Reloaded
    <2>4. Reloaded(t) \in Saved
      BY <2>1, <2>3 DEF Saved, StacksOf
    <2>5. PointMap(t) = InTurn(PartMaps(t.parts)) /\ PointMap(Reloaded(t)) = InTurn(PartMaps(parts))
      BY <1>1, <2>3 DEF PointMap, IsStack
    <2> QED
      BY <2>1, <2>2, <2>3, <2>4, <2>5, ReloadedParts, SavedShapes
  <1>2. CASE ~IsStack(t)
    <2>1. Reloaded(t) = t
      BY <1>2 DEF Reloaded
    <2> QED
      BY <2>1, SavedShapes
  <1> QED
    BY <1>1, <1>2

LEMMA TfmsComposed ==
    ASSUME NEW l \in Transforms, NEW r \in Transforms, Composable(l), Composable(r)
    PROVE  ComposeTfms(l, r) \in Transforms
  BY TfmShapes, PlainComposed, PlainParts DEF Composable

-----------------------------------------------------------------------------
\* There are more cells than pointers.
LEMMA CellsSuffice ==
    /\ Cardinality(Handles) \in Nat /\ Cardinality(Ids) \in Nat
    /\ IsFiniteSet(Cells) /\ Cells \subseteq Nat
    /\ Cardinality(Cells) = Cardinality(Handles) + Cardinality(Ids) + 1
  <1>1. Cardinality(Handles) \in Nat /\ Cardinality(Ids) \in Nat
    BY HandlesAssumption, IdsAssumption, FS_CardinalityType
  <1>2. PICK n \in Nat : n = Cardinality(Handles) + Cardinality(Ids) + 1
    BY <1>1
  <1>3. IsFiniteSet(1..n) /\ Cardinality(1..n) = n
    BY <1>2, FS_Interval
  <1> QED
    BY <1>1, <1>2, <1>3 DEF Cells

\* The values a function takes on a finite set are no more than its members.
LEMMA FewValues ==
    ASSUME NEW S, IsFiniteSet(S), NEW f
    PROVE  /\ IsFiniteSet({f[x] : x \in S})
           /\ Cardinality({f[x] : x \in S}) <= Cardinality(S)
  <1> DEFINE T == {f[x] : x \in S}
             g == [x \in S |-> f[x]]
  <1>1. g \in Surjection(S, T)
    BY DEF Surjection
  <1> HIDE DEF g, T
  <1>2. IsFiniteSet(T) /\ Cardinality(T) <= Cardinality(S)
    BY <1>1, FS_Surjection
  <1> QED
    BY <1>2 DEF T

\* Cells the pointers leave free.
LEMMA FreeCells ==
    /\ IsFiniteSet(Cells \ Held)
    /\ Cardinality(Cells \ Held) >= Cardinality(Ids) + 1
    /\ Cells \ (Held \cup Registered) # {}
  <1>0. /\ IsFiniteSet(Held) /\ Cardinality(Held) <= Cardinality(Handles)
        /\ Cardinality(Held) \in Nat
    BY FewValues, HandlesAssumption, FS_CardinalityType DEF Held
  <1>1. /\ IsFiniteSet(Registered) /\ Cardinality(Registered) <= Cardinality(Ids)
        /\ Cardinality(Registered) \in Nat
    <2> DEFINE all == {registry[i] : i \in Ids}
    <2>1. IsFiniteSet(all) /\ Cardinality(all) <= Cardinality(Ids)
      BY FewValues, IdsAssumption
    <2>2. Registered \subseteq all
      BY DEF Registered
    <2> HIDE DEF all
    <2>3. /\ IsFiniteSet(Registered) /\ Cardinality(Registered) <= Cardinality(all)
          /\ Cardinality(Registered) \in Nat /\ Cardinality(all) \in Nat
      BY <2>1, <2>2, FS_Subset, FS_CardinalityType
    <2> QED
      BY <2>1, <2>3, CellsSuffice
  <1>2. ASSUME NEW S, IsFiniteSet(S), Cardinality(S) \in Nat
        PROVE  /\ IsFiniteSet(Cells \ S)
               /\ Cardinality(Cells \ S) >= Cardinality(Cells) - Cardinality(S)
    <2>1. IsFiniteSet(Cells \cap S) /\ Cardinality(Cells \cap S) <= Cardinality(S)
          /\ Cardinality(Cells \cap S) \in Nat
      BY <1>2, FS_Subset, FS_CardinalityType
    <2>2. IsFiniteSet(Cells \ S)
          /\ Cardinality(Cells \ S) = Cardinality(Cells) - Cardinality(Cells \cap S)
      BY CellsSuffice, FS_Difference
    <2> QED
      BY <1>2, <2>1, <2>2, CellsSuffice
  <1>3. /\ IsFiniteSet(Held \cup Registered) /\ Cardinality(Held \cup Registered) \in Nat
        /\ Cardinality(Held \cup Registered) <= Cardinality(Held) + Cardinality(Registered)
    <2>1. /\ IsFiniteSet(Held \cup Registered)
          /\ Cardinality(Held \cup Registered) =
                Cardinality(Held) + Cardinality(Registered) - Cardinality(Held \cap Registered)
      BY <1>0, <1>1, FS_Union
    <2>2. Cardinality(Held \cap Registered) \in Nat /\ Cardinality(Held \cup Registered) \in Nat
      BY <1>0, <2>1, FS_Intersection, FS_CardinalityType
    <2> QED
      BY <1>0, <1>1, <2>1, <2>2
  <1>4. IsFiniteSet(Cells \ Held) /\ Cardinality(Cells \ Held) >= Cardinality(Ids) + 1
    BY <1>0, <1>2, CellsSuffice, FS_CardinalityType
  <1>5. Cells \ (Held \cup Registered) # {}
    <2>1. /\ IsFiniteSet(Cells \ (Held \cup Registered))
          /\ Cardinality(Cells \ (Held \cup Registered)) >= 1
      <3>1. PICK S : S = Held \cup Registered
        OBVIOUS
      <3>2. IsFiniteSet(S) /\ Cardinality(S) \in Nat
            /\ Cardinality(S) <= Cardinality(Handles) + Cardinality(Ids)
        BY <1>0, <1>1, <1>3, <3>1, CellsSuffice
      <3>3. IsFiniteSet(Cells \ S) /\ Cardinality(Cells \ S) >= Cardinality(Cells) - Cardinality(S)
            /\ Cardinality(Cells \ S) \in Nat
        BY <1>2, <3>2, FS_CardinalityType
      <3> QED
        BY <3>1, <3>2, <3>3, CellsSuffice
    <2> QED
      BY <2>1, FS_EmptySet
  <1> QED
    BY <1>4, <1>5

LEMMA FreshIsACell == Fresh \in Cells /\ Fresh \notin Registered
  <1>1. Cells \ (Held \cup Registered) \subseteq Nat
    BY CellsSuffice
  <1> QED
    BY <1>1, FreeCells, MinIsMember DEF Fresh

\* There is a free cell of its own for each transform that is loaded.
LEMMA CellsToLoadInto ==
    LET free == CHOOSE f \in [Ids -> Cells \ Held] : IsInjective(f)
    IN  free \in [Ids -> Cells \ Held] /\ IsInjective(free)
  <1>1. PICK n \in Nat : n = Cardinality(Cells \ Held) /\ n >= Cardinality(Ids)
    BY FreeCells, CellsSuffice, FS_CardinalityType
  <1>2. PICK f \in Injection(1..n, Cells \ Held) : TRUE
    BY <1>1, FreeCells, FS_CardinalityType DEF ExistsBijection, Bijection
  <1>3. f \in [1..n -> Cells \ Held] /\ \A a, b \in 1..n : f[a] = f[b] => a = b
    BY <1>2 DEF Injection, IsInjective
  <1>4. Ids \subseteq 1..n
    BY <1>1, CellsSuffice, IdsAssumption
  <1>5. PICK g : g = [i \in Ids |-> f[i]]
    OBVIOUS
  <1>6. g \in [Ids -> Cells \ Held] /\ IsInjective(g)
    BY <1>3, <1>4, <1>5 DEF IsInjective
  <1> QED
    BY <1>6
-----------------------------------------------------------------------------
\* What is collected is what nobody points to.
LEMMA CollectKeeps ==
    ASSUME NEW cells, NEW hs, NEW reg, NEW c \in Cells,
           \/ \E h \in Handles : hs[h] = c
           \/ \E i \in Ids : reg[i] = c
    PROVE  Collected(cells, hs, reg)[c] = cells[c]
  BY DEF Collected

LEMMA CollectTypes ==
    ASSUME NEW cells, NEW hs, NEW reg, \A c \in Cells : cells[c] = None \/ cells[c] \in Transforms
    PROVE  LET left == Collected(cells, hs, reg)
           IN  DOMAIN left = Cells /\ \A c \in Cells : left[c] = None \/ left[c] \in Transforms
  BY DEF Collected

\* h is made to point to a cell, with a transform in it.
LEMMA PointKeeps ==
    ASSUME TfmTypeOK, NEW h \in Handles, NEW c \in Cells, NEW t \in Transforms, Point(h, c, t),
           edits' \in 0..MaxEdits
    PROVE  TfmTypeOK'
  <1> DEFINE cells == [cell EXCEPT ![c] = t]
  <1>1. DOMAIN cells = Cells /\ cells[c] = t /\ \A d \in Cells : d # c => cells[d] = cell[d]
    BY DEF TfmTypeOK
  <1> HIDE DEF cells
  <1>2. /\ handle' = [handle EXCEPT ![h] = c]
        /\ cell' = Collected(cells, handle', registry)
        /\ UNCHANGED <<registry, disk, unsaved, condition>>
    BY DEF Point, package, cells
  <1>3. \A d \in Cells : cells[d] = None \/ cells[d] \in Transforms
    BY <1>1 DEF TfmTypeOK
  <1>4. DOMAIN cell' = Cells /\ \A d \in Cells : cell'[d] = None \/ cell'[d] \in Transforms
    BY <1>2, <1>3, CollectTypes
  <1>5. DOMAIN handle' = Handles
        /\ \A g \in Handles : handle'[g] \in Cells /\ Value(g)' \in Transforms
    <2>1. DOMAIN handle' = Handles /\ \A g \in Handles : handle'[g] \in Cells
      BY <1>2 DEF TfmTypeOK
    <2>2. ASSUME NEW g \in Handles PROVE cell'[handle'[g]] \in Transforms
      <3>1. cell'[handle'[g]] = cells[handle'[g]]
        <4>1. PICK d \in Cells : d = handle'[g]
          BY <2>1
        <4>2. cell'[d] = cells[d]
          BY <1>2, <4>1 DEF Collected
        <4> QED
          BY <4>1, <4>2
      <3>2. cells[handle'[g]] \in Transforms
        BY <1>1, <1>2, <2>1 DEF TfmTypeOK, Value
      <3> QED
        BY <3>1, <3>2
    <2> QED
      BY <2>1, <2>2 DEF Value
  <1>6. \A i \in Ids : registry[i] = None \/ (registry[i] \in Cells /\ cell'[registry[i]] \in Transforms)
    <2> SUFFICES ASSUME NEW i \in Ids, registry[i] # None
                 PROVE  registry[i] \in Cells /\ cell'[registry[i]] \in Transforms
      OBVIOUS
    <2>1. registry[i] \in Cells /\ cells[registry[i]] \in Transforms
      BY <1>1 DEF TfmTypeOK
    <2>2. cell'[registry[i]] = cells[registry[i]]
      BY <1>2, <2>1, CollectKeeps
    <2> QED
      BY <2>1, <2>2
  <1> QED
    BY <1>2, <1>4, <1>5, <1>6 DEF TfmTypeOK

\* The transform h points to changes.
LEMMA ChangeKeeps ==
    ASSUME TfmTypeOK, NEW h \in Handles, NEW t \in Transforms, Change(h, t), edits' \in 0..MaxEdits
    PROVE  TfmTypeOK'
  <1>1. /\ cell' = [cell EXCEPT ![handle[h]] = t] /\ unsaved' \subseteq Ids
        /\ UNCHANGED <<handle, registry, disk, condition>>
    BY DEF Change, TfmTypeOK
  <1>2. handle[h] \in Cells
    BY DEF TfmTypeOK
  <1>3. DOMAIN cell' = Cells /\ \A c \in Cells : cell'[c] = IF c = handle[h] THEN t ELSE cell[c]
    BY <1>1, <1>2 DEF TfmTypeOK
  <1>4. \A g \in Handles : handle'[g] \in Cells /\ Value(g)' \in Transforms
    BY <1>1, <1>3 DEF TfmTypeOK, Value
  <1>5. \A i \in Ids : registry'[i] = None
                       \/ (registry'[i] \in Cells /\ cell'[registry'[i]] \in Transforms)
    BY <1>1, <1>3 DEF TfmTypeOK
  <1> QED
    BY <1>1, <1>3, <1>4, <1>5 DEF TfmTypeOK

LEMMA EndKeeps ==
    ASSUME TfmTypeOK, NEW how \in {"crashed", "hung"}, End(how), edits' \in 0..MaxEdits
    PROVE  TfmTypeOK'
  BY DEF End, pointers, package, TfmTypeOK, Value

\* A transform is registered under i and its file written.
LEMMA StoreKeeps ==
    ASSUME TfmTypeOK, NEW h \in Handles, NEW i \in Ids, ~HasNull(Value(h)), Store(i, h),
           edits' \in 0..MaxEdits
    PROVE  TfmTypeOK'
  <1>1. /\ registry' = [registry EXCEPT ![i] = handle[h]]
        /\ disk' = [disk EXCEPT ![i] = Value(h)]
        /\ unsaved' = unsaved \ {i}
        /\ cell' = Collected(cell, handle, registry')
        /\ UNCHANGED <<handle, condition>>
    BY DEF Store
  <1>2. DOMAIN cell' = Cells /\ \A c \in Cells : cell'[c] = None \/ cell'[c] \in Transforms
    BY <1>1, CollectTypes DEF TfmTypeOK
  <1>3. \A g \in Handles : handle'[g] \in Cells /\ Value(g)' \in Transforms
    <2> SUFFICES ASSUME NEW g \in Handles PROVE handle[g] \in Cells /\ cell'[handle[g]] \in Transforms
      BY <1>1 DEF Value
    <2>1. handle[g] \in Cells /\ cell[handle[g]] \in Transforms
      BY DEF TfmTypeOK, Value
    <2> QED
      BY <1>1, <2>1, CollectKeeps
  <1>4. DOMAIN registry' = Ids /\ \A j \in Ids :
            registry'[j] = None \/ (registry'[j] \in Cells /\ cell'[registry'[j]] \in Transforms)
    <2>1. DOMAIN registry' = Ids
      BY <1>1 DEF TfmTypeOK
    <2> SUFFICES ASSUME NEW j \in Ids, registry'[j] # None
                 PROVE  registry'[j] \in Cells /\ cell'[registry'[j]] \in Transforms
      BY <2>1
    <2>2. registry'[j] \in Cells /\ cell[registry'[j]] \in Transforms
      BY <1>1 DEF TfmTypeOK, Value
    <2>3. \E k \in Ids : registry'[k] = registry'[j]
      OBVIOUS
    <2>4. cell'[registry'[j]] = cell[registry'[j]]
      <3>1. PICK d \in Cells : d = registry'[j]
        BY <2>2
      <3>2. cell'[d] = cell[d]
        BY <1>1, <2>3, <3>1 DEF Collected
      <3> QED
        BY <3>1, <3>2
    <2> QED
      BY <2>2, <2>4
  <1>5. DOMAIN disk' = Ids /\ \A j \in Ids : disk'[j] \in {None, Unreadable} \cup Saved
    <2>1. Value(h) \in Saved
      BY SavedShapes DEF TfmTypeOK
    <2> QED
      BY <1>1, <2>1 DEF TfmTypeOK
  <1> QED
    BY <1>1, <1>2, <1>3, <1>4, <1>5 DEF TfmTypeOK

\* The package is opened again: its transforms are loaded into cells nobody points to.
LEMMA ReopenKeeps ==
    ASSUME TfmTypeOK, Reopen
    PROVE  TfmTypeOK'
  <1>1. PICK free : /\ free \in [Ids -> Cells \ Held] /\ IsInjective(free)
                    /\ registry' = [i \in Ids |-> IF Opened[i] = None THEN None ELSE free[i]]
    BY CellsToLoadInto DEF Reopen
  <1>2. /\ cell' = [c \in Cells |-> IF \E i \in Ids : registry'[i] = c
                                    THEN Opened[CHOOSE i \in Ids : registry'[i] = c]
                                    ELSE IF c \in Held THEN cell[c] ELSE None]
        /\ unsaved' = {} /\ UNCHANGED <<handle, disk, condition>>
    BY DEF Reopen
  <1>3. edits' \in 0..MaxEdits
    BY EditsAssumption DEF Reopen, Call, TfmTypeOK
  <1>4. \A i \in Ids : Opened[i] = None \/ Opened[i] \in Transforms
    BY TfmsReloaded DEF Opened, TfmTypeOK
  <1>5. ASSUME NEW c \in Cells, \E i \in Ids : registry'[i] = c
        PROVE  c \notin Held /\ cell'[c] \in Transforms
    <2>1. PICK i \in Ids : i = CHOOSE j \in Ids : registry'[j] = c
      BY <1>5
    <2>2. registry'[i] = c
      BY <1>5, <2>1
    <2>3. c # None
      BY NoneAssumption
    <2>4. Opened[i] # None /\ c = free[i]
      BY <1>1, <2>2, <2>3
    <2>5. cell'[c] = Opened[i]
      BY <1>2, <1>5, <2>1
    <2> QED
      BY <1>1, <1>4, <2>4, <2>5
  <1>6. DOMAIN cell' = Cells /\ \A c \in Cells : cell'[c] = None \/ cell'[c] \in Transforms
    <2> SUFFICES ASSUME NEW c \in Cells PROVE cell'[c] = None \/ cell'[c] \in Transforms
      BY <1>2
    <2>1. CASE \E i \in Ids : registry'[i] = c
      BY <1>5, <2>1
    <2>2. CASE ~\E i \in Ids : registry'[i] = c
      <3>1. cell'[c] = cell[c] \/ cell'[c] = None
        BY <1>2, <2>2
      <3> QED
        BY <3>1 DEF TfmTypeOK
    <2> QED
      BY <2>1, <2>2
  <1>7. \A g \in Handles : handle'[g] \in Cells /\ Value(g)' \in Transforms
    <2> SUFFICES ASSUME NEW g \in Handles PROVE handle[g] \in Cells /\ cell'[handle[g]] \in Transforms
      BY <1>2 DEF Value
    <2>1. handle[g] \in Cells /\ handle[g] \in Held /\ cell[handle[g]] \in Transforms
      BY DEF TfmTypeOK, Value, Held
    <2>2. ~\E i \in Ids : registry'[i] = handle[g]
      BY <1>5, <2>1
    <2> QED
      BY <1>2, <2>1, <2>2
  <1>8. DOMAIN registry' = Ids /\ \A i \in Ids :
            registry'[i] = None \/ (registry'[i] \in Cells /\ cell'[registry'[i]] \in Transforms)
    <2> SUFFICES ASSUME NEW i \in Ids, registry'[i] # None
                 PROVE  registry'[i] \in Cells /\ cell'[registry'[i]] \in Transforms
      BY <1>1
    <2>1. registry'[i] \in Cells
      BY <1>1
    <2> QED
      BY <1>5, <2>1
  <1> QED
    BY <1>2, <1>3, <1>6, <1>7, <1>8 DEF TfmTypeOK

\* What the calls on pointers and on the registry do.
LEMMA PointersKeep == ASSUME TfmTypeOK, OnPointers PROVE TfmTypeOK'
  <1>1. PICK h \in Handles :
            \/ New(h)
            \/ \E s, t \in Volumes \cup {None} : Label(h, s, t)
            \/ Reset(h)
            \/ Clear(h)
            \/ \E f \in {<<1, 1, 0>>, <<2, 0, 0>>, <<1, 0, 1>>} : Move(h, f)
            \/ \E g \in Handles : PushBack(h, g)
            \/ Simplify(h)
            \/ \E l, r \in Handles : Multiply(h, l, r)
            \/ \E g \in Handles \ {h} : Clone(h, g)
            \/ \E g \in Handles : InvertInto(h, g)
    BY DEF OnPointers
  <1>2. edits' \in 0..MaxEdits
    <2>1. Call
      BY <1>1 DEF New, Label, Reset, Clear, Move, PushBack, Simplify, Multiply, Clone, InvertInto
    <2> QED
      BY <2>1, EditsAssumption DEF Call, TfmTypeOK
  <1>3. None \in Labels /\ Volumes \cup {None} = Labels
    BY DEF Labels
  <1>4. \A g \in Handles : Value(g) \in Transforms
    BY DEF TfmTypeOK
  <1>5. ASSUME NEW t \in Transforms, Make(h, t) PROVE TfmTypeOK'
    BY <1>2, <1>5, FreshIsACell, PointKeeps DEF Make
  <1>6. CASE New(h)
    <2>1. PICK t \in {Affine(Identity, None, None), IdentityTfm(None, None),
                      Stack(<<>>, None, None)} : Make(h, t)
      BY <1>6 DEF New
    <2>2. t \in Transforms
      BY <2>1, TfmsMade
    <2> QED
      BY <1>5, <2>1, <2>2
  <1>7. CASE \E s, t \in Volumes \cup {None} : Label(h, s, t)
    BY <1>2, <1>3, <1>4, <1>7, TfmsChanged, ChangeKeeps DEF Label
  <1>8. CASE Reset(h)
    BY <1>2, <1>4, <1>8, TfmsChanged, ChangeKeeps DEF Reset
  <1>9. CASE Clear(h)
    <2>1. ResetTfm(Value(h)) \in Transforms
      BY <1>4, TfmsChanged
    <2> QED
      BY <1>2, <1>3, <1>9, <2>1, TfmsChanged, ChangeKeeps DEF Clear
  <1>10. CASE \E f \in {<<1, 1, 0>>, <<2, 0, 0>>, <<1, 0, 1>>} : Move(h, f)
    <2>1. PICK f \in {<<1, 1, 0>>, <<2, 0, 0>>, <<1, 0, 1>>} :
                    /\ Value(h).kind = "affine"
                    /\ Change(h, [Value(h) EXCEPT !.map = Then(@, f)])
      BY <1>10 DEF Move
    <2>2. ~IsStack(Value(h))
      BY <2>1 DEF IsStack
    <2>3. PICK m \in Maps : m = Then(Value(h).map, f)
      <3>1. f \in Maps
        BY <2>1 DEF Maps
      <3>2. Value(h).map \in Maps
        BY <1>4, <2>2, TfmShapes, PlainParts
      <3> QED
        BY <3>1, <3>2, MapsCompose
    <2>4. [Value(h) EXCEPT !.map = Then(@, f)] \in Transforms
      BY <1>4, <2>2, <2>3, TfmsChanged
    <2> QED
      BY <1>2, <2>1, <2>4, ChangeKeeps
  <1>11. CASE \E g \in Handles : PushBack(h, g)
    <2>1. PICK g \in Handles : PushBack(h, g)
      BY <1>11
    <2>2. CASE End("crashed") \/ End("hung")
      BY <1>2, <2>2, EndKeeps
    <2>3. CASE ~(End("crashed") \/ End("hung"))
      <3>1. PICK parts : /\ IsStack(Value(h)) /\ ~HasNull(Value(g)) /\ ~PushHangs(Value(g))
                         /\ parts = Pushed(Value(h).parts, Value(g))
                         /\ Change(h, [Value(h) EXCEPT !.parts = parts])
        BY <2>1, <2>3 DEF PushBack
      <3>2. HeadMayBeNull(parts)
        BY <1>4, <3>1, TfmShapes, PushedIsPart, PushedTypes
      <3> QED
        BY <1>2, <1>4, <3>1, <3>2, TfmsChanged, ChangeKeeps
    <2> QED
      BY <2>2, <2>3
  <1>12. CASE Simplify(h)
    <2>1. PICK parts : /\ IsStack(Value(h)) /\ parts = Simplified(Value(h).parts)
                       /\ Change(h, [Value(h) EXCEPT !.parts = parts])
      BY <1>4, <1>12 DEF Simplify
    <2>2. HeadMayBeNull(parts)
      BY <1>4, <2>1, TfmShapes, SimplifiedTypes
    <2> QED
      BY <1>2, <1>4, <2>1, <2>2, TfmsChanged, ChangeKeeps
  <1>13. CASE \E l, r \in Handles : Multiply(h, l, r)
    BY <1>4, <1>5, <1>13, TfmsComposed DEF Multiply
  <1>14. CASE \E g \in Handles \ {h} : Clone(h, g)
    BY <1>4, <1>5, <1>14 DEF Clone
  <1>15. CASE \E g \in Handles : InvertInto(h, g)
    BY <1>4, <1>5, <1>15, TfmsDerived DEF InvertInto
  <1> QED
    BY <1>1, <1>6, <1>7, <1>8, <1>9, <1>10, <1>11, <1>12, <1>13, <1>14, <1>15

LEMMA RegistryKeeps == ASSUME TfmTypeOK, OnRegistry PROVE TfmTypeOK'
  <1>1. edits' \in 0..MaxEdits
    BY EditsAssumption DEF OnRegistry, AddTransform, SetTransform, Lookup, LookupInverse, Reopen,
       Call, TfmTypeOK
  <1>2. CASE \E h \in Handles : AddTransform(h)
    <2>1. PICK h \in Handles : /\ NewIds # {}
                               /\ End("crashed") \/ (~HasNull(Value(h)) /\ Store(Min(NewIds), h))
      BY <1>2 DEF AddTransform
    <2>2. Min(NewIds) \in Ids
      <3>1. NewIds \subseteq Nat
        BY IdsAssumption, CellsSuffice DEF NewIds
      <3> QED
        BY <2>1, <3>1, MinIsMember DEF NewIds
    <2> QED
      BY <1>1, <2>1, <2>2, EndKeeps, StoreKeeps
  <1>3. CASE \E h \in Handles, i \in Ids : SetTransform(i, h)
    BY <1>1, <1>3, EndKeeps, StoreKeeps DEF SetTransform
  <1>4. CASE \E h \in Handles, i \in Ids : Lookup(h, i)
    BY <1>1, <1>4, PointKeeps DEF Lookup, TfmTypeOK
  <1>5. CASE \E h \in Handles, i \in Ids : LookupInverse(h, i)
    <2>1. PICK h \in Handles, i \in Ids : /\ registry[i] # None
                                          /\ Invertible(cell[registry[i]])
                                          /\ Make(h, Invert(cell[registry[i]]))
      BY <1>5 DEF LookupInverse
    <2>2. Invert(cell[registry[i]]) \in Transforms
      BY <2>1, TfmsDerived DEF TfmTypeOK
    <2> QED
      BY <1>1, <2>1, <2>2, FreshIsACell, PointKeeps DEF Make
  <1>6. CASE Reopen
    BY <1>6, ReopenKeeps
  <1> QED
    BY <1>2, <1>3, <1>4, <1>5, <1>6 DEF OnRegistry

LEMMA TfmInitTypes == TfmInit => TfmTypeOK
  <1> SUFFICES ASSUME TfmInit PROVE TfmTypeOK
    OBVIOUS
  <1>1. Handles \subseteq Cells
    BY HandlesAssumption, CellsSuffice DEF Cells
  <1>2. PICK f \in [Handles -> Prepared] :
            cell = [c \in Cells |-> IF c \in Handles THEN f[c] ELSE None]
    BY DEF TfmInit
  <1>3. \A h \in Handles : f[h] \in Transforms
    BY <1>2, PreparedAssumption
  <1>4. /\ handle = [h \in Handles |-> h] /\ registry = [i \in Ids |-> None]
        /\ condition = "running" /\ unsaved = {} /\ edits = 0
        /\ DOMAIN disk = Ids /\ \A i \in Ids : disk[i] \in {None, Unreadable}
    BY DEF TfmInit
  <1> QED
    BY <1>1, <1>2, <1>3, <1>4, EditsAssumption DEF TfmTypeOK, Value

\* The package is opened for vc_render: only the program that edited it is over.
LEMMA OpenTypes == ASSUME Open PROVE TfmTypeOK'
  <1>1. Handles \subseteq Cells
    BY HandlesAssumption, CellsSuffice DEF Cells
  <1>2. IdentityTfm(None, None) \in Transforms
    BY TfmsMade
  <1>3. /\ handle' = [h \in Handles |-> h]
        /\ cell' = [c \in Cells |-> IF c \in Handles THEN IdentityTfm(None, None) ELSE None]
        /\ registry' = [i \in Ids |-> None] /\ disk' = registry'
        /\ unsaved' = {} /\ edits' = 0 /\ condition' = "over"
    BY DEF Open
  <1> QED
    BY <1>1, <1>2, <1>3, EditsAssumption DEF TfmTypeOK, Value

\* The steps of main() after the package is opened.
LEMMA BuildLeavesTransforms ==
    ASSUME Build \/ UpdateGraph \/ UpdateFails
    PROVE  UNCHANGED tfmVars
  BY DEF Build, UpdateGraph, UpdateFails, Segmentation, MeshFile, NoInput, Volume, NoVolume,
     TransformAsked, TransformUnknown, TransformFound, TransformDisabled, TransformNone,
     NoTransform, Choose, TransformRaw, Scale, Resample, KeepVertices, NoMeasure, Orient,
     TransformResampled, Flatten, NoFlattening, TurnMap, Plot, GeneratePPM, Texture, NoMask,
     Write, NoSequence, Fails

LEMMA TransformTypesKept == ASSUME TfmTypeOK, [Next]_pipelineVars PROVE TfmTypeOK'
  <1>1. ASSUME UNCHANGED tfmVars PROVE TfmTypeOK'
    BY <1>1 DEF tfmVars, pointers, package, TfmTypeOK, Value
  <1>2. CASE Edit
    BY <1>2, PointersKeep, RegistryKeeps DEF Edit, TfmNext
  <1>3. CASE Open
    BY <1>3, OpenTypes
  <1>4. CASE Build \/ UpdateGraph \/ UpdateFails
    BY <1>1, <1>4, BuildLeavesTransforms
  <1>5. CASE UNCHANGED pipelineVars
    BY <1>1, <1>5 DEF pipelineVars
  <1> QED
    BY <1>2, <1>3, <1>4, <1>5 DEF Next

\* However pointers to transforms are shared between the caller and the registry, each
\* points to a transform that is still there; and however stacks are pushed, simplified,
\* saved and loaded, no stack in a stack has stacks in it (Transforms.cpp, VolumePkg.cpp).
THEOREM PointersStayLive == Spec => []TfmTypeOK
  <1>1. Init => TfmTypeOK
    BY TfmInitTypes DEF Init
  <1>2. TfmTypeOK /\ [Next]_pipelineVars => TfmTypeOK'
    BY TransformTypesKept
  <1> QED
    BY <1>1, <1>2, PTL DEF Spec

-----------------------------------------------------------------------------
\* A registered transform that has not been changed since is what its file holds, as it was
\* saved or as it was loaded.
RegistryInv ==
    \A i \in Ids : registry[i] # None =>
        /\ disk[i] \in Saved
        /\ i \notin unsaved => cell[registry[i]] \in {disk[i], Reloaded(disk[i])}

LEMMA PointKeepsFiles ==
    ASSUME TfmTypeOK, RegistryInv, NEW h \in Handles, NEW c \in Cells, NEW t, Point(h, c, t),
           c \notin Registered \/ t = cell[c]
    PROVE  RegistryInv'
  <1>1. /\ UNCHANGED <<registry, disk, unsaved>>
        /\ cell' = Collected([cell EXCEPT ![c] = t], handle', registry)
    BY DEF Point, package
  <1>2. ASSUME NEW i \in Ids, registry[i] # None PROVE cell'[registry[i]] = cell[registry[i]]
    <2>1. PICK d \in Cells : d = registry[i] /\ d \in Registered
      BY <1>2 DEF TfmTypeOK, Registered
    <2>2. [cell EXCEPT ![c] = t][d] = cell[d]
      BY <2>1 DEF TfmTypeOK
    <2>3. cell'[d] = [cell EXCEPT ![c] = t][d]
      BY <1>1, <1>2, <2>1 DEF Collected
    <2> QED
      BY <2>1, <2>2, <2>3
  <1> QED
    BY <1>1, <1>2 DEF RegistryInv

LEMMA ChangeKeepsFiles ==
    ASSUME TfmTypeOK, RegistryInv, NEW h \in Handles, NEW t, Change(h, t)
    PROVE  RegistryInv'
  <1>1. /\ cell' = [cell EXCEPT ![handle[h]] = t]
        /\ unsaved' = unsaved \cup {i \in Ids : registry[i] = handle[h] /\ t # Value(h)}
        /\ UNCHANGED <<registry, disk>>
    BY DEF Change
  <1>2. ASSUME NEW i \in Ids, registry[i] # None, i \notin unsaved'
        PROVE  i \notin unsaved /\ cell'[registry[i]] = cell[registry[i]]
    <2>1. registry[i] = handle[h] => t = cell[registry[i]]
      BY <1>1, <1>2 DEF Value
    <2> QED
      BY <1>1, <1>2, <2>1 DEF TfmTypeOK
  <1> QED
    BY <1>1, <1>2 DEF RegistryInv

LEMMA StoreKeepsFiles ==
    ASSUME TfmTypeOK, RegistryInv, NEW h \in Handles, NEW i \in Ids, ~HasNull(Value(h)), Store(i, h)
    PROVE  RegistryInv'
  <1>1. /\ registry' = [registry EXCEPT ![i] = handle[h]]
        /\ disk' = [disk EXCEPT ![i] = Value(h)]
        /\ unsaved' = unsaved \ {i}
        /\ cell' = Collected(cell, handle, registry')
    BY DEF Store
  <1>2. \A j \in Ids : /\ registry'[j] = IF j = i THEN handle[h] ELSE registry[j]
                      /\ disk'[j] = IF j = i THEN Value(h) ELSE disk[j]
    BY <1>1 DEF TfmTypeOK
  <1>3. Value(h) \in Saved /\ handle[h] \in Cells
    BY SavedShapes DEF TfmTypeOK
  <1>4. ASSUME NEW j \in Ids, registry'[j] # None PROVE cell'[registry'[j]] = cell[registry'[j]]
    <2>1. PICK d \in Cells : d = registry'[j]
      BY <1>2, <1>3, <1>4 DEF TfmTypeOK
    <2>2. cell'[d] = cell[d]
      BY <1>1, <2>1 DEF Collected
    <2> QED
      BY <2>1, <2>2
  <1>5. ASSUME NEW j \in Ids, registry'[j] # None
        PROVE  /\ disk'[j] \in Saved
               /\ j \notin unsaved' => cell'[registry'[j]] \in {disk'[j], Reloaded(disk'[j])}
    <2>1. CASE j = i
      BY <1>2, <1>3, <1>4, <1>5, <2>1 DEF Value
    <2>2. CASE j # i
      <3>1. registry'[j] = registry[j] /\ disk'[j] = disk[j] /\ registry[j] # None
        BY <1>2, <1>5, <2>2
      <3>2. cell'[registry'[j]] = cell[registry[j]]
        BY <1>4, <1>5, <3>1
      <3>3. j \notin unsaved' => j \notin unsaved
        BY <1>1, <2>2
      <3>4. disk[j] \in Saved /\ (j \notin unsaved => cell[registry[j]] \in {disk[j], Reloaded(disk[j])})
        BY <3>1 DEF RegistryInv
      <3> QED
        BY <3>1, <3>2, <3>3, <3>4
    <2> QED
      BY <2>1, <2>2
  <1> QED
    BY <1>5 DEF RegistryInv

\* What is loaded, and where.
LEMMA ReopenLoads ==
    ASSUME TfmTypeOK, Reopen, NEW i \in Ids
    PROVE  /\ disk' = disk
           /\ disk[i] \in Saved => /\ registry'[i] # None
                                   /\ cell'[registry'[i]] = Reloaded(disk[i])
           /\ disk[i] \notin Saved => registry'[i] = None
  <1>1. PICK free : /\ free \in [Ids -> Cells \ Held] /\ IsInjective(free)
                    /\ registry' = [j \in Ids |-> IF Opened[j] = None THEN None ELSE free[j]]
    BY CellsToLoadInto DEF Reopen
  <1>2. /\ cell' = [c \in Cells |-> IF \E j \in Ids : registry'[j] = c
                                    THEN Opened[CHOOSE j \in Ids : registry'[j] = c]
                                    ELSE IF c \in Held THEN cell[c] ELSE None]
        /\ disk' = disk
    BY DEF Reopen
  <1>3. None \notin Saved /\ Unreadable \notin Saved
    BY SavedShapes, NoneAssumption
  <1>4. ASSUME disk[i] \in Saved PROVE registry'[i] # None /\ cell'[registry'[i]] = Reloaded(disk[i])
    <2>1. Opened[i] = Reloaded(disk[i]) /\ Opened[i] # None
      BY <1>3, <1>4, TfmsReloaded DEF Opened
    <2>2. registry'[i] = free[i] /\ free[i] \in Cells /\ free[i] # None
      BY <1>1, <2>1, NoneAssumption
    <2>3. PICK j \in Ids : j = CHOOSE k \in Ids : registry'[k] = free[i]
      BY <2>2
    <2>4. registry'[j] = free[i]
      BY <2>2, <2>3
    <2>5. j = i
      BY <1>1, <2>2, <2>4 DEF IsInjective
    <2>6. cell'[free[i]] = Opened[j]
      BY <1>2, <2>2, <2>3
    <2> QED
      BY <2>1, <2>2, <2>5, <2>6
  <1>5. ASSUME disk[i] \notin Saved PROVE registry'[i] = None
    BY <1>1, <1>5 DEF Opened, TfmTypeOK
  <1> QED
    BY <1>2, <1>4, <1>5

LEMMA RegistryInvKept == ASSUME TfmTypeOK, RegistryInv, TfmNext PROVE RegistryInv'
  <1>1. ASSUME NEW h \in Handles, NEW t, Make(h, t) PROVE RegistryInv'
    BY <1>1, FreshIsACell, PointKeepsFiles DEF Make
  <1>2. ASSUME NEW how, End(how) PROVE RegistryInv'
    BY <1>2 DEF End, pointers, package, RegistryInv
  <1>3. CASE OnPointers
    <2>1. PICK h \in Handles :
              \/ New(h)
              \/ \E s, t \in Volumes \cup {None} : Label(h, s, t)
              \/ Reset(h)
              \/ Clear(h)
              \/ \E f \in {<<1, 1, 0>>, <<2, 0, 0>>, <<1, 0, 1>>} : Move(h, f)
              \/ \E g \in Handles : PushBack(h, g)
              \/ Simplify(h)
              \/ \E l, r \in Handles : Multiply(h, l, r)
              \/ \E g \in Handles \ {h} : Clone(h, g)
              \/ \E g \in Handles : InvertInto(h, g)
      BY <1>3 DEF OnPointers
    <2>2. CASE New(h) \/ (\E l, r \in Handles : Multiply(h, l, r))
               \/ (\E g \in Handles \ {h} : Clone(h, g)) \/ (\E g \in Handles : InvertInto(h, g))
      <3>1. \E t : Make(h, t)
        BY <2>2 DEF New, Multiply, Clone, InvertInto
      <3> QED
        BY <1>1, <3>1
    <2>3. CASE (\E s, t \in Volumes \cup {None} : Label(h, s, t)) \/ Reset(h) \/ Clear(h)
               \/ (\E f \in {<<1, 1, 0>>, <<2, 0, 0>>, <<1, 0, 1>>} : Move(h, f)) \/ Simplify(h)
      <3>1. \E t : Change(h, t)
        BY <2>3 DEF Label, Reset, Clear, Move, Simplify
      <3> QED
        BY <3>1, ChangeKeepsFiles
    <2>4. CASE \E g \in Handles : PushBack(h, g)
      <3>1. End("crashed") \/ End("hung") \/ (\E t : Change(h, t))
        BY <2>4 DEF PushBack
      <3> QED
        BY <1>2, <3>1, ChangeKeepsFiles
    <2> QED
      BY <2>1, <2>2, <2>3, <2>4
  <1>4. CASE \E h \in Handles : AddTransform(h)
    <2>1. PICK h \in Handles : /\ NewIds # {}
                               /\ End("crashed") \/ (~HasNull(Value(h)) /\ Store(Min(NewIds), h))
      BY <1>4 DEF AddTransform
    <2>2. Min(NewIds) \in Ids
      <3>1. NewIds \subseteq Nat
        BY IdsAssumption, CellsSuffice DEF NewIds
      <3> QED
        BY <2>1, <3>1, MinIsMember DEF NewIds
    <2> QED
      BY <1>2, <2>1, <2>2, StoreKeepsFiles
  <1>5. CASE \E h \in Handles, i \in Ids : SetTransform(i, h)
    BY <1>2, <1>5, StoreKeepsFiles DEF SetTransform
  <1>6. CASE \E h \in Handles, i \in Ids : Lookup(h, i)
    BY <1>6, PointKeepsFiles DEF Lookup, TfmTypeOK
  <1>7. CASE \E h \in Handles, i \in Ids : LookupInverse(h, i)
    BY <1>1, <1>7 DEF LookupInverse
  <1>8. CASE Reopen
    BY <1>8, ReopenLoads DEF RegistryInv
  <1> QED
    BY <1>3, <1>4, <1>5, <1>6, <1>7, <1>8 DEF TfmNext, OnRegistry

LEMMA TransformsInvariant == Spec => [](TfmTypeOK /\ RegistryInv)
  <1>1. Init => TfmTypeOK /\ RegistryInv
    BY TfmInitTypes DEF Init, TfmInit, RegistryInv
  <1>2. TfmTypeOK /\ RegistryInv /\ [Next]_pipelineVars => (TfmTypeOK /\ RegistryInv)'
    <2> SUFFICES ASSUME TfmTypeOK, RegistryInv, [Next]_pipelineVars PROVE RegistryInv'
      BY TransformTypesKept
    <2>1. ASSUME UNCHANGED tfmVars PROVE RegistryInv'
      BY <2>1 DEF tfmVars, pointers, package, RegistryInv
    <2>2. CASE Edit
      BY <2>2, RegistryInvKept DEF Edit
    <2>3. CASE Open
      BY <2>3 DEF Open, RegistryInv
    <2>4. CASE Build \/ UpdateGraph \/ UpdateFails
      BY <2>1, <2>4, BuildLeavesTransforms
    <2>5. CASE UNCHANGED pipelineVars
      BY <2>1, <2>5 DEF pipelineVars
    <2> QED
      BY <2>2, <2>3, <2>4, <2>5 DEF Next
  <1> QED
    BY <1>1, <1>2, PTL DEF Spec

\* simplify() leaves what a stack does to points as it was, whatever is in the stack
\* (CompositeTransform::simplify, Transforms.cpp).
THEOREM SimplifyingKeepsPoints == Spec => SimplifyKeepsPoints
  <1> DEFINE Kept == \A h \in Handles :
           (Simplify(h) /\ ~HasNull(Value(h)) /\ Value(h).parts # <<>>)
               => PointMap(Value(h)') = PointMap(Value(h))
  <1>1. TfmTypeOK => Kept
    <2> SUFFICES ASSUME TfmTypeOK, NEW h \in Handles, Simplify(h), ~HasNull(Value(h)),
                        Value(h).parts # <<>>
                 PROVE  PointMap(Value(h)') = PointMap(Value(h))
      OBVIOUS
    <2>1. PICK t \in Saved : t = Value(h)
      BY SavedShapes DEF TfmTypeOK
    <2>2. /\ IsStack(t) /\ t.parts \in Seq(Parts) /\ t.parts # <<>>
          /\ t = [kind |-> t.kind, map |-> t.map, parts |-> t.parts, src |-> t.src, tgt |-> t.tgt]
      BY <2>1, SavedShapes, TfmShapes DEF Simplify
    <2>3. PICK new : new = [t EXCEPT !.parts = Simplified(t.parts)]
      OBVIOUS
    <2>4. Change(h, new)
      BY <2>1, <2>3 DEF Simplify
    <2>5. Value(h)' = new
      BY <2>4 DEF Change, Value, TfmTypeOK
    <2>6. new.kind = t.kind /\ new.parts = Simplified(t.parts)
      BY <2>2, <2>3
    <2>7. PointMap(new) = InTurn(PartMaps(Simplified(t.parts))) /\ PointMap(t) = InTurn(PartMaps(t.parts))
      BY <2>2, <2>6 DEF PointMap, IsStack
    <2>8. PointMap(new) = PointMap(t)
      BY <2>2, <2>7, SimplifiedMap
    <2>9. PICK now : now = Value(h)'
      OBVIOUS
    <2> QED
      BY <2>1, <2>5, <2>8
  <1>2. TfmTypeOK => [Kept]_tfmVars
    BY <1>1
  <1> QED
    BY <1>2, PointersStayLive, PTL DEF SimplifyKeepsPoints

\* Opening a package again gives the registered transforms back, but for what was changed
\* behind the registry's back and stacks that are repeated (VolumePkg.cpp, Transforms.cpp).
THEOREM ReopeningRestores == Spec => ReopenRestores
  <1> DEFINE Restored ==
        Reopen =>
          \A i \in Ids :
            LET old == cell[registry[i]]
                new == cell'[registry'[i]]
            IN  (/\ registry[i] # None
                 /\ i \notin unsaved
                 /\ ~HasNull(old)
                 /\ \A n \in DOMAIN old.parts : Len(old.parts[n].parts) <= 1)
                => /\ registry'[i] # None
                   /\ PointMap(new) = PointMap(old)
                   /\ new.src = old.src /\ new.tgt = old.tgt
  <1>1. TfmTypeOK /\ RegistryInv => Restored
    <2> SUFFICES ASSUME TfmTypeOK, RegistryInv, Reopen, NEW i \in Ids,
                        registry[i] # None, i \notin unsaved,
                        NEW old, old = cell[registry[i]],
                        \A n \in DOMAIN old.parts : Len(old.parts[n].parts) <= 1
                 PROVE  /\ registry'[i] # None
                        /\ PointMap(cell'[registry'[i]]) = PointMap(old)
                        /\ cell'[registry'[i]].src = old.src
                        /\ cell'[registry'[i]].tgt = old.tgt
      OBVIOUS
    <2>1. disk[i] \in Saved /\ cell[registry[i]] \in {disk[i], Reloaded(disk[i])}
      BY DEF RegistryInv
    <2>2. registry'[i] # None /\ cell'[registry'[i]] = Reloaded(disk[i])
      BY <2>1, ReopenLoads
    <2>3. CASE cell[registry[i]] = Reloaded(disk[i])
      BY <2>2, <2>3
    <2>4. CASE cell[registry[i]] = disk[i]
      BY <2>1, <2>2, <2>4, TfmsReloaded
    <2> QED
      BY <2>1, <2>3, <2>4
  <1>2. TfmTypeOK /\ RegistryInv => [Restored]_tfmVars
    BY <1>1
  <1> QED
    BY <1>2, TransformsInvariant, PTL DEF ReopenRestores

-----------------------------------------------------------------------------
(***************************************************************************)
(* What vc_render makes of its options.                                    *)
(***************************************************************************)
\* The stages up to the one where main() reads the input, the volume, and so on.
ToInput == {"off", "input"}
ToVolume == ToInput \cup {"volume"}
ToTransform == ToVolume \cup {"transform"}
ToRaw == ToTransform \cup {"raw"}
ToResample == ToRaw \cup {"scale", "resample"}
ToResampled == ToResample \cup {"orient", "resampled"}
ToFlatten == ToResampled \cup {"flatten"}
ToPlot == ToFlatten \cup {"turn", "plot"}
ToPPM == ToPlot \cup {"ppm"}
Stages == ToPPM \cup {"texture", "write", "update"}

Meshes == [space : Volumes \cup {Astray}, normals : {"fit", "none", "garbage", "off"},
           cut : {0, 1}, scaled : BOOLEAN]
UVMaps == [cut : {0, 1}, turned : BOOLEAN]

Inputs == [here : SUBSET Volumes, seg : BOOLEAN, home : Volumes \cup {None},
           src : Volumes \cup {None}, tgt : Volumes \cup {None}, differ : BOOLEAN,
           texture : Volumes \cup {None}]

UVs == [map : UVMaps \cup {None, Nil}, mesh : UVMaps \cup {None, Nil},
        error : UVMaps \cup {None, Nil}, drawn : BOOLEAN, errorDrawn : BOOLEAN]

RenderTypeOK ==
    /\ stage \in Stages \cup {"done"}
    /\ \A i \in Ids : offered[i] = None \/ offered[i] \in Transforms
    /\ vols \in Inputs
    /\ tfm \in [way : {"default", "asked"}, at : {"raw", "resampled", "ppm"},
                use : Uses \cup {None, Nil}]
    /\ stage \in Stages \ ToInput => mesh \in Meshes
    /\ uv \in UVs

\* Whose volume the texture is sampled from.
VolumesInv ==
    /\ stage \in ToInput => vols.src = None /\ ~vols.seg
    /\ vols.src \in {None, vols.home}
    /\ stage \in Stages \ ToInput => vols.home \in Volumes
    /\ stage \in Stages \ ToVolume =>
           /\ vols.tgt # None => vols.texture = vols.tgt
           /\ ~vols.differ /\ vols.src # None => vols.texture = vols.src

\* A transform the program chose leads from the input's volume to the one asked for.
ChoiceInv ==
    /\ stage \in ToTransform => tfm.use = None
    /\ tfm.way = "default" /\ tfm.use # None =>
           /\ tfm.use \in Uses
           /\ vols.differ /\ vols.src # None /\ vols.tgt # None
           /\ tfm.use.src = vols.src /\ tfm.use.tgt = vols.tgt

\* The transform has been applied to the mesh.
IsMoved ==
    /\ tfm.use # None
    /\ \/ tfm.at = "raw" /\ stage \notin ToRaw
       \/ tfm.at = "resampled" /\ stage \notin ToResampled

\* Where the mesh is, and whether its vertices are still the input's.
PlaceInv ==
    /\ stage \in ToRaw \ ToInput => mesh.space = vols.home /\ ~mesh.scaled
    /\ stage \in Stages \ ToRaw /\ Straight =>
           mesh.space = IF IsMoved THEN vols.tgt ELSE vols.src
    /\ stage \in ToResample \ ToInput => mesh.cut = 0

\* How its normals come not to fit.
NormalsInv ==
    stage \in Stages \ ToInput =>
        /\ mesh.normals = "off" =>
               /\ stage \notin ToRaw
               /\ tfm.use \in Uses /\ tfm.use.spoils /\ (tfm.at # "raw" \/ mesh.cut = 0)
        /\ mesh.normals \in {"none", "garbage"} => ~vols.seg /\ mesh.cut = 0

\* UVMaps belong to the mesh that is flattened, or to the one that was read.
MapInv ==
    /\ stage \in ToFlatten =>
           /\ uv.mesh = None /\ uv.error = None
           /\ uv.map \notin {None, Nil} => uv.map.cut = 0
    /\ stage \in ToPlot => ~uv.drawn /\ ~uv.errorDrawn
    /\ stage \in Stages \ ToFlatten /\ uv.map # Nil =>
           /\ uv.map \in UVMaps
           /\ uv.map.cut = mesh.cut
           /\ uv.mesh \in {None, uv.map}
           /\ uv.error # None => uv.error.cut = mesh.cut
           /\ uv.drawn => uv.mesh = uv.map
           /\ uv.errorDrawn => uv.error.cut = mesh.cut

\* What has been made yet.
MadeInv ==
    /\ stage \in ToResample => counted = None
    /\ stage \in ToPPM => ppm = None

RenderInv ==
    /\ RenderTypeOK
    /\ VolumesInv
    /\ ChoiceInv
    /\ PlaceInv
    /\ NormalsInv
    /\ MapInv
    /\ MadeInv
    /\ DefaultsLandInTheVolume
    /\ CountedInItsOwnVoxels
    /\ NormalsFitTheSurface
    /\ MapsFitTheMesh

-----------------------------------------------------------------------------
\* The names of stages and of sets of them are always expanded from here on.
USE DEF Goes, Fails, ToInput, ToVolume, ToTransform, ToRaw, ToResample, ToResampled, ToFlatten,
        ToPlot, ToPPM, Stages

LEMMA RenderInitInv == RenderInit => RenderInv
  BY AstrayAssumption DEF RenderInit, RenderInv, RenderTypeOK, VolumesInv, ChoiceInv, PlaceInv,
     NormalsInv, MapInv, MadeInv, DefaultsLandInTheVolume, CountedInItsOwnVoxels,
     NormalsFitTheSurface, MapsFitTheMesh, Straight, IsMoved, Meshes, UVMaps, Inputs, UVs

LEMMA OpenInv == ASSUME RenderInv, TfmTypeOK, Open PROVE RenderInv'
  <1>1. \A i \in Ids : Opened[i] = None \/ Opened[i] \in Transforms
    BY TfmsReloaded DEF Opened, TfmTypeOK
  <1> QED
    BY <1>1 DEF Open, RenderInv, RenderTypeOK, VolumesInv, ChoiceInv, PlaceInv, NormalsInv,
       MapInv, MadeInv, DefaultsLandInTheVolume, CountedInItsOwnVoxels, NormalsFitTheSurface,
       MapsFitTheMesh, Straight, IsMoved, Meshes, UVMaps, Inputs, UVs

\* main() returns early.
LEMMA FailsInv ==
    ASSUME RenderInv, NEW s \in Stages, Fails(s)
    PROVE  RenderInv'
  BY DEF RenderInv, RenderTypeOK, VolumesInv, ChoiceInv, PlaceInv, NormalsInv, MapInv, MadeInv,
     DefaultsLandInTheVolume, CountedInItsOwnVoxels, NormalsFitTheSurface, MapsFitTheMesh,
     Straight, IsMoved, Meshes, UVMaps, Inputs, UVs

\* The input is read, and the volumes are settled.
LEMMA InputInv ==
    ASSUME RenderInv, vols' \in Inputs, mesh' \in Meshes, uv' \in UVs,
           \/ stage = "input" /\ stage' = "volume"
           \/ stage = "volume" /\ stage' = "transform",
           VolumesInv', PlaceInv', NormalsInv', MapInv', UNCHANGED <<offered, tfm, counted, ppm>>
    PROVE  RenderInv'
  <1> USE DEF RenderInv
  <1>1. RenderTypeOK' /\ MadeInv'
    BY DEF RenderTypeOK, MadeInv
  <1>2. ChoiceInv'
    BY DEF ChoiceInv
  <1>3. /\ (DefaultsLandInTheVolume /\ NormalsFitTheSurface /\ MapsFitTheMesh)'
        /\ CountedInItsOwnVoxels'
    BY DEF MadeInv, DefaultsLandInTheVolume, NormalsFitTheSurface, MapsFitTheMesh,
       CountedInItsOwnVoxels
  <1> QED
    BY <1>1, <1>2, <1>3

LEMMA SegmentationInv == ASSUME RenderInv, Segmentation PROVE RenderInv'
  <1> USE DEF Segmentation, Meshed, RenderInv
  <1>1. vols' \in Inputs /\ uv' \in UVs
    BY DEF RenderTypeOK, Inputs
  <1>0. mesh' \in Meshes
    BY DEF Meshes
  <1>2. VolumesInv' /\ PlaceInv' /\ NormalsInv'
    BY DEF VolumesInv, PlaceInv, NormalsInv, RenderTypeOK, Inputs
  <1>3. MapInv'
    BY DEF MapInv
  <1> QED
    BY <1>0, <1>1, <1>2, <1>3, InputInv

LEMMA MeshFileInv == ASSUME RenderInv, MeshFile PROVE RenderInv'
  <1>1. PICK home \in Volumes : vols' = [vols EXCEPT !.home = home] /\ mesh' \in Loaded(home)
    BY DEF MeshFile
  <1>2. PICK map \in {None, Nil, [cut |-> 0, turned |-> FALSE]} : uv' = [uv EXCEPT !.map = map]
    BY DEF MeshFile
  <1>3. /\ stage = "input" /\ stage' = "volume" /\ UNCHANGED <<offered, tfm, counted, ppm>>
        /\ vols \in Inputs /\ uv \in UVs
    BY DEF MeshFile, RenderInv, RenderTypeOK
  <1>4. vols' \in Inputs /\ vols'.home = home /\ vols'.src = vols.src /\ vols'.seg = vols.seg
    BY <1>1, <1>3 DEF Inputs
  <1>5. /\ mesh' \in Meshes
        /\ mesh'.space = home /\ ~mesh'.scaled /\ mesh'.cut = 0 /\ mesh'.normals \in {"fit", "none"}
    BY <1>1 DEF Loaded, Meshed, Meshes
  <1>6. [cut |-> 0, turned |-> FALSE] \in UVMaps
    BY DEF UVMaps
  <1>7. map \in UVMaps \cup {None, Nil} /\ (map \notin {None, Nil} => map.cut = 0)
    <2>1. CASE map \in {None, Nil}
      BY <2>1
    <2>2. CASE map = [cut |-> 0, turned |-> FALSE]
      BY <1>6, <2>2
    <2> QED
      BY <1>2, <2>1, <2>2
  <1>8. /\ uv' \in UVs /\ uv'.map = map /\ uv'.mesh = uv.mesh /\ uv'.error = uv.error
        /\ uv'.drawn = uv.drawn /\ uv'.errorDrawn = uv.errorDrawn
    BY <1>2, <1>3, <1>7 DEF UVs
  <1>9. MapInv'
    BY <1>3, <1>7, <1>8 DEF MapInv, RenderInv
  <1>10. VolumesInv' /\ PlaceInv' /\ NormalsInv'
    BY <1>1, <1>3, <1>4, <1>5 DEF VolumesInv, PlaceInv, NormalsInv, RenderInv
  <1> QED
    BY <1>3, <1>4, <1>5, <1>8, <1>9, <1>10, InputInv

LEMMA VolumeInv == ASSUME RenderInv, Volume PROVE RenderInv'
  <1> USE DEF Volume, First, RenderInv
  <1>1. vols' \in Inputs /\ mesh' \in Meshes /\ uv' \in UVs
    BY DEF RenderTypeOK, Inputs
  <1>2. VolumesInv'
    BY DEF VolumesInv, RenderTypeOK, Inputs
  <1>3. PlaceInv' /\ NormalsInv' /\ MapInv'
    BY DEF PlaceInv, NormalsInv, MapInv, RenderTypeOK, Inputs
  <1> QED
    BY <1>1, <1>2, <1>3, InputInv

\* A stage before the mesh is flattened that changes nothing but the mesh.
LEMMA MeshStepInv ==
    ASSUME RenderInv, stage \in ToResampled \ ToTransform, stage' \in ToFlatten \ ToRaw,
           mesh' \in Meshes, PlaceInv', NormalsInv', CountedInItsOwnVoxels', MadeInv',
           UNCHANGED <<offered, vols, tfm, uv, ppm>>
    PROVE  RenderInv'
  <1> USE DEF RenderInv
  <1>1. RenderTypeOK' /\ VolumesInv' /\ ChoiceInv' /\ MapInv'
    BY DEF RenderTypeOK, VolumesInv, ChoiceInv, MapInv
  <1>2. (DefaultsLandInTheVolume /\ NormalsFitTheSurface /\ MapsFitTheMesh)'
    BY DEF MadeInv, DefaultsLandInTheVolume, NormalsFitTheSurface, MapsFitTheMesh
  <1> QED
    BY <1>1, <1>2

LEMMA TransformRawInv == ASSUME RenderInv, TransformRaw PROVE RenderInv'
  <1> USE DEF TransformRaw, MovedAt, Moved, RenderInv
  <1>1. mesh \in Meshes /\ mesh' \in Meshes
    BY AstrayAssumption DEF RenderTypeOK, Meshes
  <1>2. PlaceInv'
    BY <1>1, NilAssumption DEF PlaceInv, RenderTypeOK, Inputs, ChoiceInv, VolumesInv, Straight,
       IsMoved, Meshes
  <1>3. NormalsInv'
    BY <1>1 DEF NormalsInv, RenderTypeOK, ChoiceInv, PlaceInv, Meshes
  <1>4. MadeInv' /\ CountedInItsOwnVoxels'
    BY DEF MadeInv, CountedInItsOwnVoxels
  <1> QED
    BY <1>1, <1>2, <1>3, <1>4, MeshStepInv

LEMMA ScaleInv == ASSUME RenderInv, Scale PROVE RenderInv'
  <1> USE DEF Scale, Scaled, Copied, RenderInv
  <1>1. mesh \in Meshes /\ mesh' \in Meshes
    BY AstrayAssumption DEF RenderTypeOK, Meshes
  <1>2. PlaceInv'
    BY <1>1 DEF PlaceInv, Straight, IsMoved, Meshes
  <1>3. NormalsInv'
    <2>1. mesh'.normals = "off" => mesh.normals = "off" /\ mesh'.cut = mesh.cut
      BY <1>1 DEF Meshes
    <2>2. mesh'.normals \in {"none", "garbage"} =>
              mesh.normals \in {"none", "garbage"} /\ mesh'.cut = mesh.cut
      BY <1>1 DEF Meshes
    <2> QED
      BY <1>1, <2>1, <2>2 DEF NormalsInv
  <1>4. MadeInv' /\ CountedInItsOwnVoxels'
    BY DEF MadeInv, CountedInItsOwnVoxels
  <1> QED
    BY <1>1, <1>2, <1>3, <1>4, MeshStepInv

LEMMA ResampleInv == ASSUME RenderInv, Resample PROVE RenderInv'
  <1> USE DEF Resample, Resampled, Measure, First, RenderInv
  <1>1. mesh \in Meshes /\ mesh' \in Meshes
    BY DEF RenderTypeOK, Meshes
  <1>2. PlaceInv'
    BY <1>1 DEF PlaceInv, Straight, IsMoved, Meshes
  <1>3. NormalsInv' /\ MadeInv'
    BY <1>1 DEF NormalsInv, MadeInv, Meshes
  <1>4. CountedInItsOwnVoxels'
    BY <1>1 DEF CountedInItsOwnVoxels, RenderTypeOK, VolumesInv, ChoiceInv, PlaceInv, Straight,
       IsMoved, Meshes
  <1> QED
    BY <1>1, <1>2, <1>3, <1>4, MeshStepInv

LEMMA KeepVerticesInv == ASSUME RenderInv, KeepVertices PROVE RenderInv'
  <1> USE DEF KeepVertices, RenderInv
  <1>1. mesh' \in Meshes /\ PlaceInv' /\ NormalsInv'
    BY DEF RenderTypeOK, PlaceInv, NormalsInv, Straight, IsMoved
  <1>2. MadeInv' /\ CountedInItsOwnVoxels'
    BY DEF MadeInv, CountedInItsOwnVoxels
  <1> QED
    BY <1>1, <1>2, MeshStepInv

LEMMA OrientInv == ASSUME RenderInv, Orient PROVE RenderInv'
  <1> USE DEF Orient, Oriented, Copied, RenderInv
  <1>1. mesh \in Meshes /\ mesh' \in Meshes
    BY DEF RenderTypeOK, Meshes
  <1>2. PlaceInv' /\ NormalsInv'
    BY <1>1 DEF PlaceInv, NormalsInv, Straight, IsMoved, Meshes
  <1>3. MadeInv' /\ CountedInItsOwnVoxels'
    BY <1>1 DEF MadeInv, CountedInItsOwnVoxels, Straight, Meshes
  <1> QED
    BY <1>1, <1>2, <1>3, MeshStepInv

LEMMA TransformResampledInv == ASSUME RenderInv, TransformResampled PROVE RenderInv'
  <1> USE DEF TransformResampled, MovedAt, Moved, RenderInv
  <1>1. mesh \in Meshes /\ mesh' \in Meshes
    BY AstrayAssumption DEF RenderTypeOK, Meshes
  <1>2. PlaceInv'
    BY <1>1, NilAssumption DEF PlaceInv, RenderTypeOK, Inputs, ChoiceInv, VolumesInv, Straight,
       IsMoved, Meshes
  <1>3. NormalsInv'
    BY <1>1 DEF NormalsInv, RenderTypeOK, Meshes
  <1>4. MadeInv' /\ CountedInItsOwnVoxels'
    BY <1>1 DEF MadeInv, CountedInItsOwnVoxels, Straight, Meshes
  <1> QED
    BY <1>1, <1>2, <1>3, <1>4, MeshStepInv

\* A stage that changes nothing but the maps.
LEMMA MapStepInv ==
    ASSUME RenderInv, Flatten \/ TurnMap \/ Plot, uv' \in UVs, MapInv'
    PROVE  RenderInv'
  <1> USE DEF Flatten, TurnMap, Plot, RenderInv
  <1>1. RenderTypeOK' /\ VolumesInv' /\ ChoiceInv' /\ MadeInv'
    BY DEF RenderTypeOK, VolumesInv, ChoiceInv, MadeInv
  <1>2. PlaceInv' /\ NormalsInv' /\ CountedInItsOwnVoxels'
    BY DEF PlaceInv, NormalsInv, CountedInItsOwnVoxels, Straight, IsMoved
  <1>3. (DefaultsLandInTheVolume /\ NormalsFitTheSurface /\ MapsFitTheMesh)'
    BY DEF MadeInv, DefaultsLandInTheVolume, NormalsFitTheSurface, MapsFitTheMesh
  <1> QED
    BY <1>1, <1>2, <1>3

LEMMA FlattenInv == ASSUME RenderInv, Flatten PROVE RenderInv'
  <1>1. stage = "flatten" /\ stage' = "turn" /\ mesh' = mesh /\ mesh \in Meshes /\ uv \in UVs
    BY DEF Flatten, RenderInv, RenderTypeOK
  <1>2. uv.mesh = None /\ uv.error = None /\ ~uv.drawn /\ ~uv.errorDrawn
    BY <1>1 DEF RenderInv, MapInv
  <1>3. CASE Reused /\ uv' = uv
    <2>1. uv.map # Nil => uv.map \in UVMaps /\ uv.map.cut = mesh.cut
      BY <1>1, <1>3 DEF Reused, RenderInv, MapInv, UVs
    <2>2. MapInv'
      BY <1>1, <1>2, <1>3, <2>1 DEF MapInv
    <2> QED
      BY <1>1, <1>3, <2>2, MapStepInv
  <1>4. ASSUME NEW new \in UVMaps, NEW e \in {None, new}, new.cut = mesh.cut,
               uv' = [uv EXCEPT !.map = new, !.mesh = new, !.error = e]
        PROVE  RenderInv'
    <2>1. /\ uv' \in UVs /\ uv'.map = new /\ uv'.mesh = new /\ uv'.error = e
          /\ ~uv'.drawn /\ ~uv'.errorDrawn
      BY <1>1, <1>2, <1>4 DEF UVs
    <2>2. MapInv'
      BY <1>1, <1>4, <2>1 DEF MapInv
    <2> QED
      BY <2>1, <2>2, MapStepInv
  <1>5. [cut |-> mesh.cut, turned |-> FALSE] \in UVMaps
    BY <1>1 DEF UVMaps, Meshes
  <1> QED
    BY <1>3, <1>4, <1>5 DEF Flatten

LEMMA TurnMapInv == ASSUME RenderInv, TurnMap PROVE RenderInv'
  <1>1. stage = "turn" /\ stage' = "plot" /\ mesh' = mesh /\ uv \in UVs
    BY DEF TurnMap, RenderInv, RenderTypeOK
  <1>2. /\ ~uv.drawn /\ ~uv.errorDrawn
        /\ uv.map # Nil => /\ uv.map \in UVMaps /\ uv.map.cut = mesh.cut
                           /\ uv.mesh \in {None, uv.map}
                           /\ uv.error # None => uv.error.cut = mesh.cut
    BY <1>1 DEF RenderInv, MapInv
  <1>3. CASE uv' = uv
    <2>1. MapInv'
      BY <1>1, <1>2, <1>3 DEF MapInv
    <2> QED
      BY <1>1, <1>3, <2>1, MapStepInv
  <1>4. CASE uv' = Turned
    <2>1. PICK map : map = IF uv.map = Nil THEN Nil ELSE [uv.map EXCEPT !.turned = TRUE]
      OBVIOUS
    <2>2. map # Nil => map \in UVMaps /\ map.cut = mesh.cut
      BY <1>2, <2>1 DEF UVMaps
    <2>3. /\ uv' \in UVs /\ uv'.map = map /\ uv'.mesh = None /\ uv'.error = uv.error
          /\ ~uv'.drawn /\ ~uv'.errorDrawn
      BY <1>1, <1>2, <1>4, <2>1, <2>2 DEF Turned, UVs
    <2>4. map # Nil => uv.map # Nil
      BY <2>1
    <2>5. MapInv'
      BY <1>1, <1>2, <2>2, <2>3, <2>4 DEF MapInv
    <2> QED
      BY <2>3, <2>5, MapStepInv
  <1> QED
    BY <1>3, <1>4 DEF TurnMap

LEMMA PlotInv == ASSUME RenderInv, Plot PROVE RenderInv'
  <1>1. stage = "plot" /\ stage' = "ppm" /\ mesh' = mesh /\ uv \in UVs
    BY DEF Plot, RenderInv, RenderTypeOK
  <1>2. /\ ~uv.drawn /\ ~uv.errorDrawn
        /\ uv.map # Nil => /\ uv.map \in UVMaps /\ uv.map.cut = mesh.cut
                           /\ uv.mesh \in {None, uv.map}
                           /\ uv.error # None => uv.error.cut = mesh.cut
    BY <1>1 DEF RenderInv, MapInv
  <1>3. PICK with : with = WithMesh
    OBVIOUS
  <1>4. /\ with \in UVs /\ with.map = uv.map /\ with.error = uv.error
        /\ uv.map # Nil => with.mesh = uv.map
    BY <1>1, <1>2, <1>3 DEF WithMesh, UVs
  <1>5. /\ uv' \in UVs /\ uv'.map = uv.map
        /\ \/ uv' = uv
           \/ uv'.mesh = with.mesh /\ uv'.error = uv.error /\ ~uv'.errorDrawn
           \/ uv'.mesh = with.mesh /\ uv'.error = IF uv.error = None THEN with.mesh ELSE uv.error
    <2>1. CASE uv' = uv
      BY <1>1, <2>1
    <2>2. CASE uv' = [with EXCEPT !.drawn = TRUE]
      BY <1>2, <1>3, <1>4, <2>2 DEF UVs, WithMesh
    <2>3. ASSUME NEW drawn \in BOOLEAN, NEW error,
                 error = (IF uv.error = None THEN with.mesh ELSE uv.error),
                 uv' = [with EXCEPT !.drawn = drawn, !.errorDrawn = TRUE, !.error = error]
          PROVE  /\ uv' \in UVs /\ uv'.map = uv.map
                 /\ uv'.mesh = with.mesh /\ uv'.error = error
      BY <1>4, <2>3 DEF UVs
    <2> QED
      BY <1>3, <1>4, <2>1, <2>2, <2>3 DEF Plot
  <1>6. MapInv'
    BY <1>1, <1>2, <1>4, <1>5 DEF MapInv
  <1> QED
    BY <1>5, <1>6, MapStepInv

LEMMA GeneratePPMInv == ASSUME RenderInv, GeneratePPM PROVE RenderInv'
  BY NilAssumption DEF GeneratePPM, PixelMap, MovedAt, Moved, RenderInv, RenderTypeOK,
     VolumesInv, ChoiceInv, PlaceInv, NormalsInv, MapInv, MadeInv, DefaultsLandInTheVolume,
     CountedInItsOwnVoxels, NormalsFitTheSurface, MapsFitTheMesh, Straight, IsMoved, Meshes,
     UVMaps, Inputs, UVs

\* What comes after the per-pixel map leaves the mesh and its maps alone.
LEMMA LateInv ==
    ASSUME RenderInv, Texture \/ Write \/ UpdateGraph \/ UpdateFails
    PROVE  RenderInv'
  BY DEF Texture, Write, UpdateGraph, UpdateFails, RenderInv, RenderTypeOK, VolumesInv,
     ChoiceInv, PlaceInv, NormalsInv, MapInv, MadeInv, DefaultsLandInTheVolume,
     CountedInItsOwnVoxels, NormalsFitTheSurface, MapsFitTheMesh, Straight, IsMoved

-----------------------------------------------------------------------------
\* What is applied of a transform.
LEMMA AppliedTypes ==
    ASSUME NEW t \in Transforms
    PROVE  Applied(t) \in Uses /\ Applied(t).src = t.src /\ Applied(t).tgt = t.tgt
  BY TfmShapes DEF Applied, Uses, Labels, SpoilsNormals

\* The transform is chosen, or none is.
LEMMA ChoiceStepInv ==
    ASSUME RenderInv, Goes("transform", "raw"),
           NEW way \in {"default", "asked"}, NEW at \in {"raw", "resampled", "ppm"},
           NEW use \in Uses \cup {None, Nil}, tfm' = [way |-> way, at |-> at, use |-> use],
           way = "default" /\ use # None =>
               /\ use \in Uses
               /\ vols.differ /\ vols.src # None /\ vols.tgt # None
               /\ use.src = vols.src /\ use.tgt = vols.tgt,
           offered' = [i \in Ids |-> None], UNCHANGED <<vols, mesh, uv, counted, ppm>>
    PROVE  RenderInv'
  <1> USE DEF RenderInv
  <1>1. RenderTypeOK' /\ VolumesInv' /\ MadeInv' /\ MapInv'
    BY DEF RenderTypeOK, VolumesInv, MadeInv, MapInv
  <1>2. ChoiceInv'
    BY DEF ChoiceInv
  <1>3. PlaceInv' /\ NormalsInv'
    BY DEF PlaceInv, NormalsInv
  <1>4. /\ DefaultsLandInTheVolume' /\ NormalsFitTheSurface' /\ MapsFitTheMesh'
        /\ CountedInItsOwnVoxels'
    BY DEF MadeInv, DefaultsLandInTheVolume, NormalsFitTheSurface, MapsFitTheMesh,
       CountedInItsOwnVoxels
  <1> QED
    BY <1>1, <1>2, <1>3, <1>4

LEMMA NoTransformInv ==
    ASSUME RenderInv, NEW way \in {"default", "asked"}, NoTransform(way)
    PROVE  RenderInv'
  BY ChoiceStepInv DEF NoTransform, Goes

LEMMA TransformUnknownInv == ASSUME RenderInv, TransformUnknown PROVE RenderInv'
  BY ChoiceStepInv DEF TransformUnknown

\* --transform and --invert-transform.
LEMMA TransformAskedInv == ASSUME RenderInv, TransformAsked PROVE RenderInv'
  <1>1. PICK t \in AskedFor, at \in {"raw", "resampled", "ppm"}, invert \in BOOLEAN :
            tfm' = [way |-> "asked", at |-> at, use |-> Applied(IF invert THEN Inverted(t) ELSE t)]
    BY DEF TransformAsked, Choose
  <1>2. t \in Transforms
    BY FilesAssumption, SavedShapes, TfmsDerived DEF AskedFor, RenderInv, RenderTypeOK
  <1>3. (IF invert THEN Inverted(t) ELSE t) \in Transforms
    BY <1>2, TfmsDerived DEF Inverted
  <1>4. PICK use \in Uses : tfm' = [way |-> "asked", at |-> at, use |-> use]
    BY <1>1, <1>3, AppliedTypes
  <1> QED
    BY <1>4, ChoiceStepInv DEF TransformAsked, Choose

\* What the package's registry finds for the input's volume and the one asked for.
LEMMA DefaultLabels ==
    ASSUME RenderInv, NEW t \in Default
    PROVE  t \in Transforms /\ t.src = vols.src /\ t.tgt = vols.tgt
  <1>1. PICK found : found = Found(offered, vols.src, vols.tgt)
    OBVIOUS
  <1>2. DOMAIN found # {} /\ t = found[Min(DOMAIN found)]
    BY <1>1 DEF Default
  <1>3. DOMAIN found \subseteq Ids
    BY <1>1 DEF Found
  <1>4. Min(DOMAIN found) \in DOMAIN found
    <2>1. DOMAIN found \subseteq Nat
      BY <1>3, IdsAssumption, CellsSuffice
    <2> QED
      BY <1>2, <2>1, MinIsMember
  <1>5. ASSUME NEW i \in DOMAIN found
        PROVE  found[i] \in Transforms /\ found[i].src = vols.src /\ found[i].tgt = vols.tgt
    <2>1. i \in Ids /\ offered[i] # None /\ offered[i] \in Transforms
      BY <1>1, <1>3 DEF Found, RenderInv, RenderTypeOK
    <2>2. \/ /\ found[i] = offered[i]
             /\ offered[i].src = vols.src /\ offered[i].tgt = vols.tgt
          \/ /\ Invertible(offered[i]) /\ found[i] = Invert(offered[i])
             /\ offered[i].tgt = vols.src /\ offered[i].src = vols.tgt
      BY <1>1, <2>1 DEF Found
    <2>3. Invertible(offered[i]) =>
              /\ Invert(offered[i]) \in Transforms
              /\ Invert(offered[i]).src = offered[i].tgt /\ Invert(offered[i]).tgt = offered[i].src
      BY <2>1, TfmsDerived
    <2> QED
      BY <2>1, <2>2, <2>3
  <1> QED
    BY <1>2, <1>4, <1>5

LEMMA TransformFoundInv == ASSUME RenderInv, TransformFound PROVE RenderInv'
  <1>1. Needed /\ Choose("default", Default)
    BY DEF TransformFound
  <1>2. PICK t \in Default, at \in {"raw", "resampled", "ppm"}, invert \in BOOLEAN :
            tfm' = [way |-> IF invert THEN "asked" ELSE "default", at |-> at,
                    use |-> Applied(IF invert THEN Inverted(t) ELSE t)]
    BY <1>1 DEF Choose
  <1>3. t \in Transforms /\ t.src = vols.src /\ t.tgt = vols.tgt
    BY DefaultLabels
  <1>4. CASE invert
    <2>1. Inverted(t) \in Transforms
      BY <1>3, TfmsDerived DEF Inverted
    <2>2. PICK use \in Uses : tfm' = [way |-> "asked", at |-> at, use |-> use]
      BY <1>2, <1>4, <2>1, AppliedTypes
    <2> QED
      BY <1>1, <2>2, ChoiceStepInv DEF Choose
  <1>5. CASE ~invert
    <2>1. PICK use \in Uses : /\ tfm' = [way |-> "default", at |-> at, use |-> use]
                              /\ use.src = vols.src /\ use.tgt = vols.tgt
      BY <1>2, <1>3, <1>5, AppliedTypes
    <2> QED
      BY <1>1, <2>1, ChoiceStepInv DEF Choose, Needed
  <1> QED
    BY <1>4, <1>5

-----------------------------------------------------------------------------
LEMMA BuildInv == ASSUME RenderInv, Build PROVE RenderInv'
  <1>1. CASE Segmentation \/ MeshFile \/ Volume
    BY <1>1, SegmentationInv, MeshFileInv, VolumeInv
  <1>2. CASE \/ TransformAsked \/ TransformUnknown \/ TransformFound
             \/ TransformDisabled \/ TransformNone
    BY <1>2, TransformAskedInv, TransformUnknownInv, TransformFoundInv, NoTransformInv
       DEF TransformDisabled, TransformNone
  <1>3. CASE TransformRaw \/ Scale \/ Resample \/ KeepVertices \/ Orient \/ TransformResampled
    BY <1>3, TransformRawInv, ScaleInv, ResampleInv, KeepVerticesInv, OrientInv,
       TransformResampledInv
  <1>4. CASE Flatten \/ TurnMap \/ Plot
    BY <1>4, FlattenInv, TurnMapInv, PlotInv
  <1>5. CASE GeneratePPM \/ Texture \/ Write
    BY <1>5, GeneratePPMInv, LateInv
  <1>6. CASE NoInput \/ NoVolume \/ NoMeasure \/ NoFlattening \/ NoMask \/ NoSequence
    <2>1. PICK s \in Stages : Fails(s)
      BY <1>6 DEF NoInput, NoVolume, NoMeasure, NoFlattening, NoMask, NoSequence
    <2> QED
      BY <2>1, FailsInv
  <1> QED
    BY <1>1, <1>2, <1>3, <1>4, <1>5, <1>6 DEF Build

\* The inductive invariant of vc_render: at every stage, where the mesh is, how its normals
\* and maps stand to it and what of it has been made (Render.cpp).
THEOREM RenderInvariant == Spec => [](TfmTypeOK /\ RenderInv)
  <1>1. Init => TfmTypeOK /\ RenderInv
    BY TfmInitTypes, RenderInitInv DEF Init
  <1>2. TfmTypeOK /\ RenderInv /\ [Next]_pipelineVars => (TfmTypeOK /\ RenderInv)'
    <2> SUFFICES ASSUME TfmTypeOK, RenderInv, [Next]_pipelineVars PROVE RenderInv'
      BY TransformTypesKept
    <2>1. CASE UNCHANGED renderVars
      BY <2>1 DEF renderVars, RenderInv, RenderTypeOK, VolumesInv, ChoiceInv, PlaceInv,
         NormalsInv, MapInv, MadeInv, DefaultsLandInTheVolume, CountedInItsOwnVoxels,
         NormalsFitTheSurface, MapsFitTheMesh, Straight, IsMoved
    <2>2. CASE Open
      BY <2>2, OpenInv
    <2>3. CASE Build
      BY <2>3, BuildInv
    <2>4. CASE UpdateGraph \/ UpdateFails
      BY <2>4, LateInv
    <2> QED
      BY <2>1, <2>2, <2>3, <2>4 DEF Next, Edit, pipelineVars
  <1> QED
    BY <1>1, <1>2, PTL DEF Spec

\* Whoever leaves the choice of the transform to the program gets a texture of the place the
\* segmentation was made at, for any number of volumes and transforms (Render.cpp).
THEOREM TextureIsOfTheRightPlace == Spec => []DefaultsLandInTheVolume
  <1>1. RenderInv => DefaultsLandInTheVolume
    BY DEF RenderInv
  <1> QED
    BY <1>1, RenderInvariant, PTL

\* The vertices are counted with the voxels of the volume the mesh is in (Render.cpp).
THEOREM VerticesAreCountedInPlace == Spec => []CountedInItsOwnVoxels
  <1>1. RenderInv => CountedInItsOwnVoxels
    BY DEF RenderInv
  <1> QED
    BY <1>1, RenderInvariant, PTL

\* Normals the texture is sampled along fit the surface, but for the two ways in which they
\* come not to (Render.cpp, Transforms.cpp).
THEOREM NormalsAreOfTheSurface == Spec => []NormalsFitTheSurface
  <1>1. RenderInv => NormalsFitTheSurface
    BY DEF RenderInv
  <1> QED
    BY <1>1, RenderInvariant, PTL

\* UVMaps, flat mesh and error drawn are of the mesh that is sampled (Render.cpp).
THEOREM MapsAreOfTheMesh == Spec => []MapsFitTheMesh
  <1>1. RenderInv => MapsFitTheMesh
    BY DEF RenderInv
  <1> QED
    BY <1>1, RenderInvariant, PTL
=============================================================================
