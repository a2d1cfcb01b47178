------------------------------ MODULE LRUCache ------------------------------
(***************************************************************************)
(* The least-recently-used cache core/include/vc/core/types/LRUCache.hpp.  *)
(*                                                                         *)
(* items_ is the std::list of (key, value) pairs, most recently used first *)
(* and lookup_ the index from a key to its list node. A list iterator is   *)
(* stable, so a node is named by its key and lookup is the set of indexed  *)
(* keys. Every method holds the cache's own mutex from its first to its    *)
(* last statement, so a method is one step.                                *)
(***************************************************************************)
EXTENDS Naturals, FiniteSets, SequencesExt

CONSTANTS Keys,             \* keys a caller may use
          Values,           \* values a caller may store
          InitCapacity,     \* capacity_ after construction (200 in Cache.hpp)
          Capacities        \* capacities a caller may set

ASSUME InitCapacityAssumption == InitCapacity \in Nat \ {0}
ASSUME CapacitiesAssumption == Capacities \subseteq Nat

VARIABLES items, lookup, capacity

cacheVars == <<items, lookup, capacity>>

Entry == [key : Keys, val : Values]

KeysOf(s) == {s[n].key : n \in DOMAIN s}

\* The list node the index holds for k.
Node(s, k) == CHOOSE n \in DOMAIN s : s[n].key = k

ValueOf(k) == items[Node(items, k)].val

Erase(s, k) == IF k \in KeysOf(s) THEN RemoveAt(s, Node(s, k)) ELSE s

(***************************************************************************)
(* The methods.                                                            *)
(***************************************************************************)
CacheInit ==
    /\ items = <<>>
    /\ lookup = {}
    /\ capacity = InitCapacity

\* get, getPointer: a hit moves the node to the front. A miss throws and
\* changes nothing, so it is no step of the cache.
Get(k) ==
    /\ k \in lookup
    /\ items' = Cons(items[Node(items, k)], RemoveAt(items, Node(items, k)))
    /\ UNCHANGED <<lookup, capacity>>

\* put: the entry goes to the front, replacing the old one of its key; when
\* the index then exceeds the capacity, one node leaves at the back.
Put(k, v) ==
    LET pushed == Cons([key |-> k, val |-> v], Erase(items, k))
        known  == lookup \cup {k}
    IN  /\ \/ /\ Cardinality(known) <= capacity
              /\ items' = pushed
              /\ lookup' = known
           \/ /\ Cardinality(known) > capacity
              /\ items' = Front(pushed)
              /\ lookup' = known \ {Last(pushed).key}
        /\ UNCHANGED capacity

\* Mutant of Purge: the list survives.
PurgeIndexOnly ==
    /\ lookup' = {}
    /\ UNCHANGED <<items, capacity>>

Purge ==
    /\ items' = <<>>
    /\ lookup' = {}
    /\ UNCHANGED capacity

\* setCapacity: zero is refused with an exception; otherwise nodes leave at
\* the back until the index fits.
SetCapacity(c) ==
    LET excess == IF Cardinality(lookup) > c THEN Cardinality(lookup) - c ELSE 0
        kept   == SubSeq(items, 1, Len(items) - excess)
        popped == SubSeq(items, Len(kept) + 1, Len(items))
    IN  /\ c > 0
        /\ capacity' = c
        /\ items' = kept
        /\ lookup' = lookup \ KeysOf(popped)

CacheNext ==
    \/ \E k \in Keys : Get(k)
    \/ \E k \in Keys, v \in Values : Put(k, v)
    \/ Purge
    \/ \E c \in Capacities : SetCapacity(c)

CacheSpec == CacheInit /\ [][CacheNext]_cacheVars

(***************************************************************************)
(* Properties.                                                             *)
(***************************************************************************)
\* Type invariant of the cache: the list holds entries, the index holds keys,
\* the capacity is never zero.
CacheTypeOK ==
    /\ items \in Seq(Entry)
    /\ lookup \subseteq Keys
    /\ capacity \in Nat \ {0}

\* The list and the index describe the same set of entries after every method:
\* no key is listed twice, no listed key misses from the index (its node could
\* never be found again) and no indexed key has lost its node (its iterator
\* would dangle in get and put).
IndexMatchesList ==
    /\ \A m, n \in DOMAIN items : items[m].key = items[n].key => m = n
    /\ lookup = KeysOf(items)

\* The list never outgrows the capacity, although put evicts at most one node
\* and the capacity may shrink under a full cache.
WithinCapacity == Len(items) <= capacity
=============================================================================
