-------------------------- MODULE SliceCache_proofs --------------------------
(***************************************************************************)
(* Proofs about SliceCache, and the LRUCache it is built on, for every set *)
(* of threads, slices, images, keys, values and capacities.                *)
(***************************************************************************)
EXTENDS SliceCache, SequenceTheorems, FiniteSetTheorems, TLAPS

(***************************************************************************)
(* The LRU cache: its list and its index.                                  *)
(***************************************************************************)
\* The keys of a list occur once each.
Distinct(s) == \A m, n \in DOMAIN s : s[m].key = s[n].key => m = n

\* Cons(e, s) is s behind e.
LEMMA ConsProperties ==
    ASSUME NEW S, NEW s \in Seq(S), NEW e \in S
    PROVE  /\ Cons(e, s) \in Seq(S)
           /\ Len(Cons(e, s)) = Len(s) + 1
           /\ Cons(e, s)[1] = e
           /\ \A n \in 2..Len(s) + 1 : Cons(e, s)[n] = s[n - 1]
<1>1. <<e>> \in Seq(S) /\ Len(<<e>>) = 1 /\ <<e>>[1] = e
  OBVIOUS
<1>2. Len(s) \in Nat
  BY LenProperties
<1> QED
  BY <1>1, <1>2, ConcatProperties DEF Cons

\* RemoveAt(s, i) is s with the elements behind i moved up by one.
LEMMA RemoveAtProperties ==
    ASSUME NEW S, NEW s \in Seq(S), NEW i \in 1..Len(s)
    PROVE  /\ RemoveAt(s, i) \in Seq(S)
           /\ Len(RemoveAt(s, i)) = Len(s) - 1
           /\ \A n \in 1..Len(s) - 1 :
                 RemoveAt(s, i)[n] = IF n < i THEN s[n] ELSE s[n + 1]
<1> DEFINE front == SubSeq(s, 1, i - 1)
           back == SubSeq(s, i + 1, Len(s))
<1>0. Len(s) \in Nat /\ \A n \in 1..Len(s) : s[n] \in S
  BY LenProperties, ElementOfSeq
<1>1. /\ front \in Seq(S)
      /\ Len(front) = i - 1
      /\ \A n \in 1..i - 1 : front[n] = s[n]
  BY <1>0, SubSeqProperties
<1>2. /\ back \in Seq(S)
      /\ Len(back) = Len(s) - i
      /\ \A n \in 1..Len(s) - i : back[n] = s[i + n]
  BY <1>0, SubSeqProperties
<1>3. RemoveAt(s, i) = front \o back
  BY DEF RemoveAt
<1> HIDE DEF front, back
<1>4. /\ front \o back \in Seq(S)
      /\ Len(front \o back) = Len(s) - 1
      /\ \A n \in 1..Len(s) - 1 :
            (front \o back)[n] = IF n <= i - 1 THEN front[n] ELSE back[n - (i - 1)]
  <2>1. /\ front \o back \in Seq(S)
        /\ Len(front \o back) = Len(front) + Len(back)
        /\ \A n \in 1..Len(front) + Len(back) :
              (front \o back)[n]
              = IF n <= Len(front) THEN front[n] ELSE back[n - Len(front)]
    BY <1>1, <1>2, ConcatProperties
  <2>2. Len(front) = i - 1 /\ Len(front) + Len(back) = Len(s) - 1
    BY <1>0, <1>1, <1>2
  <2> QED
    BY <2>1, <2>2
<1>5. ASSUME NEW n \in 1..Len(s) - 1
      PROVE  RemoveAt(s, i)[n] = IF n < i THEN s[n] ELSE s[n + 1]
  <2>1. CASE n < i
    BY <2>1, <1>0, <1>1, <1>3, <1>4
  <2>2. CASE n >= i
    <3>1. n - (i - 1) \in 1..Len(s) - i
      BY <2>2, <1>0
    <3>2. i + (n - (i - 1)) = n + 1
      BY <1>0
    <3>3. back[n - (i - 1)] = s[n + 1]
      BY <3>1, <3>2, <1>2
    <3>4. ~(n <= i - 1) /\ ~(n < i)
      BY <2>2, <1>0
    <3>5. (front \o back)[n] = back[n - (i - 1)]
      BY <3>4, <1>4
    <3> QED
      BY <3>3, <3>4, <3>5, <1>3
  <2> QED
    BY <2>1, <2>2, <1>0
<1> QED
  BY <1>3, <1>4, <1>5

\* A listed key has a node, and the node has the key.
LEMMA NodeProperties ==
    ASSUME NEW s \in Seq(Entry), NEW k \in KeysOf(s)
    PROVE  /\ Node(s, k) \in 1..Len(s)
           /\ Node(s, k) \in DOMAIN s
           /\ s[Node(s, k)].key = k
<1>1. DOMAIN s = 1..Len(s)
  BY LenProperties
<1>2. \E n \in DOMAIN s : s[n].key = k
  BY DEF KeysOf
<1> QED
  BY <1>1, <1>2 DEF Node

\* The node the index holds for a listed key lies in the list and carries that key.
LEMMA NodeOfKey ==
    ASSUME NEW s \in Seq(Entry), Distinct(s), NEW n \in DOMAIN s
    PROVE  Node(s, s[n].key) = n
<1>1. s[n].key \in KeysOf(s)
  BY DEF KeysOf
<1> QED
  BY <1>1, NodeProperties DEF Distinct

\* A list of distinct keys is as long as its set of keys is large.
LEMMA DistinctCardinality ==
    ASSUME NEW s \in Seq(Entry), Distinct(s)
    PROVE  IsFiniteSet(KeysOf(s)) /\ Cardinality(KeysOf(s)) = Len(s)
<1> DEFINE f == [n \in 1..Len(s) |-> s[n].key]
<1>1. Len(s) \in Nat /\ DOMAIN s = 1..Len(s)
  BY LenProperties
<1>2. f \in Bijection(1..Len(s), KeysOf(s))
  BY <1>1 DEF Distinct, KeysOf, Bijection, Injection, Surjection, IsInjective
<1>3. IsFiniteSet(1..Len(s)) /\ Cardinality(1..Len(s)) = Len(s)
  BY <1>1, FS_Interval
<1> QED
  BY <1>2, <1>3, FS_Bijection DEF ExistsBijection

-----------------------------------------------------------------------------
(***************************************************************************)
(* How the list operations of the methods change the set of listed keys.   *)
(***************************************************************************)
\* A list of distinct keys without the node of one of its keys has the other
\* entries, each key still once (the erase in get and put).
LEMMA RemoveNodeProperties ==
    ASSUME NEW s \in Seq(Entry), Distinct(s), NEW k \in KeysOf(s)
    PROVE  /\ RemoveAt(s, Node(s, k)) \in Seq(Entry)
           /\ Distinct(RemoveAt(s, Node(s, k)))
           /\ KeysOf(RemoveAt(s, Node(s, k))) = KeysOf(s) \ {k}
           /\ Len(RemoveAt(s, Node(s, k))) = Len(s) - 1
           /\ \A n \in DOMAIN RemoveAt(s, Node(s, k)) :
                 \E m \in DOMAIN s : RemoveAt(s, Node(s, k))[n] = s[m]
<1> DEFINE i == Node(s, k)
           r == RemoveAt(s, i)
<1>1. Len(s) \in Nat /\ DOMAIN s = 1..Len(s)
  BY LenProperties
<1>2. i \in 1..Len(s) /\ s[i].key = k
  BY NodeProperties
<1> HIDE DEF i
<1>3. /\ r \in Seq(Entry)
      /\ Len(r) = Len(s) - 1
      /\ \A n \in 1..Len(s) - 1 : r[n] = IF n < i THEN s[n] ELSE s[n + 1]
  BY <1>2, RemoveAtProperties
<1> HIDE DEF r
<1>4. DOMAIN r = 1..Len(s) - 1
  BY <1>3, LenProperties
<1>5. Distinct(r)
  <2>1. ASSUME NEW m \in DOMAIN r, NEW n \in DOMAIN r, r[m].key = r[n].key
        PROVE  m = n
    <3> DEFINE up(j) == IF j < i THEN j ELSE j + 1
    <3>1. /\ up(m) \in DOMAIN s /\ r[m] = s[up(m)]
          /\ up(n) \in DOMAIN s /\ r[n] = s[up(n)]
      BY <1>1, <1>2, <1>3, <1>4
    <3>2. up(m) = up(n)
      BY <2>1, <3>1 DEF Distinct
    <3> QED
      BY <3>2, <1>1, <1>2, <1>4
  <2> QED
    BY <2>1 DEF Distinct
<1>6. KeysOf(r) \subseteq KeysOf(s) \ {k}
  <2>1. ASSUME NEW n \in DOMAIN r
        PROVE  r[n].key \in KeysOf(s) \ {k}
    <3> DEFINE up == IF n < i THEN n ELSE n + 1
    <3>1. up \in DOMAIN s /\ r[n] = s[up] /\ up # i
      BY <1>1, <1>2, <1>3, <1>4
    <3>2. s[up].key # s[i].key
      BY <3>1, <1>1, <1>2 DEF Distinct
    <3> QED
      BY <3>1, <3>2, <1>2 DEF KeysOf
  <2> QED
    BY <2>1 DEF KeysOf
<1>7. KeysOf(s) \ {k} \subseteq KeysOf(r)
  <2>1. ASSUME NEW n \in DOMAIN s, s[n].key # k
        PROVE  s[n].key \in KeysOf(r)
    <3> DEFINE down == IF n < i THEN n ELSE n - 1
    <3>1. down \in DOMAIN r /\ r[down] = s[n]
      <4>1. CASE n < i
        BY <4>1, <1>1, <1>2, <1>3, <1>4
      <4>2. CASE n > i
        <5>1. n - 1 \in 1..Len(s) - 1 /\ ~(n - 1 < i) /\ (n - 1) + 1 = n
          BY <4>2, <1>1, <1>2
        <5> QED
          BY <4>2, <5>1, <1>1, <1>2, <1>3, <1>4
      <4>3. n # i
        BY <2>1, <1>2
      <4> QED
        BY <4>1, <4>2, <4>3, <1>1, <1>2
    <3> QED
      BY <3>1 DEF KeysOf
  <2> QED
    BY <2>1 DEF KeysOf
<1>8. \A n \in DOMAIN r : \E m \in DOMAIN s : r[n] = s[m]
  <2>1. ASSUME NEW n \in DOMAIN r
        PROVE  \E m \in DOMAIN s : r[n] = s[m]
    <3> DEFINE up == IF n < i THEN n ELSE n + 1
    <3>1. up \in DOMAIN s /\ r[n] = s[up]
      BY <1>1, <1>2, <1>3, <1>4
    <3> QED
      BY <3>1
  <2> QED
    BY <2>1
<1> QED
  BY <1>3, <1>5, <1>6, <1>7, <1>8 DEF i, r

\* What put makes of the old entry of its key: the key is no longer listed, and
\* the other entries are as they were.
LEMMA EraseProperties ==
    ASSUME NEW s \in Seq(Entry), Distinct(s), NEW k
    PROVE  /\ Erase(s, k) \in Seq(Entry)
           /\ Distinct(Erase(s, k))
           /\ KeysOf(Erase(s, k)) = KeysOf(s) \ {k}
           /\ \A n \in DOMAIN Erase(s, k) : \E m \in DOMAIN s : Erase(s, k)[n] = s[m]
<1>1. CASE k \in KeysOf(s)
  BY <1>1, RemoveNodeProperties DEF Erase
<1>2. CASE k \notin KeysOf(s)
  BY <1>2 DEF Erase
<1> QED
  BY <1>1, <1>2

\* A new key in front of a list of distinct keys: the keys are distinct, and no
\* entry but the new one is new.
LEMMA ConsDistinct ==
    ASSUME NEW s \in Seq(Entry), Distinct(s), NEW e \in Entry, e.key \notin KeysOf(s)
    PROVE  /\ Cons(e, s) \in Seq(Entry)
           /\ Len(Cons(e, s)) = Len(s) + 1
           /\ Distinct(Cons(e, s))
           /\ KeysOf(Cons(e, s)) = KeysOf(s) \cup {e.key}
           /\ \A n \in DOMAIN Cons(e, s) :
                 Cons(e, s)[n] = e \/ \E m \in DOMAIN s : Cons(e, s)[n] = s[m]
<1> DEFINE c == Cons(e, s)
<1>1. Len(s) \in Nat /\ DOMAIN s = 1..Len(s)
  BY LenProperties
<1>2. /\ c \in Seq(Entry)
      /\ Len(c) = Len(s) + 1
      /\ c[1] = e
      /\ \A n \in 2..Len(s) + 1 : c[n] = s[n - 1]
  BY ConsProperties
<1> HIDE DEF c
<1>3. DOMAIN c = 1..Len(s) + 1
  BY <1>2, LenProperties
<1>4. \A n \in DOMAIN c : n # 1 => n - 1 \in DOMAIN s /\ c[n] = s[n - 1]
  BY <1>1, <1>2, <1>3
<1>5. Distinct(c)
  <2>1. ASSUME NEW m \in DOMAIN c, NEW n \in DOMAIN c, c[m].key = c[n].key
        PROVE  m = n
    <3>1. CASE m = 1 /\ n = 1
      BY <3>1
    <3>2. CASE m = 1 /\ n # 1
      BY <3>2, <2>1, <1>2, <1>4 DEF KeysOf
    <3>3. CASE m # 1 /\ n = 1
      BY <3>3, <2>1, <1>2, <1>4 DEF KeysOf
    <3>4. CASE m # 1 /\ n # 1
      <4>1. m - 1 = n - 1
        BY <3>4, <2>1, <1>4 DEF Distinct
      <4> QED
        BY <4>1, <1>1, <1>3
    <3> QED
      BY <3>1, <3>2, <3>3, <3>4
  <2> QED
    BY <2>1 DEF Distinct
<1>6. KeysOf(c) \subseteq KeysOf(s) \cup {e.key}
  BY <1>2, <1>4 DEF KeysOf
<1>7. KeysOf(s) \cup {e.key} \subseteq KeysOf(c)
  <2>1. e.key \in KeysOf(c)
    BY <1>1, <1>2, <1>3 DEF KeysOf
  <2>2. ASSUME NEW n \in DOMAIN s
        PROVE  s[n].key \in KeysOf(c)
    <3>1. n + 1 \in DOMAIN c /\ n + 1 # 1 /\ (n + 1) - 1 = n
      BY <1>1, <1>3
    <3> QED
      BY <3>1, <1>4 DEF KeysOf
  <2> QED
    BY <2>1, <2>2 DEF KeysOf
<1>8. \A n \in DOMAIN c : c[n] = e \/ \E m \in DOMAIN s : c[n] = s[m]
  BY <1>2, <1>4
<1> QED
  BY <1>2, <1>5, <1>6, <1>7, <1>8 DEF c

\* A list of distinct keys cut after n: the two parts share no key.
LEMMA CutProperties ==
    ASSUME NEW s \in Seq(Entry), Distinct(s), NEW n \in 0..Len(s)
    PROVE  /\ SubSeq(s, 1, n) \in Seq(Entry)
           /\ Len(SubSeq(s, 1, n)) = n
           /\ Distinct(SubSeq(s, 1, n))
           /\ KeysOf(SubSeq(s, 1, n)) = KeysOf(s) \ KeysOf(SubSeq(s, n + 1, Len(s)))
           /\ \A j \in DOMAIN SubSeq(s, 1, n) : j \in DOMAIN s /\ SubSeq(s, 1, n)[j] = s[j]
<1> DEFINE p == SubSeq(s, 1, n)
           q == SubSeq(s, n + 1, Len(s))
<1>1. Len(s) \in Nat /\ DOMAIN s = 1..Len(s) /\ \A j \in 1..Len(s) : s[j] \in Entry
  BY LenProperties, ElementOfSeq
<1>2. p \in Seq(Entry) /\ Len(p) = n /\ \A j \in 1..n : p[j] = s[j]
  BY <1>1, SubSeqProperties
<1>3. q \in Seq(Entry) /\ Len(q) = Len(s) - n /\ \A j \in 1..Len(s) - n : q[j] = s[n + j]
  <2>1. /\ q \in Seq(Entry)
        /\ Len(q) = IF n + 1 <= Len(s) THEN Len(s) - (n + 1) + 1 ELSE 0
        /\ \A j \in 1..Len(s) - (n + 1) + 1 : q[j] = s[(n + 1) + j - 1]
    <3>1. n + 1 \in Int /\ Len(s) \in Int /\ \A j \in n + 1..Len(s) : s[j] \in Entry
      BY <1>1
    <3> QED
      BY <3>1, SubSeqProperties
  <2>2. /\ Len(s) - (n + 1) + 1 = Len(s) - n
        /\ \A j \in 1..Len(s) - n : (n + 1) + j - 1 = n + j
    BY <1>1
  <2> HIDE DEF q
  <2>3. Len(q) = Len(s) - n
    <3>1. Len(q) = IF n + 1 <= Len(s) THEN Len(s) - (n + 1) + 1 ELSE 0
      BY <2>1
    <3>2. Len(s) \in Nat
      BY <1>1
    <3> HIDE <1>1, <1>2, <2>1, <2>2
    <3> QED
      BY <3>1, <3>2
  <2>4. ASSUME NEW j \in 1..Len(s) - n
        PROVE  q[j] = s[n + j]
    <3>1. q[j] = s[(n + 1) + j - 1]
      BY <2>1, <2>2
    <3> QED
      BY <3>1, <2>2
  <2> QED
    BY <2>1, <2>3, <2>4
<1> HIDE DEF p, q
<1>4. DOMAIN p = 1..n /\ DOMAIN q = 1..Len(s) - n
  BY <1>2, <1>3, LenProperties
<1>5. Distinct(p)
  BY <1>1, <1>2, <1>4 DEF Distinct
<1>6. KeysOf(p) \subseteq KeysOf(s) \ KeysOf(q)
  <2>1. ASSUME NEW j \in DOMAIN p, NEW m \in DOMAIN q, p[j].key = q[m].key
        PROVE  FALSE
    <3>1. j \in DOMAIN s /\ n + m \in DOMAIN s /\ j # n + m
      BY <1>1, <1>4
    <3>2. s[j].key = s[n + m].key
      BY <2>1, <1>2, <1>3, <1>4
    <3> QED
      BY <3>1, <3>2 DEF Distinct
  <2>2. \A j \in DOMAIN p : j \in DOMAIN s /\ p[j] = s[j]
    BY <1>1, <1>2, <1>4
  <2> QED
    BY <2>1, <2>2 DEF KeysOf
<1>7. KeysOf(s) \ KeysOf(q) \subseteq KeysOf(p)
  <2>1. ASSUME NEW j \in DOMAIN s
        PROVE  s[j].key \in KeysOf(p) \cup KeysOf(q)
    <3>1. CASE j <= n
      BY <3>1, <1>1, <1>2, <1>4 DEF KeysOf
    <3>2. CASE j > n
      <4>1. j - n \in DOMAIN q /\ n + (j - n) = j
        BY <3>2, <1>1, <1>4
      <4>2. q[j - n] = s[j]
        BY <4>1, <1>3, <1>4
      <4> QED
        BY <4>1, <4>2 DEF KeysOf
    <3> QED
      BY <3>1, <3>2, <1>1
  <2> QED
    BY <2>1 DEF KeysOf
<1>8. \A j \in DOMAIN p : j \in DOMAIN s /\ p[j] = s[j]
  BY <1>1, <1>2, <1>4
<1> QED
  BY <1>2, <1>5, <1>6, <1>7, <1>8 DEF p, q

-----------------------------------------------------------------------------
(***************************************************************************)
(* The invariant of the cache and its methods.                             *)
(***************************************************************************)
CacheInv == CacheTypeOK /\ IndexMatchesList /\ WithinCapacity

\* What the invariant says of the size of list and index.
LEMMA CacheInvFacts ==
    ASSUME CacheInv
    PROVE  /\ items \in Seq(Entry)
           /\ Distinct(items)
           /\ DOMAIN items = 1..Len(items)
           /\ lookup = KeysOf(items)
           /\ IsFiniteSet(lookup)
           /\ Cardinality(lookup) = Len(items)
           /\ Len(items) \in Nat
           /\ capacity \in Nat \ {0}
           /\ Len(items) <= capacity
<1>1. items \in Seq(Entry) /\ Distinct(items) /\ lookup = KeysOf(items)
  BY DEF CacheInv, CacheTypeOK, IndexMatchesList, Distinct
<1>2. Len(items) \in Nat /\ DOMAIN items = 1..Len(items)
  BY <1>1, LenProperties
<1> QED
  BY <1>1, <1>2, DistinctCardinality DEF CacheInv, CacheTypeOK, WithinCapacity

\* After the construction the invariant holds.
LEMMA CacheInitInv == CacheInit => CacheInv
<1> SUFFICES ASSUME CacheInit PROVE CacheInv
  OBVIOUS
<1>1. items = <<>> /\ lookup = {} /\ capacity \in Nat \ {0}
  BY InitCapacityAssumption DEF CacheInit
<1>2. <<>> \in Seq(Entry) /\ Len(<<>>) = 0 /\ DOMAIN <<>> = {}
  BY EmptySeq, LenProperties
<1>3. CacheTypeOK /\ IndexMatchesList
  BY <1>1, <1>2 DEF CacheTypeOK, IndexMatchesList, KeysOf
<1> QED
  BY <1>1, <1>2, <1>3 DEF CacheInv, WithinCapacity

\* An indexed key has a value.
LEMMA ValueOfType ==
    ASSUME CacheInv, NEW k \in lookup
    PROVE  ValueOf(k) \in Values
<1>1. items \in Seq(Entry) /\ k \in KeysOf(items)
  BY CacheInvFacts
<1>2. Node(items, k) \in 1..Len(items)
  BY <1>1, NodeProperties
<1>3. items[Node(items, k)] \in Entry
  BY <1>1, <1>2, ElementOfSeq
<1> QED
  BY <1>3 DEF ValueOf, Entry

\* A key whose entry was there before a step has kept its value.
LEMMA KeptValue ==
    ASSUME CacheInv, CacheInv', NEW i,
           NEW n \in DOMAIN items', NEW m \in DOMAIN items,
           items'[n] = items[m], items'[n].key = i
    PROVE  i \in lookup /\ ValueOf(i)' = ValueOf(i)
<1>1. items \in Seq(Entry) /\ Distinct(items) /\ lookup = KeysOf(items)
  BY CacheInvFacts
<1>2. items' \in Seq(Entry) /\ Distinct(items')
  BY DEF CacheInv, CacheTypeOK, IndexMatchesList, Distinct, Entry
<1>3. Node(items, i) = m /\ Node(items', i) = n
  BY <1>1, <1>2, NodeOfKey
<1> QED
  BY <1>1, <1>3 DEF ValueOf, KeysOf

\* get on a hit only reorders the entries.
LEMMA GetKeepsInv ==
    ASSUME CacheInv, NEW k \in Keys, Get(k)
    PROVE  /\ CacheInv'
           /\ lookup' = lookup
           /\ \A n \in DOMAIN items' : \E m \in DOMAIN items : items'[n] = items[m]
<1> DEFINE r == RemoveAt(items, Node(items, k))
           e == items[Node(items, k)]
<1>1. /\ items \in Seq(Entry) /\ Distinct(items) /\ lookup = KeysOf(items)
      /\ Len(items) \in Nat /\ capacity \in Nat \ {0} /\ Len(items) <= capacity
  BY CacheInvFacts
<1>2. k \in KeysOf(items)
  BY <1>1 DEF Get
<1>3. Node(items, k) \in DOMAIN items /\ e \in Entry /\ e.key = k
  BY <1>1, <1>2, NodeProperties, ElementOfSeq
<1>4. /\ r \in Seq(Entry) /\ Distinct(r) /\ KeysOf(r) = KeysOf(items) \ {k}
      /\ Len(r) = Len(items) - 1
      /\ \A n \in DOMAIN r : \E m \in DOMAIN items : r[n] = items[m]
  BY <1>1, <1>2, RemoveNodeProperties
<1>5. items' = Cons(e, r) /\ lookup' = lookup /\ capacity' = capacity
  BY DEF Get
<1> HIDE DEF r, e
<1>6. e.key \notin KeysOf(r)
  BY <1>3, <1>4
<1>7. /\ items' \in Seq(Entry) /\ Distinct(items')
      /\ KeysOf(items') = KeysOf(r) \cup {k} /\ Len(items') = Len(r) + 1
      /\ \A n \in DOMAIN items' : items'[n] = e \/ \E m \in DOMAIN r : items'[n] = r[m]
  BY <1>3, <1>4, <1>5, <1>6, ConsDistinct
<1>8. KeysOf(items') = KeysOf(items) /\ Len(items') = Len(items)
  BY <1>1, <1>2, <1>4, <1>7
<1>9. CacheTypeOK' /\ IndexMatchesList' /\ WithinCapacity'
  BY <1>1, <1>5, <1>7, <1>8
  DEF CacheInv, CacheTypeOK, IndexMatchesList, WithinCapacity, Distinct, KeysOf
<1>10. \A n \in DOMAIN items' : \E m \in DOMAIN items : items'[n] = items[m]
  BY <1>3, <1>4, <1>7 DEF e
<1> QED
  BY <1>5, <1>9, <1>10 DEF CacheInv

\* put stores its entry under its key, may evict one other entry and changes
\* no third one.
LEMMA PutKeepsInv ==
    ASSUME CacheInv, NEW k \in Keys, NEW v \in Values, Put(k, v)
    PROVE  /\ CacheInv'
           /\ k \in lookup'
           /\ lookup' \subseteq lookup \cup {k}
           /\ capacity' = capacity
           /\ \A n \in DOMAIN items' :
                 \/ items'[n] = [key |-> k, val |-> v]
                 \/ items'[n].key # k /\ \E m \in DOMAIN items : items'[n] = items[m]
<1> DEFINE e == [key |-> k, val |-> v]
           r == Erase(items, k)
           pushed == Cons(e, r)
           known == lookup \cup {k}
<1>1. /\ items \in Seq(Entry) /\ Distinct(items) /\ lookup = KeysOf(items)
      /\ IsFiniteSet(lookup) /\ Cardinality(lookup) = Len(items)
      /\ Len(items) \in Nat /\ capacity \in Nat \ {0} /\ Len(items) <= capacity
  BY CacheInvFacts
<1>2. e \in Entry /\ e.key = k
  BY DEF Entry
<1>3. /\ r \in Seq(Entry) /\ Distinct(r) /\ KeysOf(r) = KeysOf(items) \ {k}
      /\ \A n \in DOMAIN r : \E m \in DOMAIN items : r[n] = items[m]
  BY <1>1, EraseProperties
<1> HIDE DEF e, r
<1>4. /\ pushed \in Seq(Entry) /\ Len(pushed) = Len(r) + 1 /\ Distinct(pushed)
      /\ KeysOf(pushed) = KeysOf(r) \cup {k}
      /\ \A n \in DOMAIN pushed :
            pushed[n] = e \/ \E m \in DOMAIN r : pushed[n] = r[m]
  BY <1>2, <1>3, ConsDistinct
<1>5. pushed[1] = e
  BY <1>2, <1>3, ConsProperties
<1>6. \/ /\ Cardinality(known) <= capacity
         /\ items' = pushed
         /\ lookup' = known
      \/ /\ Cardinality(known) > capacity
         /\ items' = Front(pushed)
         /\ lookup' = known \ {Last(pushed).key}
  BY DEF Put, e, r
<1>7. capacity' = capacity
  BY DEF Put
<1> HIDE DEF pushed
<1>8. KeysOf(pushed) = known
  BY <1>1, <1>3, <1>4
<1>9. Len(pushed) \in Nat /\ DOMAIN pushed = 1..Len(pushed) /\ Len(r) \in Nat
  BY <1>3, <1>4, LenProperties
<1>10. Cardinality(known) = Len(pushed)
  BY <1>4, <1>8, DistinctCardinality
<1>11. Len(pushed) <= Len(items) + 1
  <2>1. Cardinality(known) = IF k \in lookup THEN Cardinality(lookup)
                                             ELSE Cardinality(lookup) + 1
    BY <1>1, FS_AddElement
  <2> QED
    BY <2>1, <1>1, <1>10
<1>12. \A n \in DOMAIN pushed :
          \/ pushed[n] = e
          \/ pushed[n].key # k /\ \E m \in DOMAIN items : pushed[n] = items[m]
  <2>1. ASSUME NEW n \in DOMAIN pushed, pushed[n] # e
        PROVE  pushed[n].key # k /\ \E m \in DOMAIN items : pushed[n] = items[m]
    <3>1. PICK m \in DOMAIN r : pushed[n] = r[m]
      BY <2>1, <1>4
    <3>2. r[m].key \in KeysOf(r)
      BY DEF KeysOf
    <3> QED
      BY <3>1, <3>2, <1>3
  <2> QED
    BY <2>1
<1> HIDE DEF known
<1>13. CASE Cardinality(known) <= capacity
  <2>1. items' = pushed /\ lookup' = known
    BY <1>13, <1>6, <1>9, <1>10, <1>1
  <2>2. CacheTypeOK' /\ IndexMatchesList' /\ WithinCapacity'
    <3>1. known \subseteq Keys
      BY <1>1 DEF known, CacheInv, CacheTypeOK
    <3> QED
      BY <2>1, <3>1, <1>1, <1>4, <1>7, <1>8, <1>10, <1>13
      DEF CacheTypeOK, IndexMatchesList, WithinCapacity, Distinct
  <2> QED
    BY <2>1, <2>2, <1>7, <1>12 DEF CacheInv, known, e
<1>14. CASE Cardinality(known) > capacity
  <2> DEFINE n == Len(pushed) - 1
             f == SubSeq(pushed, 1, n)
             l == SubSeq(pushed, n + 1, Len(pushed))
  <2>1. items' = f /\ lookup' = known \ {pushed[Len(pushed)].key}
    BY <1>14, <1>6, <1>9, <1>10, <1>1 DEF Front, Last
  <2>2. n \in 0..Len(pushed) /\ n <= capacity /\ n >= 1 /\ n + 1 = Len(pushed)
    BY <1>1, <1>9, <1>10, <1>11, <1>14
  <2>3. /\ f \in Seq(Entry) /\ Len(f) = n /\ Distinct(f)
        /\ KeysOf(f) = KeysOf(pushed) \ KeysOf(l)
        /\ \A j \in DOMAIN f : j \in DOMAIN pushed /\ f[j] = pushed[j]
    BY <2>2, <1>4, CutProperties
  <2>4. KeysOf(l) = {pushed[Len(pushed)].key}
    <3>1. /\ l \in Seq(Entry) /\ Len(l) = 1
          /\ \A j \in 1..1 : l[j] = pushed[(n + 1) + j - 1]
      <4>1. n + 1 \in Int /\ Len(pushed) \in Int /\ \A j \in n + 1..Len(pushed) : pushed[j] \in Entry
        BY <2>2, <1>4, <1>9, ElementOfSeq
      <4>2. Len(pushed) - (n + 1) + 1 = 1
        BY <2>2, <1>9
      <4> HIDE DEF n
      <4> QED
        BY <4>1, <4>2, <2>2, SubSeqProperties
    <3>2. (n + 1) + 1 - 1 = Len(pushed)
      BY <2>2, <1>9
    <3> HIDE DEF l, n
    <3>3. DOMAIN l = {1} /\ l[1] = pushed[Len(pushed)]
      <4>1. DOMAIN l = 1..1
        BY <3>1, LenProperties
      <4> QED
        BY <4>1, <3>1, <3>2
    <3> QED
      BY <3>3 DEF KeysOf
  <2> HIDE DEF f, l, n
  <2>5. lookup' = KeysOf(f)
    BY <2>1, <2>3, <2>4, <1>8
  <2>6. CacheTypeOK' /\ IndexMatchesList' /\ WithinCapacity'
    <3>1. known \subseteq Keys
      BY <1>1 DEF known, CacheInv, CacheTypeOK
    <3> QED
      BY <2>1, <2>2, <2>3, <2>5, <3>1, <1>1, <1>7, <1>8
      DEF CacheTypeOK, IndexMatchesList, WithinCapacity, Distinct
  <2>7. k \in lookup'
    <3>1. 1 \in DOMAIN f
      <4>1. DOMAIN f = 1..n
        BY <2>3, LenProperties
      <4> QED
        BY <4>1, <2>2
    <3>2. f[1].key = k
      BY <3>1, <2>3, <1>2, <1>5
    <3> QED
      BY <3>1, <3>2, <2>5 DEF KeysOf
  <2>8. \A j \in DOMAIN f :
           \/ f[j] = e
           \/ f[j].key # k /\ \E m \in DOMAIN items : f[j] = items[m]
    BY <2>3, <1>12
  <2> QED
    BY <2>1, <2>6, <2>7, <2>8, <1>7 DEF CacheInv, known, e
<1>15. Cardinality(known) <= capacity \/ Cardinality(known) > capacity
  BY <1>6
<1> QED
  BY <1>13, <1>14, <1>15

\* purge empties list and index together.
LEMMA PurgeKeepsInv ==
    ASSUME CacheInv, Purge
    PROVE  CacheInv' /\ DOMAIN items' = {}
<1>1. items' = <<>> /\ lookup' = {} /\ capacity' \in Nat \ {0}
  BY DEF Purge, CacheInv, CacheTypeOK
<1>2. <<>> \in Seq(Entry) /\ Len(<<>>) = 0 /\ DOMAIN <<>> = {}
  BY EmptySeq, LenProperties
<1> QED
  BY <1>1, <1>2 DEF CacheInv, CacheTypeOK, IndexMatchesList, WithinCapacity, KeysOf

\* setCapacity keeps a front part of the list; it evicts only if it shrinks the
\* capacity.
LEMMA SetCapacityKeepsInv ==
    ASSUME CacheInv, NEW c \in Capacities, SetCapacity(c)
    PROVE  /\ CacheInv'
           /\ lookup' \subseteq lookup
           /\ lookup' # lookup => capacity' < capacity
           /\ \A n \in DOMAIN items' : \E m \in DOMAIN items : items'[n] = items[m]
<1> DEFINE n == IF Cardinality(lookup) > c THEN c ELSE Len(items)
<1>1. /\ items \in Seq(Entry) /\ Distinct(items) /\ lookup = KeysOf(items)
      /\ Cardinality(lookup) = Len(items)
      /\ Len(items) \in Nat /\ capacity \in Nat \ {0} /\ Len(items) <= capacity
      /\ lookup \subseteq Keys
  BY CacheInvFacts DEF CacheInv, CacheTypeOK
<1>2. c \in Nat \ {0} /\ capacity' = c
  BY CapacitiesAssumption DEF SetCapacity
<1>3. n \in 0..Len(items) /\ n <= c
  BY <1>1, <1>2
<1>4. Len(items) - (IF Cardinality(lookup) > c THEN Cardinality(lookup) - c ELSE 0) = n
  BY <1>1, <1>2
<1> HIDE DEF n
<1>5. items' = SubSeq(items, 1, n)
  BY <1>4 DEF SetCapacity
<1>6. /\ items' \in Seq(Entry) /\ Len(items') = n /\ Distinct(items')
      /\ KeysOf(items') = KeysOf(items) \ KeysOf(SubSeq(items, n + 1, Len(items)))
      /\ \A j \in DOMAIN items' : j \in DOMAIN items /\ items'[j] = items[j]
  BY <1>1, <1>3, <1>5, CutProperties
<1>7. lookup' = KeysOf(items')
  <2>1. lookup' = lookup \ KeysOf(SubSeq(items, Len(SubSeq(items, 1, n)) + 1, Len(items)))
    BY <1>4 DEF SetCapacity
  <2> QED
    BY <2>1, <1>1, <1>5, <1>6
<1>8. CacheTypeOK' /\ IndexMatchesList' /\ WithinCapacity'
  BY <1>1, <1>2, <1>3, <1>6, <1>7
  DEF CacheTypeOK, IndexMatchesList, WithinCapacity, Distinct
<1>9. ASSUME capacity' >= capacity
      PROVE  lookup' = lookup
  <2>1. n = Len(items)
    BY <1>9, <1>1, <1>2 DEF n
  <2>2. items' = items
    BY <2>1, <1>1, <1>5, SubSeqFull
  <2> QED
    BY <2>2, <1>1, <1>7
<1>10. lookup' # lookup => capacity' < capacity
  BY <1>9, <1>1, <1>2
<1> QED
  BY <1>1, <1>6, <1>7, <1>8, <1>10 DEF CacheInv

\* Type correctness, agreement of list and index, and the bound on the size of
\* the LRU cache hold after every sequence of method calls.
THEOREM CacheInvariant == CacheSpec => []CacheInv
<1>1. CacheInit => CacheInv
  BY CacheInitInv
<1>2. CacheInv /\ [CacheNext]_cacheVars => CacheInv'
  <2> SUFFICES ASSUME CacheInv, [CacheNext]_cacheVars
               PROVE  CacheInv'
    OBVIOUS
  <2>1. ASSUME NEW k \in Keys, Get(k)
        PROVE  CacheInv'
    BY <2>1, GetKeepsInv
  <2>2. ASSUME NEW k \in Keys, NEW v \in Values, Put(k, v)
        PROVE  CacheInv'
    BY <2>2, PutKeepsInv
  <2>3. CASE Purge
    BY <2>3, PurgeKeepsInv
  <2>4. ASSUME NEW c \in Capacities, SetCapacity(c)
        PROVE  CacheInv'
    BY <2>4, SetCapacityKeepsInv
  <2>5. CASE UNCHANGED cacheVars
    BY <2>5 DEF cacheVars, CacheInv, CacheTypeOK, IndexMatchesList, WithinCapacity
  <2> QED
    BY <2>1, <2>2, <2>3, <2>4, <2>5 DEF CacheNext
<1> QED
  BY <1>1, <1>2, PTL DEF CacheSpec

-----------------------------------------------------------------------------
(***************************************************************************)
(* The cache of a volume, with the threads that use it.                    *)
(***************************************************************************)
\* The holders of the shared lock are the threads between contains() and get().
ReadersInv == readers = {t \in Threads : pc[t] = "get"}

\* A slice mutex is held by a thread that is at work on that slice, and by every
\* thread that loads it.
SliceLockInv ==
    /\ \A i \in Slices, t \in Threads :
          Holds(t, i) => slice[t] = i /\ pc[t] \in {"check", "get", "load", "read", "store"}
    /\ \A t \in Threads : Loading(t) => Holds(t, slice[t])

\* A thread that loads a slice has found it missing and nobody has added it since.
MissedInv == \A t \in Threads : Loading(t) => slice[t] \notin lookup

\* A load of a clean slice has read the current content of its file.
LoadedInv ==
    \A t \in Threads :
        pc[t] \in {"read", "store"} /\ clean[slice[t]] => img[t] = disk[slice[t]]

Inv ==
    /\ TypeOK
    /\ CacheInv
    /\ ReadersInv
    /\ SliceLockInv
    /\ MissedInv
    /\ LoadedInv
    /\ CleanIsFresh

\* The constructed volume is in the invariant.
LEMMA InitInv == Init => Inv
<1> SUFFICES ASSUME Init PROVE Inv
  OBVIOUS
<1> USE DEF Init
<1>1. CacheInv
  BY CacheInitInv
<1>2. TypeOK
  BY <1>1, TornAssumption, MaxOpsAssumption DEF TypeOK, CacheInv, Labels
<1>3. ReadersInv /\ SliceLockInv /\ MissedInv /\ LoadedInv
  BY NobodyAssumption DEF ReadersInv, SliceLockInv, MissedInv, LoadedInv, Holds, Loading, Slices
<1>4. CleanIsFresh
  <2>1. DOMAIN items = {}
    BY DEF CacheInit
  <2> QED
    BY <2>1 DEF CleanIsFresh
<1> QED
  BY <1>1, <1>2, <1>3, <1>4 DEF Inv

\* Steps that leave the cache itself alone.
LEMMA CacheUnchanged == CacheInv /\ UNCHANGED cacheVars => CacheInv'
BY DEF CacheInv, CacheTypeOK, IndexMatchesList, WithinCapacity, cacheVars

\* A read begins.
LEMMA GetSliceDataInv ==
    ASSUME Inv, NEW t \in Threads, NEW i \in Slices, GetSliceData(t, i)
    PROVE  Inv'
<1> USE DEF Inv, GetSliceData, Begin, Goto, locals, locks, cacheVars
<1>1. CacheInv'
  BY CacheUnchanged
<1>2. TypeOK'
  BY <1>1, MaxOpsAssumption DEF TypeOK, CacheInv, Labels
<1>3. ReadersInv' /\ SliceLockInv' /\ MissedInv' /\ LoadedInv'
  BY DEF TypeOK, ReadersInv, SliceLockInv, MissedInv, LoadedInv, Holds, Loading
<1>4. CleanIsFresh'
  BY DEF CleanIsFresh
<1> QED
  BY <1>1, <1>2, <1>3, <1>4

\* contains(): a hit joins the readers, a miss under the slice mutex leads to a load.
LEMMA CheckInv ==
    ASSUME Inv, NEW t \in Threads, CheckHit(t) \/ CheckMiss(t)
    PROVE  Inv'
<1> USE DEF Inv, CheckHit, CheckMiss, Goto, locks, cacheVars
<1>1. CacheInv'
  BY CacheUnchanged
<1>2. TypeOK'
  BY <1>1 DEF TypeOK, CacheInv, Labels
<1>3. ReadersInv' /\ SliceLockInv' /\ MissedInv' /\ LoadedInv'
  BY DEF TypeOK, ReadersInv, SliceLockInv, MissedInv, LoadedInv, Holds, Loading
<1>4. CleanIsFresh'
  BY DEF CleanIsFresh
<1> QED
  BY <1>1, <1>2, <1>3, <1>4

\* get() returns the image; it reorders the cache and releases both locks.
LEMMA GetHitInv ==
    ASSUME Inv, NEW t \in Threads, GetHit(t)
    PROVE  Inv'
<1> USE DEF Inv, GetHit, Goto, ReleaseSliceLock
<1>0. slice[t] \in Keys
  BY DEF TypeOK, Slices
<1>1. /\ CacheInv'
      /\ lookup' = lookup
      /\ \A n \in DOMAIN items' : \E m \in DOMAIN items : items'[n] = items[m]
  BY <1>0, GetKeepsInv
<1>2. ValueOf(slice[t]) \in Images
  BY ValueOfType DEF Get, Images
<1>3. TypeOK'
  BY <1>1, <1>2 DEF TypeOK, CacheInv, Labels
<1>4. ReadersInv' /\ SliceLockInv' /\ MissedInv' /\ LoadedInv'
  BY <1>1, NobodyAssumption
  DEF TypeOK, ReadersInv, SliceLockInv, MissedInv, LoadedInv, Holds, Loading
<1>5. CleanIsFresh'
  BY <1>1 DEF CleanIsFresh
<1> QED
  BY <1>1, <1>3, <1>4, <1>5

\* get() throws: the locks are released by their destructors.
LEMMA GetThrowsInv ==
    ASSUME Inv, NEW t \in Threads, GetThrows(t)
    PROVE  Inv'
<1> USE DEF Inv, GetThrows, Goto, ReleaseSliceLock, cacheVars
<1>1. CacheInv'
  BY CacheUnchanged
<1>2. TypeOK'
  BY <1>1 DEF TypeOK, CacheInv, Labels
<1>3. ReadersInv' /\ SliceLockInv' /\ MissedInv' /\ LoadedInv'
  BY NobodyAssumption
  DEF TypeOK, ReadersInv, SliceLockInv, MissedInv, LoadedInv, Holds, Loading
<1>4. CleanIsFresh'
  BY DEF CleanIsFresh
<1> QED
  BY <1>1, <1>2, <1>3, <1>4

\* A free slice mutex is taken.
LEMMA TakeSliceLockInv ==
    ASSUME Inv, NEW t \in Threads, TakeSliceLock(t)
    PROVE  Inv'
<1> USE DEF Inv, TakeSliceLock, Goto, cacheVars
<1>1. CacheInv'
  BY CacheUnchanged
<1>2. TypeOK'
  BY <1>1 DEF TypeOK, CacheInv, Labels
<1>3. ReadersInv' /\ SliceLockInv' /\ MissedInv' /\ LoadedInv'
  BY NobodyAssumption
  DEF TypeOK, ReadersInv, SliceLockInv, MissedInv, LoadedInv, Holds, Loading
<1>4. CleanIsFresh'
  BY DEF CleanIsFresh
<1> QED
  BY <1>1, <1>2, <1>3, <1>4

\* The two ends of reading the file: a file rewritten in between gives Torn.
LEMMA LoadInv ==
    ASSUME Inv, NEW t \in Threads, StartLoad(t) \/ FinishLoad(t)
    PROVE  Inv'
<1> USE DEF Inv, StartLoad, FinishLoad, Goto, locks, cacheVars
<1>1. CacheInv'
  BY CacheUnchanged
<1>2. TypeOK'
  BY <1>1, TornAssumption DEF TypeOK, CacheInv, Labels
<1>3. ReadersInv' /\ SliceLockInv' /\ MissedInv'
  BY DEF TypeOK, ReadersInv, SliceLockInv, MissedInv, Holds, Loading
<1>4. LoadedInv'
  BY DEF TypeOK, LoadedInv
<1>5. CleanIsFresh'
  BY DEF CleanIsFresh
<1> QED
  BY <1>1, <1>2, <1>3, <1>4, <1>5

\* A load throws: the slice mutex is released and nothing is stored.
LEMMA LoadThrowsInv ==
    ASSUME Inv, NEW t \in Threads, LoadThrows(t)
    PROVE  Inv'
<1> USE DEF Inv, LoadThrows, Goto, ReleaseSliceLock, cacheVars
<1>1. CacheInv'
  BY CacheUnchanged
<1>2. TypeOK'
  BY <1>1 DEF TypeOK, CacheInv, Labels
<1>3. ReadersInv' /\ SliceLockInv' /\ MissedInv' /\ LoadedInv'
  BY NobodyAssumption
  DEF TypeOK, ReadersInv, SliceLockInv, MissedInv, LoadedInv, Holds, Loading
<1>4. CleanIsFresh'
  BY DEF CleanIsFresh
<1> QED
  BY <1>1, <1>2, <1>3, <1>4

\* put() under the exclusive lock: no reader is between contains() and get(), and
\* nobody else is loading this slice.
LEMMA StoreInv ==
    ASSUME Inv, NEW t \in Threads, Store(t)
    PROVE  Inv'
<1> USE DEF Inv, Store, Goto, ReleaseSliceLock
<1> DEFINE k == slice[t]
           v == img[t]
<1>0. k \in Keys /\ v \in Values
  BY DEF TypeOK, Slices, Images
<1>1. /\ CacheInv'
      /\ lookup' \subseteq lookup \cup {k}
      /\ \A n \in DOMAIN items' :
            \/ items'[n] = [key |-> k, val |-> v]
            \/ items'[n].key # k /\ \E m \in DOMAIN items : items'[n] = items[m]
  BY <1>0, PutKeepsInv
<1>2. TypeOK'
  BY <1>1 DEF TypeOK, CacheInv, Labels
<1>3. ReadersInv' /\ SliceLockInv' /\ LoadedInv'
  BY NobodyAssumption DEF TypeOK, ReadersInv, SliceLockInv, LoadedInv, Holds, Loading
<1>4. MissedInv'
  <2>1. ASSUME NEW u \in Threads, Loading(u)'
        PROVE  slice'[u] \notin lookup'
    <3>1. u # t /\ Loading(u) /\ slice'[u] = slice[u]
      BY <2>1 DEF TypeOK, Loading
    <3>2. slice[u] \notin lookup
      BY <3>1 DEF MissedInv
    <3>3. slice[u] # k
      BY <3>1 DEF TypeOK, SliceLockInv, Loading, Holds
    <3> QED
      BY <3>1, <3>2, <3>3, <1>1
  <2> QED
    BY <2>1 DEF MissedInv
<1>5. CleanIsFresh'
  <2>1. ASSUME NEW n \in DOMAIN items', clean[items'[n].key]
        PROVE  items'[n].val = disk[items'[n].key]
    <3>1. CASE items'[n] = [key |-> k, val |-> v]
      BY <3>1, <2>1 DEF LoadedInv
    <3>2. CASE \E m \in DOMAIN items : items'[n] = items[m]
      BY <3>2, <2>1 DEF CleanIsFresh
    <3> QED
      BY <3>1, <3>2, <1>1
  <2> QED
    BY <2>1 DEF CleanIsFresh
<1> QED
  BY <1>1, <1>2, <1>3, <1>4, <1>5

\* setSliceData opens the file: its slice is no longer clean.
LEMMA BeginWriteInv ==
    ASSUME Inv, NEW t \in Threads, NEW i \in Slices, NEW v \in Images \ {Torn},
           BeginWrite(t, i, v)
    PROVE  Inv'
<1> USE DEF Inv, BeginWrite, Begin, Goto, locks, cacheVars
<1>1. CacheInv'
  BY CacheUnchanged
<1>2. TypeOK'
  BY <1>1, TornAssumption, MaxOpsAssumption DEF TypeOK, CacheInv, Labels
<1>3. ReadersInv' /\ SliceLockInv' /\ MissedInv' /\ LoadedInv'
  BY DEF TypeOK, ReadersInv, SliceLockInv, MissedInv, LoadedInv, Holds, Loading
<1>4. CleanIsFresh'
  BY DEF CleanIsFresh, TypeOK
<1> QED
  BY <1>1, <1>2, <1>3, <1>4

\* setSliceData has written the file.
LEMMA EndWriteInv ==
    ASSUME Inv, NEW t \in Threads, EndWrite(t)
    PROVE  Inv'
<1> USE DEF Inv, EndWrite, Goto, locks, cacheVars
<1>1. CacheInv'
  BY CacheUnchanged
<1>2. TypeOK'
  BY <1>1 DEF TypeOK, CacheInv, Labels
<1>3. ReadersInv' /\ SliceLockInv' /\ MissedInv' /\ LoadedInv'
  BY DEF TypeOK, ReadersInv, SliceLockInv, MissedInv, LoadedInv, Holds, Loading
<1>4. CleanIsFresh'
  BY DEF CleanIsFresh, TypeOK
<1> QED
  BY <1>1, <1>2, <1>3, <1>4

\* cachePurge makes clean the slices whose loads it does not straddle.
LEMMA CachePurgeInv ==
    ASSUME Inv, NEW t \in Threads, CachePurge(t)
    PROVE  Inv'
<1> USE DEF Inv, CachePurge, Begin, locks
<1>1. CacheInv' /\ DOMAIN items' = {} /\ lookup' = {}
  BY PurgeKeepsInv DEF Purge
<1>2. TypeOK'
  BY <1>1, MaxOpsAssumption DEF TypeOK, CacheInv
<1>3. ReadersInv' /\ SliceLockInv' /\ MissedInv'
  BY <1>1 DEF TypeOK, ReadersInv, SliceLockInv, MissedInv, Holds, Loading
<1>4. LoadedInv'
  BY DEF TypeOK, LoadedInv, NoLoadStraddles
<1>5. CleanIsFresh'
  BY <1>1 DEF CleanIsFresh
<1> QED
  BY <1>1, <1>2, <1>3, <1>4, <1>5

\* setCacheCapacity, without the lock of the volume, only removes entries.
LEMMA SetCacheCapacityInv ==
    ASSUME Inv, NEW t \in Threads, NEW c \in Capacities, SetCacheCapacity(t, c)
    PROVE  Inv'
<1> USE DEF Inv, SetCacheCapacity, Begin, locks
<1>1. /\ CacheInv'
      /\ lookup' \subseteq lookup
      /\ \A n \in DOMAIN items' : \E m \in DOMAIN items : items'[n] = items[m]
  BY SetCapacityKeepsInv
<1>2. TypeOK'
  BY <1>1, MaxOpsAssumption DEF TypeOK, CacheInv
<1>3. ReadersInv' /\ SliceLockInv' /\ MissedInv' /\ LoadedInv'
  BY <1>1 DEF TypeOK, ReadersInv, SliceLockInv, MissedInv, LoadedInv, Holds, Loading
<1>4. CleanIsFresh'
  BY <1>1 DEF CleanIsFresh
<1> QED
  BY <1>1, <1>2, <1>3, <1>4

\* The invariant depends on the variables alone.
LEMMA StutterInv == Inv /\ UNCHANGED vars => Inv'
<1> SUFFICES ASSUME Inv, UNCHANGED vars PROVE Inv'
  OBVIOUS
<1> USE DEF Inv, vars, cacheVars, locals, locks
<1>1. CacheInv'
  BY CacheUnchanged
<1>2. TypeOK' /\ CleanIsFresh'
  BY <1>1 DEF TypeOK, CleanIsFresh, CacheInv
<1>3. ReadersInv' /\ SliceLockInv' /\ MissedInv' /\ LoadedInv'
  BY DEF ReadersInv, SliceLockInv, MissedInv, LoadedInv, Holds, Loading
<1> QED
  BY <1>1, <1>2, <1>3

\* Every step of every thread keeps the invariant.
LEMMA NextInv == Inv /\ [Next]_vars => Inv'
<1> SUFFICES ASSUME Inv, [Next]_vars PROVE Inv'
  OBVIOUS
<1>1. ASSUME NEW t \in Threads, NEW i \in Slices, GetSliceData(t, i)
      PROVE  Inv'
  BY <1>1, GetSliceDataInv
<1>2. ASSUME NEW t \in Threads, CacheSlice(t)
      PROVE  Inv'
  BY <1>2, CheckInv, GetHitInv, GetThrowsInv, TakeSliceLockInv, LoadInv, LoadThrowsInv,
     StoreInv
  DEF CacheSlice
<1>3. ASSUME NEW t \in Threads,
             \/ \E i \in Slices, v \in Images \ {Torn} : BeginWrite(t, i, v)
             \/ EndWrite(t)
      PROVE  Inv'
  BY <1>3, BeginWriteInv, EndWriteInv
<1>4. ASSUME NEW t \in Threads, CachePurge(t)
      PROVE  Inv'
  BY <1>4, CachePurgeInv
<1>5. ASSUME NEW t \in Threads, NEW c \in Capacities, SetCacheCapacity(t, c)
      PROVE  Inv'
  BY <1>5, SetCacheCapacityInv
<1>6. CASE Finished \/ UNCHANGED vars
  BY <1>6, StutterInv DEF Finished
<1> QED
  BY <1>1, <1>2, <1>3, <1>4, <1>5, <1>6 DEF Next

\* The inductive invariant holds in every reachable state.
THEOREM SliceCacheInvariant == Spec => []Inv
<1> QED
  BY InitInv, NextInv, PTL DEF Spec

\* Type correctness of the slice cache.
THEOREM TypeCorrect == Spec => []TypeOK
<1>1. Inv => TypeOK
  BY DEF Inv
<1> QED
  BY <1>1, SliceCacheInvariant, PTL

\* No slice is loaded twice at a time or while it is cached, with any number of
\* threads and under any interleaving of readers, purges and capacity changes.
THEOREM LoadsNeeded == Spec => []LoadsAreNeeded
<1>1. Inv => LoadsAreNeeded
  BY DEF Inv, LoadsAreNeeded, MissedInv, SliceLockInv, Holds
<1> QED
  BY <1>1, SliceCacheInvariant, PTL

\* A slice not rewritten since a purge that no load of it straddled is cached with
\* its file's content.
THEOREM CleanFresh == Spec => []CleanIsFresh
<1>1. Inv => CleanIsFresh
  BY DEF Inv
<1> QED
  BY <1>1, SliceCacheInvariant, PTL

\* Only a shrinking capacity makes get() miss after contains() has hit.
THEOREM ShrinkingAlone == Spec => ShrinkingAloneCausesMisses
<1> DEFINE Miss == (\E t \in Threads : /\ pc[t] = "get"
                                       /\ slice[t] \in lookup
                                       /\ slice[t] \notin lookup')
                   => capacity' < capacity
<1>1. Inv /\ [Next]_vars => [Miss]_vars
  <2> SUFFICES ASSUME Inv, Next, NEW t \in Threads, pc[t] = "get",
                      slice[t] \in lookup, slice[t] \notin lookup'
               PROVE  capacity' < capacity
    BY DEF vars
  <2>1. t \in readers
    BY DEF Inv, ReadersInv
  <2>2. ASSUME NEW u \in Threads, NEW c \in Capacities, SetCacheCapacity(u, c)
        PROVE  capacity' < capacity
    BY <2>2, SetCapacityKeepsInv DEF SetCacheCapacity, Inv
  <2>3. ASSUME NEW u \in Threads, CacheSlice(u)
        PROVE  FALSE
    BY <2>1, <2>3
    DEF CacheSlice, CheckHit, CheckMiss, GetHit, GetThrows, TakeSliceLock, StartLoad,
        FinishLoad, LoadThrows, Store, Get, cacheVars
  <2>4. ASSUME NEW u \in Threads, CachePurge(u)
        PROVE  FALSE
    BY <2>1, <2>4 DEF CachePurge
  <2>5. ASSUME \/ \E u \in Threads, i \in Slices : GetSliceData(u, i)
               \/ \E u \in Threads, i \in Slices, v \in Images : BeginWrite(u, i, v)
               \/ \E u \in Threads : EndWrite(u)
               \/ Finished
        PROVE  FALSE
    BY <2>5 DEF GetSliceData, BeginWrite, EndWrite, Finished, cacheVars, vars
  <2> QED
    BY <2>2, <2>3, <2>4, <2>5 DEF Next
<1> QED
  BY <1>1, SliceCacheInvariant, PTL DEF Spec, ShrinkingAloneCausesMisses

-----------------------------------------------------------------------------
(***************************************************************************)
(* Refinement.                                                             *)
(***************************************************************************)
\* When every entry was there before a step, the table only forgot entries.
LEMMA TableForgets ==
    ASSUME Inv, Inv', UNCHANGED slice,
           \A n \in DOMAIN items' : \E m \in DOMAIN items : items'[n] = items[m]
    PROVE  Table' = Memo!Without(Table, Slices \ lookup')
<1>1. lookup' = KeysOf(items')
  BY DEF Inv, CacheInv, IndexMatchesList
<1>2. ASSUME NEW i \in Slices
      PROVE  Table'[i] = IF i \in Slices \ lookup' THEN Absent ELSE Table[i]
  <2>1. CASE i \in lookup'
    <3>1. PICK n \in DOMAIN items' : items'[n].key = i
      BY <2>1, <1>1 DEF KeysOf
    <3>2. PICK m \in DOMAIN items : items'[n] = items[m]
      BY <3>1
    <3>3. i \in lookup /\ ValueOf(i)' = ValueOf(i)
      BY <3>1, <3>2, KeptValue DEF Inv
    <3> QED
      BY <2>1, <3>3 DEF Table
  <2>2. CASE i \notin lookup'
    BY <2>2 DEF Table
  <2> QED
    BY <2>1, <2>2
<1> QED
  BY <1>2 DEF Table, Memo!Without

\* Slices under load are the same when no thread enters or leaves its load.
LEMMA BusyUnchanged ==
    ASSUME \A t \in Threads : Loading(t)' = Loading(t),
           \A t \in Threads : Loading(t) => slice'[t] = slice[t]
    PROVE  Busy' = Busy
BY DEF Busy

\* Steps by which no thread throws.
LEMMA FailedUnchanged ==
    ASSUME \A t \in Threads : pc'[t] = "threw" <=> pc[t] = "threw"
    PROVE  Failed' = Failed
BY DEF Failed

\* A thread that throws joins those that have.
LEMMA FailedGrows ==
    ASSUME Inv, NEW t \in Threads, pc[t] # "threw", Goto(t, "threw")
    PROVE  t \notin Failed /\ Failed' = Failed \cup {t}
BY DEF Failed, Goto, Inv, TypeOK

\* The list and the index make the table.
LEMMA TableUnchanged == UNCHANGED cacheVars => Table' = Table
BY DEF Table, ValueOf, Node, cacheVars

\* The slice a thread loads is under load, and no longer when the thread stops
\* loading it: nobody else loads it.
LEMMA BusyShrinks ==
    ASSUME Inv, NEW t \in Threads, Loading(t), UNCHANGED slice,
           \A u \in Threads : Loading(u)' <=> Loading(u) /\ u # t
    PROVE  slice[t] \in Busy /\ Busy' = Busy \ {slice[t]}
<1>1. \A u \in Threads : Loading(u) /\ slice[u] = slice[t] => u = t
  BY DEF Inv, SliceLockInv, Holds
<1> QED
  BY <1>1 DEF Busy

\* Steps of the volume that the table does not see.
LEMMA Invisible ==
    ASSUME Inv, Inv', UNCHANGED cacheVars,
           \A t \in Threads : Loading(t)' = Loading(t),
           \A t \in Threads : Loading(t) => slice'[t] = slice[t],
           \A t \in Threads : pc'[t] = "threw" <=> pc[t] = "threw"
    PROVE  UNCHANGED Memo!memoVars
<1>1. Busy' = Busy
  BY BusyUnchanged
<1>2. Table' = Table
  BY TableUnchanged
<1> QED
  BY <1>1, <1>2, FailedUnchanged DEF Memo!memoVars

\* The second check that misses is BeginLoad of the table; the first is invisible.
LEMMA CheckMissRefines ==
    ASSUME Inv, Inv', NEW t \in Threads, CheckMiss(t)
    PROVE  [Memo!MemoNext]_Memo!memoVars
<1>1. CASE Holds(t, slice[t])
  <2> DEFINE i == slice[t]
  <2>1. i \in Slices /\ Table[i] = Absent
    BY DEF Inv, TypeOK, CheckMiss, Table
  <2>2. i \notin Busy
    <3> SUFFICES ASSUME NEW u \in Threads, Loading(u), slice[u] = i
                 PROVE  FALSE
      BY DEF Busy
    <3>1. Holds(u, i)
      BY DEF Inv, SliceLockInv
    <3>2. u = t
      BY <3>1, <1>1 DEF Holds
    <3> QED
      BY <3>2 DEF CheckMiss, Loading
  <2>3. Busy' = Busy \cup {i}
    <3>1. \A u \in Threads : Loading(u)' <=> Loading(u) \/ u = t
      BY <1>1 DEF CheckMiss, Goto, Loading, Inv, TypeOK
    <3> QED
      BY <3>1 DEF Busy, CheckMiss
  <2>4. Table' = Table
    BY TableUnchanged DEF CheckMiss
  <2>5. Failed' = Failed
    BY <1>1, FailedUnchanged DEF CheckMiss, Goto, Inv, TypeOK
  <2> QED
    BY <2>1, <2>2, <2>3, <2>4, <2>5 DEF Memo!MemoNext, Memo!BeginLoad
<1>2. CASE ~Holds(t, slice[t])
  <2>1. \A u \in Threads : Loading(u)' = Loading(u)
    BY <1>2 DEF CheckMiss, Goto, Loading, Inv, TypeOK
  <2>2. \A u \in Threads : pc'[u] = "threw" <=> pc[u] = "threw"
    BY <1>2 DEF CheckMiss, Goto, Inv, TypeOK
  <2> QED
    BY <2>1, <2>2, Invisible DEF CheckMiss
<1> QED
  BY <1>1, <1>2

\* A hit reorders the cache and is invisible to the table.
LEMMA GetHitRefines ==
    ASSUME Inv, Inv', NEW t \in Threads, GetHit(t)
    PROVE  [Memo!MemoNext]_Memo!memoVars
<1>1. /\ UNCHANGED slice
      /\ \A n \in DOMAIN items' : \E m \in DOMAIN items : items'[n] = items[m]
  <2>1. slice[t] \in Keys
    BY DEF Inv, TypeOK, Slices
  <2> QED
    BY <2>1, GetKeepsInv DEF GetHit, Inv
<1>2. Table' = Memo!Without(Table, Slices \ lookup')
  BY <1>1, TableForgets
<1>3. Busy' = Busy
  <2>1. \A u \in Threads : Loading(u)' = Loading(u)
    BY DEF GetHit, Goto, Loading, Inv, TypeOK
  <2> QED
    BY <1>1, <2>1, BusyUnchanged
<1>4. Slices \ lookup' \in SUBSET Slices
  OBVIOUS
<1>5. Failed' = Failed
  BY FailedUnchanged DEF GetHit, Goto, Inv, TypeOK
<1> QED
  BY <1>2, <1>3, <1>4, <1>5 DEF Memo!MemoNext, Memo!Forget

\* get() that throws is Refuse of the table: its slice is no longer there.
LEMMA GetThrowsRefines ==
    ASSUME Inv, Inv', NEW t \in Threads, GetThrows(t)
    PROVE  [Memo!MemoNext]_Memo!memoVars
<1> DEFINE i == slice[t]
<1>1. i \in Slices /\ Table[i] = Absent
  BY DEF Inv, TypeOK, GetThrows, Table
<1>2. t \notin Failed /\ Failed' = Failed \cup {t}
  BY FailedGrows DEF GetThrows
<1>3. Busy' = Busy
  <2>1. \A u \in Threads : Loading(u)' = Loading(u)
    BY DEF GetThrows, Goto, Loading, Inv, TypeOK
  <2> QED
    BY <2>1, BusyUnchanged DEF GetThrows
<1>4. Table' = Table
  BY TableUnchanged DEF GetThrows
<1> HIDE DEF i
<1>5. Memo!Refuse(i, t)
  BY <1>1, <1>2, <1>3, <1>4 DEF Memo!Refuse
<1> QED
  BY <1>1, <1>5 DEF Memo!MemoNext

\* A load that throws is AbortLoad of the table.
LEMMA LoadThrowsRefines ==
    ASSUME Inv, Inv', NEW t \in Threads, LoadThrows(t)
    PROVE  [Memo!MemoNext]_Memo!memoVars
<1> DEFINE i == slice[t]
<1>1. i \in Slices /\ Loading(t) /\ UNCHANGED slice
  BY DEF Inv, TypeOK, LoadThrows, Loading
<1>2. t \notin Failed /\ Failed' = Failed \cup {t}
  BY FailedGrows DEF LoadThrows
<1>3. i \in Busy /\ Busy' = Busy \ {i}
  <2>1. \A u \in Threads : Loading(u)' <=> Loading(u) /\ u # t
    BY DEF LoadThrows, Goto, Loading, Inv, TypeOK
  <2> QED
    BY <1>1, <2>1, BusyShrinks
<1>4. Table' = Table
  BY TableUnchanged DEF LoadThrows
<1> HIDE DEF i
<1>5. Memo!AbortLoad(i, t)
  BY <1>2, <1>3, <1>4 DEF Memo!AbortLoad
<1> QED
  BY <1>1, <1>5 DEF Memo!MemoNext

\* put() is EndLoad of the table, the evicted slice being forgotten.
LEMMA StoreRefines ==
    ASSUME Inv, Inv', NEW t \in Threads, Store(t)
    PROVE  [Memo!MemoNext]_Memo!memoVars
<1> DEFINE k == slice[t]
           v == img[t]
           F == Slices \ lookup'
<1>0. k \in Keys /\ k \in Slices /\ v \in Values /\ v \in Images
  BY DEF Inv, TypeOK, Slices, Images
<1>1. /\ k \in lookup'
      /\ lookup' = KeysOf(items')
      /\ \A n \in DOMAIN items' :
            \/ items'[n] = [key |-> k, val |-> v]
            \/ items'[n].key # k /\ \E m \in DOMAIN items : items'[n] = items[m]
  <2>1. Put(k, v)
    BY DEF Store
  <2> QED
    BY <1>0, <2>1, PutKeepsInv DEF Inv, CacheInv, IndexMatchesList
<1>2. Table' = [Memo!Without(Table, F) EXCEPT ![k] = v]
  <2>1. ASSUME NEW i \in Slices
        PROVE  Table'[i] = IF i = k THEN v ELSE IF i \in F THEN Absent ELSE Table[i]
    <3>1. CASE i \in lookup'
      <4>1. PICK n \in DOMAIN items' : items'[n].key = i
        BY <3>1, <1>1 DEF KeysOf
      <4>2. CASE i = k
        <5>1. items'[n] = [key |-> k, val |-> v]
          BY <4>1, <4>2, <1>1
        <5>2. items' \in Seq(Entry) /\ Distinct(items')
          BY DEF Inv, CacheInv, CacheTypeOK, IndexMatchesList, Distinct, Entry
        <5>3. Node(items', i) = n
          BY <4>1, <5>2, NodeOfKey
        <5>4. ValueOf(i)' = v
          BY <5>1, <5>3 DEF ValueOf
        <5> QED
          BY <3>1, <4>2, <5>4 DEF Table
      <4>3. CASE i # k
        <5>1. PICK m \in DOMAIN items : items'[n] = items[m]
          BY <4>1, <4>3, <1>1
        <5>2. i \in lookup /\ ValueOf(i)' = ValueOf(i)
          BY <4>1, <5>1, KeptValue DEF Inv
        <5> QED
          BY <3>1, <4>3, <5>2 DEF Table
      <4> QED
        BY <4>2, <4>3
    <3>2. CASE i \notin lookup'
      BY <3>2, <1>1 DEF Table
    <3> QED
      BY <3>1, <3>2
  <2>2. Table' = [i \in Slices |-> IF i = k THEN v ELSE IF i \in F THEN Absent ELSE Table[i]]
    BY <2>1 DEF Table
  <2> QED
    BY <2>2, <1>0 DEF Memo!Without
<1>3. k \in Busy /\ Busy' = Busy \ {k}
  <2>1. \A u \in Threads : Loading(u)' <=> Loading(u) /\ u # t
    BY DEF Store, Goto, Loading, Inv, TypeOK
  <2>2. Loading(t) /\ UNCHANGED slice
    BY DEF Store, Loading
  <2> QED
    BY <2>1, <2>2, BusyShrinks
<1>4. Failed' = Failed
  BY FailedUnchanged DEF Store, Goto, Inv, TypeOK
<1>5. F \in SUBSET (Slices \ {k})
  BY <1>1
<1> HIDE DEF k, v, F
<1>6. Memo!EndLoad(k, v)
  BY <1>2, <1>3, <1>4, <1>5 DEF Memo!EndLoad
<1> QED
  BY <1>0, <1>6 DEF Memo!MemoNext

\* The volume implements the table of SliceMemo: initial states map to initial
\* states and every step maps to a step of the table or leaves it unchanged.
THEOREM SliceCacheImplementsMemo == Spec => ImplementsMemo
<1>1. Init => Memo!MemoInit
  BY DEF Init, CacheInit, Memo!MemoInit, Table, Busy, Loading, Failed
<1>2. Inv /\ Inv' /\ [Next]_vars => [Memo!MemoNext]_Memo!memoVars
  <2> SUFFICES ASSUME Inv, Inv', [Next]_vars
               PROVE  [Memo!MemoNext]_Memo!memoVars
    OBVIOUS
  <2>1. ASSUME NEW t \in Threads,
               \/ \E i \in Slices : GetSliceData(t, i)
               \/ CheckHit(t) \/ TakeSliceLock(t)
               \/ StartLoad(t) \/ FinishLoad(t)
               \/ \E i \in Slices, v \in Images \ {Torn} : BeginWrite(t, i, v)
               \/ EndWrite(t)
        PROVE  UNCHANGED Memo!memoVars
    <3>1. UNCHANGED cacheVars
      BY <2>1 DEF GetSliceData, CheckHit, TakeSliceLock, StartLoad, FinishLoad,
                  BeginWrite, EndWrite
    <3>2. \A u \in Threads : Loading(u)' = Loading(u)
      BY <2>1 DEF GetSliceData, CheckHit, TakeSliceLock, StartLoad, FinishLoad,
                  BeginWrite, EndWrite, Begin, Goto, Loading, Inv, TypeOK
    <3>3. \A u \in Threads : Loading(u) => slice'[u] = slice[u]
      BY <2>1 DEF GetSliceData, CheckHit, TakeSliceLock, StartLoad, FinishLoad,
                  BeginWrite, EndWrite, Begin, Loading, Inv, TypeOK
    <3>4. \A u \in Threads : pc'[u] = "threw" <=> pc[u] = "threw"
      BY <2>1 DEF GetSliceData, CheckHit, TakeSliceLock, StartLoad, FinishLoad,
                  BeginWrite, EndWrite, Begin, Goto, Inv, TypeOK
    <3> QED
      BY <3>1, <3>2, <3>3, <3>4, Invisible
  <2>2. ASSUME NEW t \in Threads,
               CachePurge(t) \/ \E c \in Capacities : SetCacheCapacity(t, c)
        PROVE  [Memo!MemoNext]_Memo!memoVars
    <3>1. UNCHANGED <<slice, pc>>
      BY <2>2 DEF CachePurge, SetCacheCapacity
    <3>2. \A n \in DOMAIN items' : \E m \in DOMAIN items : items'[n] = items[m]
      BY <2>2, PurgeKeepsInv, SetCapacityKeepsInv DEF CachePurge, SetCacheCapacity, Inv
    <3>3. Table' = Memo!Without(Table, Slices \ lookup')
      BY <3>1, <3>2, TableForgets
    <3>4. Busy' = Busy /\ Failed' = Failed
      BY <3>1 DEF Busy, Failed, Loading
    <3>5. Slices \ lookup' \in SUBSET Slices
      OBVIOUS
    <3> QED
      BY <3>3, <3>4, <3>5 DEF Memo!MemoNext, Memo!Forget
  <2>3. CASE Finished \/ UNCHANGED vars
    <3>1. UNCHANGED vars
      BY <2>3 DEF Finished
    <3>2. UNCHANGED cacheVars /\ UNCHANGED <<pc, slice>>
      BY <3>1 DEF vars, locals
    <3> QED
      BY <3>2, Invisible DEF Loading
  <2> QED
    BY <2>1, <2>2, <2>3, CheckMissRefines, GetHitRefines, GetThrowsRefines,
       LoadThrowsRefines, StoreRefines
    DEF Next, CacheSlice
<1> QED
  BY <1>1, <1>2, SliceCacheInvariant, PTL DEF Spec, ImplementsMemo, Memo!MemoSpec
=============================================================================
