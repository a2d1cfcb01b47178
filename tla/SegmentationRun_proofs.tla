----------------------- MODULE SegmentationRun_proofs -----------------------
(***************************************************************************)
(* Safety of segmentation runs, for volumes, rows, segments and user       *)
(* behaviour of any size.                                                  *)
(***************************************************************************)
EXTENDS SegmentationRun, FiniteSetTheorems, WellFoundedInduction, TLAPS

-----------------------------------------------------------------------------
(* Intervals of slices.                                                    *)

\* A set of slices has a first element.
LEMMA SlicesHaveMin ==
    ASSUME NEW T, T \subseteq Nat, T # {}
    PROVE  Min(T) \in T /\ \A t \in T : Min(T) <= t
  <1>1. PICK x \in T : \A y \in T : ~ (<<y, x>> \in OpToRel(<, Nat))
    BY NatLessThanWellFounded, WFMin, Zenon
  <1>2. \A y \in T : x <= y
    <2> SUFFICES ASSUME NEW y \in T PROVE x <= y
      OBVIOUS
    <2>1. x \in Nat /\ y \in Nat
      OBVIOUS
    <2>2. ~(y < x)
      BY <1>1, <2>1, Zenon DEF OpToRel
    <2> QED
      BY <2>1, <2>2
  <1> QED
    BY <1>1, <1>2 DEF Min

\* The same from above.
LEMMA SlicesHaveMax ==
    ASSUME NEW T, T \subseteq Slices, T # {}
    PROVE  Max(T) \in T /\ \A t \in T : Max(T) >= t
  <1> DEFINE U == {NumSlices - t : t \in T}
  <1>0. NumSlices \in Nat /\ \A t \in T : t \in Nat /\ NumSlices - t \in Nat
    BY SizesAssumption DEF Slices
  <1>1. U \subseteq Nat /\ U # {}
    BY <1>0
  <1>2. Min(U) \in U /\ \A u \in U : Min(U) <= u
    <2> HIDE DEF U
    <2> QED
      BY <1>1, SlicesHaveMin
  <1>3. PICK x \in T : Min(U) = NumSlices - x
    BY <1>2
  <1>4. \A y \in T : x >= y
    <2> SUFFICES ASSUME NEW y \in T PROVE x >= y
      OBVIOUS
    <2>1. NumSlices - x <= NumSlices - y
      BY <1>2, <1>3
    <2> QED
      BY <2>1, <1>0
  <1> QED
    BY <1>4 DEF Max

\* The ends of an interval are its least and its greatest element.
LEMMA IntervalEnds ==
    ASSUME NEW a \in Int, NEW b \in Int, a <= b
    PROVE  Min(a .. b) = a /\ Max(a .. b) = b
  <1>1. /\ a \in a .. b /\ \A y \in a .. b : a <= y
        /\ b \in a .. b /\ \A y \in a .. b : b >= y
    OBVIOUS
  <1>2. ASSUME NEW x \in a .. b, \A y \in a .. b : x <= y PROVE x = a
    BY <1>1, <1>2
  <1>3. ASSUME NEW x \in a .. b, \A y \in a .. b : x >= y PROVE x = b
    BY <1>1, <1>3
  <1>4. Min(a .. b) = a
    BY <1>1, <1>2 DEF Min
  <1>5. Max(a .. b) = b
    BY <1>1, <1>3 DEF Max
  <1> QED
    BY <1>4, <1>5

\* A span is an interval, whichever end is named first.
LEMMA SpanIsInterval ==
    ASSUME NEW a \in Slices, NEW b \in Slices
    PROVE  Span(a, b) = IF a <= b THEN a .. b ELSE b .. a
  BY SizesAssumption DEF Slices, Span

\* An interval with the slice beside it is an interval.
LEMMA IntervalWithEnd ==
    ASSUME NEW f \in Int, NEW s \in Int
    PROVE  /\ s >= f => {f} \cup (f + 1 .. s) = f .. s
           /\ s <= f => {f} \cup (s .. f - 1) = s .. f
  <1>1. ASSUME s >= f, NEW x
        PROVE  x \in {f} \cup (f + 1 .. s) <=> x \in f .. s
    BY <1>1
  <1>2. ASSUME s <= f, NEW x
        PROVE  x \in {f} \cup (s .. f - 1) <=> x \in s .. f
    BY <1>2
  <1>3. s >= f => {f} \cup (f + 1 .. s) = f .. s
    <2> DEFINE A == {f} \cup (f + 1 .. s)
               B == f .. s
    <2>1. s >= f => \A x : x \in A <=> x \in B
      BY <1>1
    <2> HIDE DEF A, B
    <2>2. s >= f => A = B
      BY <2>1
    <2> QED
      BY <2>2 DEF A, B
  <1>4. s <= f => {f} \cup (s .. f - 1) = s .. f
    <2> DEFINE A == {f} \cup (s .. f - 1)
               B == s .. f
    <2>1. s <= f => \A x : x \in A <=> x \in B
      BY <1>2
    <2> HIDE DEF A, B
    <2>2. s <= f => A = B
      BY <2>1
    <2> QED
      BY <2>2 DEF A, B
  <1> QED
    BY <1>3, <1>4

\* A span that ends inside another one with the same beginning lies within it.
LEMMA SpanWithin ==
    ASSUME NEW a \in Slices, NEW b \in Slices, NEW t \in Span(a, b), NEW u \in Span(a, t)
    PROVE  u \in Span(a, b)
  <1>1. a \in Int /\ b \in Int /\ t \in Int /\ u \in Int /\ u \in Slices
    BY SizesAssumption DEF Slices, Span
  <1>2. /\ (a <= t /\ t <= b) \/ (b <= t /\ t <= a)
        /\ (a <= u /\ u <= t) \/ (t <= u /\ u <= a)
    BY DEF Span
  <1>3. (a <= u /\ u <= b) \/ (b <= u /\ u <= a)
    BY <1>1, <1>2
  <1> QED
    BY <1>1, <1>3 DEF Span
-----------------------------------------------------------------------------
(* Merges.                                                                 *)

\* Both clouds reach from slice a to slice b.
Covers(c, n, a, b) == a <= b /\ DOMAIN c = a .. b /\ DOMAIN n = a .. b

\* First, last and number of the rows of covered clouds.
LEMMA CoveredEnds ==
    ASSUME NEW c, NEW n, NEW a \in Int, NEW b \in Int, Covers(c, n, a, b)
    PROVE  /\ First(c) = a /\ Last(c) = b /\ First(n) = a /\ Last(n) = b
           /\ Height(c) = b - a + 1 /\ Height(n) = b - a + 1
  <1>1. a <= b /\ DOMAIN c = a .. b /\ DOMAIN n = a .. b
    BY DEF Covers
  <1>2. Min(a .. b) = a /\ Max(a .. b) = b
    BY <1>1, IntervalEnds
  <1>3. Cardinality(a .. b) = b - a + 1
    BY <1>1, FS_Interval
  <1> QED
    BY <1>1, <1>2, <1>3 DEF First, Last, Height

\* The slices an interval c .. d of new rows makes of the interval a .. b.
LEMMA MergedDomain ==
    ASSUME NEW c, NEW rows, NEW a \in Int, NEW b \in Int, NEW x \in Int, NEW y \in Int,
           a <= b, DOMAIN c = a .. b, x <= y, DOMAIN rows = x .. y,
           x <= b + 1, a <= y + 1
    PROVE  DOMAIN Merged(c, rows) =
             (IF x < a THEN x ELSE a) .. (IF y > b THEN y ELSE b)
  <1> DEFINE kept == {s \in DOMAIN c : s < First(rows) \/ s > Last(rows)}
  <1>1. First(rows) = x /\ Last(rows) = y /\ DOMAIN rows # {}
    BY IntervalEnds DEF First, Last
  <1>2. DOMAIN Merged(c, rows) = DOMAIN rows \cup kept
    BY <1>1 DEF Merged, Restrict, Over
  <1>3. kept = {s \in a .. b : s < x \/ s > y}
    BY <1>1
  <1> HIDE DEF kept
  <1> QED
    BY <1>2, <1>3

\* Rows that extend the cloud at one end at most extend both clouds alike.
LEMMA MergeKeepsCover ==
    ASSUME NEW c, NEW n, NEW rows,
           NEW a \in Int, NEW b \in Int, NEW x \in Int, NEW y \in Int,
           Covers(c, n, a, b), x <= y, DOMAIN rows = x .. y,
           x <= b + 1, a <= y + 1, x >= a \/ y <= b
    PROVE  /\ MergedInto(c, n, rows) = [cloud |-> Merged(c, rows), notes |-> Grown(c, n, rows)]
           /\ Covers(Merged(c, rows), Grown(c, n, rows),
                     IF x < a THEN x ELSE a, IF y > b THEN y ELSE b)
  <1> DEFINE lo == IF x < a THEN x ELSE a
             hi == IF y > b THEN y ELSE b
             beyond == {s \in DOMAIN c : First(rows) <= s}
             first == FirstAdded(c, n, rows)
             gain == Height(Merged(c, rows)) - Height(c)
  <1>1. a <= b /\ DOMAIN c = a .. b /\ DOMAIN n = a .. b
    BY DEF Covers
  <1>2. /\ First(c) = a /\ Last(c) = b /\ First(n) = a /\ Last(n) = b
        /\ Height(c) = b - a + 1 /\ Height(n) = b - a + 1
    BY CoveredEnds
  <1>3. First(rows) = x /\ DOMAIN rows # {}
    BY IntervalEnds DEF First
  <1>4. DOMAIN Merged(c, rows) = lo .. hi
    BY <1>1, MergedDomain
  <1>5. lo \in Int /\ hi \in Int /\ lo <= hi
    BY <1>1
  <1>6. gain = (hi - lo + 1) - (b - a + 1)
    <2> HIDE DEF lo, hi
    <2>1. Height(Merged(c, rows)) = hi - lo + 1
      BY <1>4, <1>5, FS_Interval DEF Height
    <2> QED
      BY <2>1, <1>2
  <1>7. first = IF x < a THEN x ELSE b + 1
    <2>1. beyond = (IF x < a THEN a ELSE x) .. b
      BY <1>1, <1>3
    <2>2. CASE x < a
      <3>1. beyond = a .. b
        BY <2>1, <2>2
      <3>2. beyond # {} /\ Min(beyond) = a
        <4> HIDE DEF beyond
        <4> QED
          BY <3>1, <1>1, IntervalEnds
      <3> QED
        BY <3>2, <2>2, <1>3 DEF FirstAdded
    <2>3. CASE ~(x < a) /\ x <= b
      <3>1. Min(beyond) = x
        BY <2>1, <2>3, IntervalEnds
      <3> QED
        BY <3>1, <2>3, <1>2, <1>3 DEF FirstAdded
    <2>4. CASE ~(x < a) /\ ~(x <= b)
      <3>1. beyond = {}
        BY <2>1, <2>4
      <3> QED
        BY <3>1, <2>4, <1>2, <1>3 DEF FirstAdded
    <2> QED
      BY <2>2, <2>3, <2>4
  <1>8. DOMAIN Grown(c, n, rows) = (a .. b) \cup (first .. first + gain - 1)
    BY <1>1, <1>3 DEF Grown, Over, Blank
  <1>9. DOMAIN Grown(c, n, rows) = lo .. hi
    <2> HIDE DEF first, gain
    <2> QED
      BY <1>1, <1>6, <1>7, <1>8
  <1>10. MergedInto(c, n, rows) = [cloud |-> Merged(c, rows), notes |-> Grown(c, n, rows)]
    BY <1>2 DEF MergedInto, CanMerge
  <1> QED
    BY <1>4, <1>5, <1>9, <1>10 DEF Covers
\* Flags come and go without a row being added or taken away.
LEMMA FlagsKeepRows ==
    ASSUME NEW n
    PROVE  /\ \A s, flag, on : DOMAIN WithFlag(n, s, flag, on) = DOMAIN n
           /\ \A s, points : DOMAIN WithManual(n, s, points) = DOMAIN n
           /\ \A from, to : DOMAIN Reset(n, from, to) = DOMAIN n
  <1>1. ASSUME NEW s, NEW flag, NEW on PROVE DOMAIN WithFlag(n, s, flag, on) = DOMAIN n
    BY DEF WithFlag
  <1>2. ASSUME NEW s, NEW points PROVE DOMAIN WithManual(n, s, points) = DOMAIN n
    BY DEF WithManual
  <1>3. ASSUME NEW from, NEW to PROVE DOMAIN Reset(n, from, to) = DOMAIN n
    BY DEF Reset
  <1> QED
    BY <1>1, <1>2, <1>3

\* What a segment holds when it is opened reaches from its first to its last slice.
LEMMA AlignedCover ==
    ASSUME NEW f \in Segments, NEW c, NEW n, DOMAIN c = f.reach, DOMAIN n = f.noted
    PROVE  \E a, b \in Slices : Covers(c, Aligned(c, n), a, b)
  <1> DEFINE a == Min(f.reach)
             b == Max(f.reach)
             m == Min(f.noted)
             o == Max(f.noted)
  <1>1. /\ f.noted # {} /\ f.reach # {}
        /\ f.noted \subseteq f.reach /\ f.reach \subseteq Slices
        /\ f.noted = Span(m, o) /\ f.reach = Span(a, b)
    BY FilesAssumption DEF SegmentFiles
  <1>2. Slices \subseteq Nat
    BY SizesAssumption DEF Slices
  <1>3. m \in f.noted /\ o \in f.noted /\ a \in f.reach /\ b \in f.reach
    BY <1>1, <1>2, SlicesHaveMin, SlicesHaveMax
  <1>4. m <= o /\ a <= b
    <2>1. \A t \in f.noted : m <= t
      BY <1>1, <1>2, SlicesHaveMin
    <2>2. \A t \in f.reach : a <= t
      BY <1>1, <1>2, SlicesHaveMin
    <2> HIDE DEF a, b, m, o
    <2> QED
      BY <2>1, <2>2, <1>3
  <1>5. /\ m \in Slices /\ o \in Slices /\ a \in Slices /\ b \in Slices
        /\ f.noted = m .. o /\ f.reach = a .. b
    <2> HIDE DEF a, b, m, o
    <2>1. m \in Slices /\ o \in Slices /\ a \in Slices /\ b \in Slices
      BY <1>1, <1>3
    <2> QED
      BY <2>1, <1>1, <1>4, SpanIsInterval
  <1>6. First(c) = a /\ Last(c) = b /\ First(n) = m /\ Last(n) = o
    BY DEF First, Last
  <1> HIDE DEF a, b, m, o
  <1>7. a \in Int /\ b \in Int /\ m \in Int /\ o \in Int
    BY <1>2, <1>5
  <1>8. a <= m /\ o <= b
    BY <1>1, <1>4, <1>5, <1>7
  <1>9. Height(c) = b - a + 1 /\ Height(n) = o - m + 1
    BY <1>4, <1>5, <1>7, FS_Interval DEF Height
  <1>10. DOMAIN Aligned(c, n) = a .. b
    <2>1. CASE Height(c) = Height(n)
      <3>1. b - a + 1 = o - m + 1
        BY <2>1, <1>9
      <3>2. a = m /\ b = o
        BY <3>1, <1>7, <1>8
      <3> QED
        BY <2>1, <3>2, <1>5 DEF Aligned
    <2>2. CASE Height(c) # Height(n)
      <3>1. DOMAIN Aligned(c, n) =
              (m .. o) \cup (a .. a + (m - a) - 1) \cup (o + 1 .. o + (b - o))
        BY <2>2, <1>5, <1>6, <1>7, <1>8 DEF Aligned, Over, Blank
      <3> QED
        BY <3>1, <1>4, <1>7, <1>8
    <2> QED
      BY <2>1, <2>2
  <1> QED
    BY <1>4, <1>5, <1>10 DEF Covers
-----------------------------------------------------------------------------
(* Runs.                                                                   *)

\* The runs that leave a slice.
RunsFrom(s) == {run \in Runs : run.from = s /\ run.target # s}

\* What is to be computed lies on one side of the slice the run leaves.
LEMMA ReachIsBeside ==
    ASSUME NEW f \in Slices, NEW run \in RunsFrom(f)
    PROVE  /\ run.from = f /\ run.target \in Slices /\ run.target # f
           /\ StartIndex(run) \in Slices
           /\ run.target > f => StartIndex(run) = f + 1 /\ Reach(run) = f + 1 .. run.target
           /\ run.target < f => StartIndex(run) = f - 1 /\ Reach(run) = run.target .. f - 1
  <1>1. run.from = f /\ run.target \in Slices /\ run.target # f
    BY DEF RunsFrom, Runs
  <1> DEFINE t == run.target
  <1> HIDE DEF t
  <1>2. t \in Slices /\ t # f
    BY <1>1 DEF t
  <1>3. StartIndex(run) = (IF t > f THEN f + 1 ELSE f - 1) /\ Reach(run) = Span(StartIndex(run), t)
    BY <1>1 DEF StartIndex, Reach, t
  <1>4. StartIndex(run) \in Slices
    BY <1>2, <1>3, SizesAssumption DEF Slices
  <1>5. Slices \subseteq Int
    BY SizesAssumption DEF Slices
  <1>6. t > f => Reach(run) = f + 1 .. t
    BY <1>2, <1>3, <1>4, <1>5, SpanIsInterval
  <1>7. t < f => Reach(run) = t .. f - 1
    BY <1>2, <1>3, <1>4, <1>5, SpanIsInterval
  <1>8. /\ t > f => StartIndex(run) = f + 1
        /\ t < f => StartIndex(run) = f - 1
    BY <1>2, <1>3, <1>5
  <1> QED
    BY <1>1, <1>4, <1>6, <1>7, <1>8, Zenon DEF t

\* The beginnings of a run.
LEMMA PrefixIsBeside ==
    ASSUME NEW f \in Slices, NEW run \in RunsFrom(f), NEW done \in Prefixes(run)
    PROVE  \E s \in Slices :
              /\ run.target > f => f < s /\ done = f + 1 .. s - 1
              /\ run.target < f => s < f /\ done = s + 1 .. f - 1
  <1> DEFINE t == run.target
             s0 == StartIndex(run)
  <1>0. Slices \subseteq Int
    BY SizesAssumption DEF Slices
  <1>1. /\ t \in Slices /\ s0 \in Slices
        /\ t > f => s0 = f + 1 /\ Reach(run) = f + 1 .. t
        /\ t < f => s0 = f - 1 /\ Reach(run) = t .. f - 1
    BY ReachIsBeside
  <1>2. PICK s \in Reach(run) : done = Span(s0, s) \ {s}
    BY DEF Prefixes
  <1>3. s \in Slices
    BY DEF Reach, Span
  <1> HIDE DEF t, s0
  <1>4. Span(s0, s) = IF s0 <= s THEN s0 .. s ELSE s .. s0
    BY <1>1, <1>3, SpanIsInterval
  <1>5. t > f => f < s /\ done = f + 1 .. s - 1
    BY <1>0, <1>1, <1>2, <1>3, <1>4
  <1>6. t < f => s < f /\ done = s + 1 .. f - 1
    BY <1>0, <1>1, <1>2, <1>3, <1>4
  <1> QED
    BY <1>3, <1>5, <1>6 DEF t

\* An answer is empty or an interval that begins at the slice the run leaves or
\* beside it.
LEMMA AnswerIsBeside ==
    ASSUME NEW f \in Slices, NEW run \in RunsFrom(f), NEW slices,
           slices = Complete(run) \/ slices \in Early(run), slices # {}
    PROVE  \E x, y \in Int :
              /\ x <= y /\ slices = x .. y
              /\ x <= f + 1 /\ f <= y + 1
              /\ x >= f \/ y <= f
  <1> DEFINE t == run.target
  <1>0. f \in Int /\ Slices \subseteq Int
    BY SizesAssumption DEF Slices
  <1>1. /\ run.from = f /\ t \in Int /\ t # f
        /\ t > f => Reach(run) = f + 1 .. t
        /\ t < f => Reach(run) = t .. f - 1
    BY <1>0, ReachIsBeside
  <1>2. \/ slices = {f} \cup Reach(run)
        \/ slices = Reach(run)
        \/ slices = {f}
        \/ \E done \in Prefixes(run) : slices = {f} \cup done \/ slices = done
    BY <1>1 DEF Complete, Early
  <1>3. \A done \in Prefixes(run) : \E s \in Slices :
            /\ t > f => f < s /\ done = f + 1 .. s - 1
            /\ t < f => s < f /\ done = s + 1 .. f - 1
    BY PrefixIsBeside
  <1> HIDE DEF t
  <1>4. CASE t > f
    <2>1. \E s \in Int : s >= f /\ (slices = f + 1 .. s \/ slices = {f} \cup (f + 1 .. s))
      <3>1. CASE slices = {f} \cup Reach(run) \/ slices = Reach(run)
        <4>1. t >= f /\ Reach(run) = f + 1 .. t
          BY <1>0, <1>1, <1>4
        <4> QED
          BY <3>1, <4>1, <1>1
      <3>2. CASE slices = {f}
        <4>1. {f} = {f} \cup (f + 1 .. f)
          BY <1>0
        <4> QED
          BY <3>2, <4>1, <1>0
      <3>3. ASSUME NEW done \in Prefixes(run), slices = {f} \cup done \/ slices = done
            PROVE  \E s \in Int : s >= f /\ (slices = f + 1 .. s \/ slices = {f} \cup (f + 1 .. s))
        <4>1. PICK s \in Slices : f < s /\ done = f + 1 .. s - 1
          BY <1>3, <1>4
        <4>2. s - 1 \in Int /\ s - 1 >= f
          BY <1>0, <4>1
        <4> QED
          BY <3>3, <4>1, <4>2
      <3> QED
        BY <1>2, <3>1, <3>2, <3>3
    <2>2. PICK s \in Int : s >= f /\ (slices = f + 1 .. s \/ slices = {f} \cup (f + 1 .. s))
      BY <2>1
    <2>3. slices = f + 1 .. s \/ slices = f .. s
      BY <1>0, <2>2, IntervalWithEnd
    <2>4. CASE slices = f + 1 .. s
      BY <1>0, <2>2, <2>4
    <2>5. CASE slices = f .. s
      BY <1>0, <2>2, <2>5
    <2> QED
      BY <2>3, <2>4, <2>5
  <1>5. CASE t < f
    <2>1. \E s \in Int : s <= f /\ (slices = s .. f - 1 \/ slices = {f} \cup (s .. f - 1))
      <3>1. CASE slices = {f} \cup Reach(run) \/ slices = Reach(run)
        <4>1. t <= f /\ Reach(run) = t .. f - 1
          BY <1>0, <1>1, <1>5
        <4> QED
          BY <3>1, <4>1, <1>1
      <3>2. CASE slices = {f}
        <4>1. {f} = {f} \cup (f .. f - 1)
          BY <1>0
        <4> QED
          BY <3>2, <4>1, <1>0
      <3>3. ASSUME NEW done \in Prefixes(run), slices = {f} \cup done \/ slices = done
            PROVE  \E s \in Int : s <= f /\ (slices = s .. f - 1 \/ slices = {f} \cup (s .. f - 1))
        <4>1. PICK s \in Slices : s < f /\ done = s + 1 .. f - 1
          BY <1>3, <1>5
        <4>2. s + 1 \in Int /\ s + 1 <= f
          BY <1>0, <4>1
        <4> QED
          BY <3>3, <4>1, <4>2
      <3> QED
        BY <1>2, <3>1, <3>2, <3>3
    <2>2. PICK s \in Int : s <= f /\ (slices = s .. f - 1 \/ slices = {f} \cup (s .. f - 1))
      BY <2>1
    <2>3. slices = s .. f - 1 \/ slices = s .. f
      BY <1>0, <2>2, IntervalWithEnd
    <2>4. CASE slices = s .. f - 1
      BY <1>0, <2>2, <2>4
    <2>5. CASE slices = s .. f
      BY <1>0, <2>2, <2>5
    <2> QED
      BY <2>3, <2>4, <2>5
  <1> QED
    BY <1>0, <1>1, <1>4, <1>5

\* The slices of an answer are slices.
LEMMA AnswerIsInVolume ==
    ASSUME NEW f \in Slices, NEW run \in RunsFrom(f), NEW slices,
           slices = Complete(run) \/ slices \in Early(run)
    PROVE  slices \subseteq Slices
  <1>1. run.from = f
    BY DEF RunsFrom
  <1>2. Reach(run) \subseteq Slices /\ \A done \in Prefixes(run) : done \subseteq Slices
    BY DEF Reach, Prefixes, Span
  <1> QED
    BY <1>1, <1>2 DEF Complete, Early
\* The anchors between which a run is kept: none lies nearer than the one found.
LEMMA NearestHigherIsNearest ==
    ASSUME NEW d, NEW s \in Slices
    PROVE  LET a == NearestHigher(d, s)
           IN  \/ a = NoSlice /\ \A t \in s + 1 .. NumSlices - 1 : "anchor" \notin d[t]
               \/ /\ a \in Slices /\ a > s
                  /\ \A t \in s + 1 .. a - 1 : "anchor" \notin d[t]
  <1> DEFINE found == {t \in s + 1 .. NumSlices - 1 : "anchor" \in d[t]}
             a == NearestHigher(d, s)
  <1>0. s \in Nat /\ NumSlices \in Nat /\ s < NumSlices
    BY SizesAssumption DEF Slices
  <1>1. CASE found = {}
    <2>1. a = NoSlice
      BY <1>1 DEF NearestHigher
    <2> QED
      BY <1>1, <2>1
  <1>2. CASE found # {}
    <2>1. a = Min(found)
      BY <1>2 DEF NearestHigher
    <2>2. found \subseteq s + 1 .. NumSlices - 1 /\ found \subseteq Nat
      BY <1>0
    <2>3. a \in found /\ \A t \in found : a <= t
      <3> HIDE DEF found, a
      <3> QED
        BY <1>2, <2>1, <2>2, SlicesHaveMin
    <2>4. a \in Slices /\ a > s
      <3> HIDE DEF found, a
      <3> QED
        BY <1>0, <2>2, <2>3 DEF Slices
    <2>5. ASSUME NEW t \in s + 1 .. a - 1 PROVE "anchor" \notin d[t]
      <3>1. t \in s + 1 .. NumSlices - 1 /\ ~(a <= t)
        <4> HIDE DEF a
        <4> QED
          BY <1>0, <2>4 DEF Slices
      <3> QED
        BY <2>3, <3>1
    <2> QED
      BY <2>4, <2>5
  <1> QED
    BY <1>1, <1>2

\* The same towards lower slices.
LEMMA NearestLowerIsNearest ==
    ASSUME NEW d, NEW s \in Slices, NEW first \in Slices
    PROVE  LET a == NearestLower(d, first, s)
           IN  \/ a = NoSlice /\ \A t \in first .. s - 1 : "anchor" \notin d[t]
               \/ /\ a \in Slices /\ a < s
                  /\ \A t \in a + 1 .. s - 1 : "anchor" \notin d[t]
  <1> DEFINE found == {t \in first .. s - 1 : "anchor" \in d[t]}
             a == NearestLower(d, first, s)
  <1>0. s \in Nat /\ first \in Nat /\ NumSlices \in Nat /\ s < NumSlices
    BY SizesAssumption DEF Slices
  <1>1. CASE found = {}
    <2>1. a = NoSlice
      BY <1>1 DEF NearestLower
    <2> QED
      BY <1>1, <2>1
  <1>2. CASE found # {}
    <2>1. a = Max(found)
      BY <1>2 DEF NearestLower
    <2>2. found \subseteq first .. s - 1
      OBVIOUS
    <2>3. found \subseteq Slices
      <3> HIDE DEF found
      <3> QED
        BY <1>0, <2>2 DEF Slices
    <2>4. a \in found /\ \A t \in found : a >= t
      <3> HIDE DEF found, a
      <3> QED
        BY <1>2, <2>1, <2>3, SlicesHaveMax
    <2>5. a \in Slices /\ a < s /\ first <= a
      <3> HIDE DEF found, a
      <3> QED
        BY <1>0, <2>2, <2>3, <2>4
    <2>6. ASSUME NEW t \in a + 1 .. s - 1 PROVE "anchor" \notin d[t]
      <3>1. t \in first .. s - 1 /\ ~(a >= t)
        <4> HIDE DEF a
        <4> QED
          BY <1>0, <2>5 DEF Slices
      <3> QED
        BY <2>4, <3>1
    <2> QED
      BY <2>5, <2>6
  <1> QED
    BY <1>1, <1>2

\* The target of a run to higher slices lies in the volume and before the next anchor.
LEMMA TargetForward ==
    ASSUME NEW d, NEW s \in Slices, NEW goal \in Goals(s, TRUE), goal # Nothing
    PROVE  LET t == TargetOf(goal, TRUE, NearestHigher(d, s), s)
           IN  t \in Slices /\ t >= s /\ \A u \in s + 1 .. t : "anchor" \notin d[u]
  <1> DEFINE a == NearestHigher(d, s)
             t == TargetOf(goal, TRUE, a, s)
  <1>0. /\ NumSlices \in Nat /\ Slices = 0 .. NumSlices - 1
        /\ NoSlice = -1 /\ ToAnchor = -2
        /\ goal = ToAnchor \/ (goal \in Slices /\ goal >= s)
    BY SizesAssumption, BoundsAssumption DEF Slices, NoSlice, ToAnchor, Goals, Nothing
  <1>1. \/ a = NoSlice /\ \A u \in s + 1 .. NumSlices - 1 : "anchor" \notin d[u]
        \/ a \in Slices /\ a > s /\ \A u \in s + 1 .. a - 1 : "anchor" \notin d[u]
    BY NearestHigherIsNearest
  <1>2. t = IF goal = ToAnchor THEN IF a = NoSlice THEN s ELSE a - 1
            ELSE IF a # NoSlice /\ goal >= a THEN a - 1 ELSE goal
    <2> HIDE DEF a
    <2> QED
      BY DEF TargetOf
  <1> HIDE DEF a, t
  <1>3. t \in Slices /\ t >= s /\ (a # NoSlice => t <= a - 1)
    BY <1>0, <1>1, <1>2
  <1>4. ASSUME NEW u \in s + 1 .. t PROVE "anchor" \notin d[u]
    <2>1. u \in s + 1 .. NumSlices - 1 /\ (a # NoSlice => u \in s + 1 .. a - 1)
      BY <1>0, <1>1, <1>3
    <2>2. a \in Slices => a # NoSlice
      BY <1>0
    <2> QED
      BY <1>1, <2>1, <2>2
  <1> QED
    BY <1>3, <1>4 DEF a, t

\* The same towards lower slices.
LEMMA TargetBackward ==
    ASSUME NEW d, NEW s \in Slices, NEW first \in Slices,
           NEW goal \in Goals(s, FALSE), goal # Nothing
    PROVE  LET t == TargetOf(goal, FALSE, NearestLower(d, first, s), s)
           IN  /\ t \in Slices /\ t <= s
               /\ \A u \in t .. s - 1 : u >= first => "anchor" \notin d[u]
  <1> DEFINE a == NearestLower(d, first, s)
             t == TargetOf(goal, FALSE, a, s)
  <1>0. /\ NumSlices \in Nat /\ Slices = 0 .. NumSlices - 1
        /\ NoSlice = -1 /\ ToAnchor = -2
        /\ goal = ToAnchor \/ (goal \in Slices /\ goal <= s)
    BY SizesAssumption, BoundsAssumption DEF Slices, NoSlice, ToAnchor, Goals, Nothing
  <1>1. \/ a = NoSlice /\ \A u \in first .. s - 1 : "anchor" \notin d[u]
        \/ a \in Slices /\ a < s /\ \A u \in a + 1 .. s - 1 : "anchor" \notin d[u]
    BY NearestLowerIsNearest
  <1>2. t = IF goal = ToAnchor THEN IF a = NoSlice THEN s ELSE a + 1
            ELSE IF a # NoSlice /\ goal <= a THEN a + 1 ELSE goal
    <2> HIDE DEF a
    <2> QED
      BY DEF TargetOf
  <1> HIDE DEF a, t
  <1>3. t \in Slices /\ t <= s /\ (a # NoSlice => t >= a + 1)
    BY <1>0, <1>1, <1>2
  <1>4. ASSUME NEW u \in t .. s - 1, u >= first PROVE "anchor" \notin d[u]
    <2>1. u \in first .. s - 1 /\ (a # NoSlice => u \in a + 1 .. s - 1)
      BY <1>0, <1>1, <1>3, <1>4
    <2>2. a \in Slices => a # NoSlice
      BY <1>0
    <2> QED
      BY <1>1, <2>1, <2>2
  <1> QED
    BY <1>3, <1>4 DEF a, t
-----------------------------------------------------------------------------
(* Marks.                                                                  *)

\* Rows that a merge adds have no marks.
LEMMA GrownMarks ==
    ASSUME NEW c, NEW n, NEW rows, NEW t
    PROVE  Marks(Grown(c, n, rows), t) = Marks(n, t)
  <1> DEFINE first == FirstAdded(c, n, rows)
             gain  == Height(Merged(c, rows)) - Height(c)
             more  == Blank(first, first + gain - 1)
  <1>1. CASE DOMAIN rows = {}
    BY <1>1 DEF Grown
  <1>2. CASE DOMAIN rows # {}
    <2>1. Grown(c, n, rows) = Over(n, more)
      BY <1>2 DEF Grown
    <2>2. \A s \in DOMAIN more : \A p \in Points : more[s][p] = {}
      BY DEF Blank
    <2> HIDE DEF more
    <2>3. CASE t \in DOMAIN n
      <3>1. t \in DOMAIN Over(n, more) /\ Over(n, more)[t] = n[t]
        BY <2>3 DEF Over
      <3> QED
        BY <2>1, <2>3, <3>1 DEF Marks
    <2>4. CASE t \in DOMAIN more \ DOMAIN n
      <3>1. t \in DOMAIN Over(n, more) /\ Over(n, more)[t] = more[t]
        BY <2>4 DEF Over
      <3>2. \A p \in Points : Over(n, more)[t][p] = {}
        BY <2>2, <2>4, <3>1
      <3>3. UNION {Over(n, more)[t][p] : p \in Points} = {}
        BY <3>2
      <3> QED
        BY <2>1, <2>4, <3>1, <3>3 DEF Marks
    <2>5. CASE t \notin DOMAIN more \cup DOMAIN n
      BY <2>1, <2>5 DEF Marks, Over
    <2> QED
      BY <2>3, <2>4, <2>5
  <1> QED
    BY <1>1, <1>2

\* A merge changes no marks, whether it is refused or not.
LEMMA MergedMarks ==
    ASSUME NEW c, NEW n, NEW rows, NEW t
    PROVE  Marks(MergedInto(c, n, rows).notes, t) = Marks(n, t)
  BY GrownMarks DEF MergedInto

\* A flag set on a row is among its marks, and no other row's marks change.
LEMMA FlagMarks ==
    ASSUME NEW n, NEW s, NEW flag, NEW on \in BOOLEAN, NEW t
    PROVE  Marks(WithFlag(n, s, flag, on), t) =
             IF t # s \/ s \notin DOMAIN n THEN Marks(n, t)
             ELSE IF on THEN Marks(n, t) \cup {flag} ELSE Marks(n, t) \ {flag}
  <1> DEFINE w == WithFlag(n, s, flag, on)
  <1>1. CASE s \notin DOMAIN n
    BY <1>1 DEF WithFlag
  <1>2. CASE s \in DOMAIN n
    <2>1. 1 \in Points
      BY SizesAssumption DEF Points
    <2>2. /\ DOMAIN w = DOMAIN n
          /\ \A u \in DOMAIN n : u # s => w[u] = n[u]
          /\ \A p \in Points :
                w[s][p] = IF on THEN n[s][p] \cup {flag} ELSE n[s][p] \ {flag}
      BY <1>2 DEF WithFlag
    <2> HIDE DEF w
    <2>3. ASSUME t # s PROVE Marks(w, t) = Marks(n, t)
      BY <2>2, <2>3 DEF Marks
    <2>4. /\ Marks(w, s) = UNION {w[s][p] : p \in Points}
          /\ Marks(n, s) = UNION {n[s][p] : p \in Points}
      BY <1>2, <2>2 DEF Marks
    <2>5. ASSUME on PROVE Marks(w, s) = Marks(n, s) \cup {flag}
      BY <2>1, <2>2, <2>4, <2>5
    <2>6. ASSUME ~on PROVE Marks(w, s) = Marks(n, s) \ {flag}
      BY <2>2, <2>4, <2>6
    <2>7. CASE t # s
      BY <2>3, <2>7 DEF w
    <2>8. CASE t = s
      BY <1>2, <2>5, <2>6, <2>8 DEF w
    <2> QED
      BY <2>7, <2>8
  <1> QED
    BY <1>1, <1>2

\* A row with a flag set.
Flagged(n, s, flag) == WithFlag(n, s, flag, TRUE)

\* The case of a flag that is set.
LEMMA SetMarks ==
    ASSUME NEW n, NEW s, NEW flag, NEW t
    PROVE  /\ (t = s /\ s \in DOMAIN n) => Marks(Flagged(n, s, flag), t) = Marks(n, t) \cup {flag}
           /\ (t # s \/ s \notin DOMAIN n) => Marks(Flagged(n, s, flag), t) = Marks(n, t)
           /\ DOMAIN Flagged(n, s, flag) = DOMAIN n
  <1> DEFINE w == Flagged(n, s, flag)
  <1>1. CASE s \notin DOMAIN n
    BY <1>1 DEF Flagged, WithFlag
  <1>2. CASE s \in DOMAIN n
    <2>1. 1 \in Points
      BY SizesAssumption DEF Points
    <2>2. /\ DOMAIN w = DOMAIN n
          /\ \A u \in DOMAIN n : u # s => w[u] = n[u]
          /\ \A p \in Points : w[s][p] = n[s][p] \cup {flag}
      BY <1>2 DEF Flagged, WithFlag
    <2> HIDE DEF w
    <2>3. ASSUME t # s PROVE Marks(w, t) = Marks(n, t)
      BY <2>2, <2>3 DEF Marks
    <2>4. /\ Marks(w, s) = UNION {w[s][p] : p \in Points}
          /\ Marks(n, s) = UNION {n[s][p] : p \in Points}
      BY <1>2, <2>2 DEF Marks
    <2>5. Marks(w, s) = Marks(n, s) \cup {flag}
      BY <2>1, <2>2, <2>4
    <2> QED
      BY <1>2, <2>2, <2>3, <2>5 DEF w
  <1> QED
    BY <1>1, <1>2

\* Marking points as moved by hand changes nothing about anchors.
LEMMA ManualMarks ==
    ASSUME NEW n, NEW s, NEW points, NEW t
    PROVE  "anchor" \in Marks(WithManual(n, s, points), t) <=> "anchor" \in Marks(n, t)
  <1> DEFINE w == WithManual(n, s, points)
  <1>1. CASE s \notin DOMAIN n
    BY <1>1 DEF WithManual
  <1>2. CASE s \in DOMAIN n
    <2>1. /\ DOMAIN w = DOMAIN n
          /\ \A u \in DOMAIN n : u # s => w[u] = n[u]
          /\ \A p \in Points :
                w[s][p] = IF p \in points THEN n[s][p] \cup {"manual"} ELSE n[s][p]
      BY <1>2 DEF WithManual
    <2> HIDE DEF w
    <2>2. \A p \in Points : "anchor" \in w[s][p] <=> "anchor" \in n[s][p]
      <3> SUFFICES ASSUME NEW p \in Points
                   PROVE  "anchor" \in w[s][p] <=> "anchor" \in n[s][p]
        OBVIOUS
      <3>1. CASE p \in points
        <4>1. w[s][p] = n[s][p] \cup {"manual"}
          BY <2>1, <3>1
        <4>2. "anchor" \in n[s][p] \cup {"manual"} <=> "anchor" \in n[s][p]
          OBVIOUS
        <4> QED
          BY <4>1, <4>2
      <3>2. CASE p \notin points
        BY <2>1, <3>2
      <3> QED
        BY <3>1, <3>2
    <2>3. CASE t \notin DOMAIN n
      BY <2>1, <2>3 DEF Marks, w
    <2>4. CASE t \in DOMAIN n
      <3>1. \A p \in Points : "anchor" \in w[t][p] <=> "anchor" \in n[t][p]
        BY <2>1, <2>2, <2>4
      <3>2. /\ Marks(w, t) = UNION {w[t][p] : p \in Points}
            /\ Marks(n, t) = UNION {n[t][p] : p \in Points}
        BY <2>1, <2>4 DEF Marks
      <3>3. "anchor" \in Marks(w, t) <=> "anchor" \in Marks(n, t)
        BY <3>1, <3>2
      <3> QED
        BY <3>3 DEF w
    <2> QED
      BY <2>3, <2>4
  <1> QED
    BY <1>1, <1>2

\* A reset takes marks away, within its slices only.
LEMMA ResetMarks ==
    ASSUME NEW n, NEW from, NEW to, NEW t
    PROVE  /\ Marks(Reset(n, from, to), t) \subseteq Marks(n, t)
           /\ t \notin Span(from, to) => Marks(Reset(n, from, to), t) = Marks(n, t)
  <1> DEFINE w == Reset(n, from, to)
  <1>1. CASE from \notin DOMAIN n
    BY <1>1 DEF Reset
  <1>2. CASE from \in DOMAIN n
    <2>1. /\ DOMAIN w = DOMAIN n
          /\ \A u \in DOMAIN n : \A p \in Points :
                w[u][p] = IF <<u, p>> \in ResetPoints(from, to) THEN n[u][p] \ Flags ELSE n[u][p]
      BY <1>2 DEF Reset
    <2>2. ASSUME NEW p \in Points, <<t, p>> \in ResetPoints(from, to) PROVE t \in Span(from, to)
      BY <2>2 DEF ResetPoints
    <2> HIDE DEF w
    <2>3. CASE t \notin DOMAIN n
      <3>1. Marks(w, t) = Marks(n, t)
        BY <2>1, <2>3 DEF Marks
      <3> QED
        BY <3>1 DEF w
    <2>4. CASE t \in DOMAIN n
      <3>1. /\ Marks(w, t) = UNION {w[t][p] : p \in Points}
            /\ Marks(n, t) = UNION {n[t][p] : p \in Points}
        BY <2>1, <2>4 DEF Marks
      <3>2. \A p \in Points : w[t][p] \subseteq n[t][p]
        BY <2>1, <2>4
      <3>3. Marks(w, t) \subseteq Marks(n, t)
        BY <3>1, <3>2
      <3>4. ASSUME t \notin Span(from, to) PROVE Marks(w, t) = Marks(n, t)
        <4>1. \A p \in Points : w[t][p] = n[t][p]
          BY <2>1, <2>2, <2>4, <3>4
        <4>2. {w[t][p] : p \in Points} = {n[t][p] : p \in Points}
          BY <4>1
        <4> QED
          BY <3>1, <4>2
      <3> QED
        BY <3>3, <3>4 DEF w
    <2> QED
      BY <2>3, <2>4
  <1> QED
    BY <1>1, <1>2

\* Setting or clearing a flag in the annotation cloud and in its decoded copy
\* come to the same.
LEMMA DecodeAfterFlag ==
    ASSUME NEW n, NEW s \in Slices, NEW flag, NEW on \in BOOLEAN
    PROVE  Decode(WithFlag(n, s, flag, on)) = DecodedFlag(Decode(n), n, s, flag, on)
  <1> DEFINE w == WithFlag(n, s, flag, on)
  <1>1. CASE s \notin DOMAIN n
    BY <1>1 DEF WithFlag, DecodedFlag
  <1>2. CASE s \in DOMAIN n
    <2>1. DecodedFlag(Decode(n), n, s, flag, on) =
            [t \in Slices |-> IF t # s THEN Marks(n, t)
                              ELSE IF on THEN Marks(n, t) \cup {flag} ELSE Marks(n, t) \ {flag}]
      BY <1>2 DEF DecodedFlag, Decode
    <2>2. \A t \in Slices :
            Marks(w, t) = IF t # s THEN Marks(n, t)
                          ELSE IF on THEN Marks(n, t) \cup {flag} ELSE Marks(n, t) \ {flag}
      BY <1>2, FlagMarks
    <2>3. Decode(w) = [t \in Slices |-> Marks(w, t)]
      BY DEF Decode
    <2> QED
      BY <2>1, <2>2, <2>3
  <1> QED
    BY <1>1, <1>2

-----------------------------------------------------------------------------
(* The invariant.                                                          *)

\* Both clouds reach from the same first to the same last slice.
CoverInv == \E a, b \in Slices : Covers(cloud, notes, a, b)

\* Runs from a slice with an anchor that meet no other.
KeptRuns(f, n) ==
    {run \in RunsFrom(f) : /\ "anchor" \in Marks(n, f)
                           /\ \A s \in Reach(run) : "anchor" \notin Marks(n, s)}

RunInv ==
    /\ edits # NoEdits => (mode = "tool" /\ ready)
    /\ (mode = "tool" /\ ready) => toolStart \in DOMAIN cloud
    /\ mode = "running" =>
          /\ toolStart \in DOMAIN cloud
          /\ working \in KeptRuns(toolStart, notes)
          /\ queue \in Seq(KeptRuns(toolStart, notes))

SegmentInv == CoverInv /\ RunInv /\ DecodedIsCurrent

\* Slices are numbered from zero.
LEMMA SlicesAreInts == Slices \subseteq Int /\ \A s \in Slices : s >= 0 /\ s < NumSlices
  BY SizesAssumption DEF Slices

\* Merging the changed curve of the starting slice adds no row.
LEMMA EditsKeepCover ==
    ASSUME NEW c, NEW n, NEW a \in Slices, NEW b \in Slices,
           Covers(c, n, a, b), toolStart \in a .. b
    PROVE  Covers(MergeEdits(c, n).cloud, MergeEdits(c, n).notes, a, b)
  <1> DEFINE rows == [s \in {toolStart} |-> IF edits.points = {} THEN c[s] ELSE ByHand]
             x == toolStart
  <1>0. a \in Int /\ b \in Int /\ x \in Int /\ a <= x /\ x <= b
    BY SlicesAreInts
  <1>1. CASE ~edits.changed
    BY <1>1 DEF MergeEdits
  <1>2. CASE edits.changed
    <2>1. DOMAIN rows = x .. x
      BY <1>0
    <2>2. MergeEdits(c, n) = MergedInto(c, n, rows)
      BY <1>2 DEF MergeEdits
    <2>6. x <= b + 1 /\ a <= x + 1 /\ (x >= a \/ x <= b) /\ x <= x
      BY <1>0
    <2> HIDE DEF rows, x
    <2>3. /\ MergedInto(c, n, rows) = [cloud |-> Merged(c, rows), notes |-> Grown(c, n, rows)]
          /\ Covers(Merged(c, rows), Grown(c, n, rows),
                    IF x < a THEN x ELSE a, IF x > b THEN x ELSE b)
      BY <1>0, <2>1, <2>6, MergeKeepsCover
    <2>4. ~(x < a) /\ ~(x > b)
      BY <1>0
    <2>5. Covers(Merged(c, rows), Grown(c, n, rows), a, b)
      BY <2>3, <2>4
    <2> QED
      BY <2>2, <2>3, <2>5
  <1> QED
    BY <1>1, <1>2

\* Merging the changed curve changes no marks.
LEMMA EditsMarks ==
    ASSUME NEW c, NEW n, NEW t
    PROVE  Marks(MergeEdits(c, n).notes, t) = Marks(n, t)
  BY MergedMarks DEF MergeEdits

\* Merging an answer extends both clouds alike and leaves them with its slices.
LEMMA AnswerKeepsCover ==
    ASSUME NEW a \in Slices, NEW b \in Slices, NEW f \in a .. b,
           Covers(cloud, notes, a, b), working \in RunsFrom(f),
           NEW slices, slices = Complete(working) \/ slices \in Early(working)
    PROVE  LET merged == MergedInto(cloud, notes, RowsOf(slices))
           IN  \E lo, hi \in Slices :
                  /\ Covers(merged.cloud, merged.notes, lo, hi)
                  /\ lo <= a /\ b <= hi /\ slices \subseteq lo .. hi
  <1> DEFINE rows == RowsOf(slices)
             merged == MergedInto(cloud, notes, rows)
  <1>0. /\ a \in Int /\ b \in Int /\ f \in Int /\ a <= f /\ f <= b
        /\ a <= b /\ f \in Slices
    BY SizesAssumption DEF Slices
  <1>1. DOMAIN rows = slices
    BY DEF RowsOf
  <1>2. CASE slices = {}
    <2>1. Merged(cloud, rows) = cloud /\ Grown(cloud, notes, rows) = notes
      BY <1>1, <1>2 DEF Merged, Grown
    <2>2. merged.cloud = cloud /\ merged.notes = notes
      BY <2>1 DEF MergedInto
    <2> HIDE DEF rows
    <2>3. a <= a /\ b <= b /\ slices \subseteq a .. b
      BY <1>0, <1>2
    <2> QED
      BY <2>2, <2>3 DEF rows
  <1>3. CASE slices # {}
    <2>1. PICK x, y \in Int : /\ x <= y /\ slices = x .. y
                              /\ x <= f + 1 /\ f <= y + 1
                              /\ x >= f \/ y <= f
      BY <1>0, <1>3, AnswerIsBeside
    <2>2. slices \subseteq Slices
      BY <1>0, AnswerIsInVolume
    <2>3. x \in Slices /\ y \in Slices
      BY <2>1, <2>2
    <2> DEFINE lo == IF x < a THEN x ELSE a
               hi == IF y > b THEN y ELSE b
    <2>4. x <= b + 1 /\ a <= y + 1 /\ (x >= a \/ y <= b)
      BY <1>0, <2>1
    <2>5. DOMAIN rows = x .. y
      BY <1>1, <2>1
    <2>6. /\ merged = [cloud |-> Merged(cloud, rows), notes |-> Grown(cloud, notes, rows)]
          /\ Covers(Merged(cloud, rows), Grown(cloud, notes, rows), lo, hi)
      <3> HIDE DEF rows
      <3> QED
        BY <1>0, <2>1, <2>4, <2>5, MergeKeepsCover
    <2>7. lo \in Slices /\ hi \in Slices /\ lo <= a /\ b <= hi /\ x .. y \subseteq lo .. hi
      BY <1>0, <2>1, <2>3
    <2> HIDE DEF lo, hi, rows
    <2>8. Covers(merged.cloud, merged.notes, lo, hi)
      BY <2>6
    <2> QED
      BY <2>1, <2>7, <2>8 DEF rows
  <1> QED
    BY <1>2, <1>3

\* The runs prepared in one direction leave the starting slice and end before the next
\* anchor.
LEMMA PreparedAreKept ==
    ASSUME NEW goal, NEW forward \in BOOLEAN, NEW algo \in {"OFS", "LRPS"},
           NEW smooth \in BOOLEAN, NEW now, NEW n, NEW a \in Slices, NEW b \in Slices,
           toolStart \in Slices, goal \in Goals(toolStart, forward),
           Covers(now.cloud, n, a, b),
           "anchor" \in Marks(n, toolStart),
           \A t \in Slices : t # toolStart =>
              ("anchor" \in now.decoded[t] <=> "anchor" \in Marks(n, t))
    PROVE  Prepared(goal, forward, algo, smooth, now) \in Seq(KeptRuns(toolStart, n))
  <1> DEFINE anchor == IF forward THEN NearestHigher(now.decoded, toolStart)
                       ELSE NearestLower(now.decoded, First(now.cloud), toolStart)
             target == TargetOf(goal, forward, anchor, toolStart)
             base == [algo |-> algo, from |-> toolStart, target |-> target, blends |-> FALSE]
             blends == /\ algo = "OFS" /\ smooth /\ goal = ToAnchor
                       /\ Cardinality(Reach(base)) - 1 > 1 /\ anchor \in DOMAIN now.cloud
             run == [base EXCEPT !.blends = blends]
  <1>1. CASE goal = Nothing \/ target = toolStart
    <2>1. Prepared(goal, forward, algo, smooth, now) = <<>>
      BY <1>1 DEF Prepared
    <2> QED
      BY <2>1
  <1>2. CASE goal # Nothing /\ target # toolStart
    <2>1. Prepared(goal, forward, algo, smooth, now) = <<run>>
      BY <1>2 DEF Prepared
    <2>2. blends \in BOOLEAN
      OBVIOUS
    <2>3. run = [algo |-> algo, from |-> toolStart, target |-> target, blends |-> blends]
      <3> HIDE DEF blends, target
      <3> QED
        OBVIOUS
    <2>4. First(now.cloud) = a
      BY SlicesAreInts, CoveredEnds
    <2>5. /\ target \in Slices
          /\ forward => (target >= toolStart
                         /\ \A u \in toolStart + 1 .. target : "anchor" \notin now.decoded[u])
          /\ ~forward => (target <= toolStart
                          /\ \A u \in target .. toolStart - 1 :
                                u >= a => "anchor" \notin now.decoded[u])
      <3>1. CASE forward
        <4>1. anchor = NearestHigher(now.decoded, toolStart) /\ forward = TRUE
          BY <3>1
        <4> HIDE DEF anchor
        <4> QED
          BY <1>2, <3>1, <4>1, TargetForward
      <3>2. CASE ~forward
        <4>1. anchor = NearestLower(now.decoded, a, toolStart) /\ forward = FALSE
          BY <3>2, <2>4
        <4> HIDE DEF anchor
        <4> QED
          BY <1>2, <3>2, <4>1, TargetBackward
      <3> QED
        BY <3>1, <3>2
    <2> HIDE DEF anchor, target, base, blends, run
    <2>6. run \in RunsFrom(toolStart) /\ run.target = target
      BY <1>2, <2>2, <2>3, <2>5 DEF RunsFrom, Runs
    <2>7. ASSUME NEW s \in Reach(run) PROVE "anchor" \notin Marks(n, s)
      <3>0. s \in Slices
        BY DEF Reach, Span
      <3>1. toolStart \in Int /\ target \in Int /\ s \in Int /\ a \in Int /\ b \in Int
        BY <2>5, <3>0, SlicesAreInts
      <3>2. /\ target > toolStart => Reach(run) = toolStart + 1 .. target
            /\ target < toolStart => Reach(run) = target .. toolStart - 1
        BY <2>6, ReachIsBeside
      <3>3. s # toolStart
        BY <1>2, <3>1, <3>2
      <3>4. CASE "anchor" \notin now.decoded[s]
        BY <3>0, <3>3, <3>4
      <3>5. CASE ~forward /\ ~(s >= a)
        <4>1. s \notin DOMAIN n
          BY <3>1, <3>5 DEF Covers
        <4> QED
          BY <4>1 DEF Marks
      <3>6. forward => s \in toolStart + 1 .. target
        BY <1>2, <2>5, <3>1, <3>2
      <3>7. ~forward => s \in target .. toolStart - 1
        BY <1>2, <2>5, <3>1, <3>2
      <3> QED
        BY <2>5, <3>4, <3>5, <3>6, <3>7
    <2>8. run \in KeptRuns(toolStart, n)
      BY <2>6, <2>7 DEF KeptRuns
    <2> QED
      BY <2>1, <2>8
  <1> QED
    BY <1>1, <1>2

-----------------------------------------------------------------------------
(* Steps.                                                                  *)

\* The next run comes from the queue, or the tool is put away.
LEMMA ExecuteNextKeeps ==
    ASSUME NEW G, NEW waiting \in Seq(G), NEW shown, ExecuteNext(waiting, shown)
    PROVE  /\ edits' = NoEdits
           /\ mode' \in {"running", "idle"}
           /\ mode' = "running" => waiting # <<>> /\ working' \in G /\ queue' \in Seq(G)
           /\ DecodedIsCurrent'
  <1>1. CASE waiting = <<>>
    BY <1>1 DEF ExecuteNext, CleanupSegmentation, DecodedIsCurrent
  <1>2. CASE waiting # <<>>
    <2>1. /\ working' = Head(waiting) /\ queue' = Tail(waiting)
          /\ mode' = "running" /\ edits' = NoEdits
      BY <1>2 DEF ExecuteNext
    <2>2. Head(waiting) \in G /\ Tail(waiting) \in Seq(G)
      BY <1>2
    <2> QED
      BY <1>2, <2>1, <2>2 DEF DecodedIsCurrent
  <1> QED
    BY <1>1, <1>2

\* Sequences over a set are sequences over a larger one.
LEMMA SeqMonotonic ==
    ASSUME NEW G, NEW H, G \subseteq H, NEW q \in Seq(G)
    PROVE  q \in Seq(H)
  OBVIOUS

\* The segment is opened in the invariant.
LEMMA InitSegmentInv == Init => SegmentInv
  <1> SUFFICES ASSUME Init PROVE SegmentInv
    OBVIOUS
  <1>1. PICK f \in Segments :
          /\ cloud = [s \in f.reach |-> IF s \in f.drawn THEN ByHand ELSE FromFile]
          /\ LET saved == [s \in f.noted |-> [p \in Points |->
                             IF s \in f.drawn THEN {"anchor", "manual"} ELSE {}]]
             IN  notes = Aligned(cloud, saved)
    BY DEF Init
  <1>2. CoverInv
    BY <1>1, AlignedCover DEF CoverInv
  <1>3. RunInv
    BY DEF Init, RunInv
  <1>4. DecodedIsCurrent
    BY DEF Init, DecodedIsCurrent
  <1> QED
    BY <1>2, <1>3, <1>4 DEF SegmentInv

\* Setting or clearing an anchor keeps the invariant.
LEMMA ToggleAnchorKeeps ==
    ASSUME SegmentInv, NEW s \in Slices, ToggleAnchor(s)
    PROVE  SegmentInv'
  <1> DEFINE on == "anchor" \notin decoded[s]
  <1>1. /\ mode = "tool" /\ mode' = mode /\ cloud' = cloud
        /\ UNCHANGED tool
        /\ notes' = WithFlag(notes, s, "anchor", on)
        /\ decoded' = DecodedFlag(decoded, notes, s, "anchor", on)
    BY DEF ToggleAnchor
  <1>2. on \in BOOLEAN /\ decoded = Decode(notes)
    BY <1>1 DEF SegmentInv, DecodedIsCurrent
  <1> HIDE DEF on
  <1>3. DecodedIsCurrent'
    <2>1. decoded' = Decode(notes')
      BY <1>1, <1>2, DecodeAfterFlag
    <2> QED
      BY <2>1 DEF DecodedIsCurrent
  <1>4. CoverInv'
    <2>1. DOMAIN notes' = DOMAIN notes
      BY <1>1, FlagsKeepRows
    <2> QED
      BY <1>1, <2>1 DEF SegmentInv, CoverInv, Covers
  <1>5. RunInv'
    BY <1>1 DEF SegmentInv, RunInv, tool
  <1> QED
    BY <1>3, <1>4, <1>5 DEF SegmentInv

\* Leaving the tool with the changed curve keeps the invariant.
LEMMA LeaveKeepingKeeps ==
    ASSUME SegmentInv, LeaveKeeping
    PROVE  SegmentInv'
  <1> DEFINE anchored == Flagged(notes, toolStart, "anchor")
             marked   == WithManual(anchored, toolStart, edits.points)
             unused   == WithFlag(marked, toolStart, "used", FALSE)
  <1>1. /\ toolStart \in DOMAIN cloud
        /\ cloud' = MergeEdits(cloud, unused).cloud
        /\ notes' = MergeEdits(cloud, unused).notes
    BY DEF LeaveKeeping, SegmentInv, RunInv, Flagged
  <1>2. PICK a, b \in Slices : Covers(cloud, notes, a, b)
    BY DEF SegmentInv, CoverInv
  <1>3. DOMAIN unused = DOMAIN notes
    <2>1. DOMAIN anchored = DOMAIN notes
      BY SetMarks
    <2> HIDE DEF anchored
    <2>2. DOMAIN marked = DOMAIN anchored
      BY FlagsKeepRows
    <2> HIDE DEF marked
    <2>3. DOMAIN unused = DOMAIN marked
      BY DEF WithFlag
    <2> QED
      BY <2>1, <2>2, <2>3
  <1> HIDE DEF unused
  <1>4. Covers(cloud, unused, a, b) /\ toolStart \in a .. b
    BY <1>1, <1>2, <1>3 DEF Covers
  <1>5. Covers(cloud', notes', a, b)
    BY <1>1, <1>4, EditsKeepCover
  <1>6. mode' = "idle" /\ edits' = NoEdits /\ decoded' = Decode(notes')
    BY DEF LeaveKeeping, LeaveTool, CleanupSegmentation
  <1> QED
    BY <1>5, <1>6 DEF SegmentInv, CoverInv, RunInv, DecodedIsCurrent

\* The start of runs, when the segment takes part.
LEMMA DoSegmentationKeeps ==
    ASSUME SegmentInv,
           NEW computed \in BOOLEAN, NEW algo \in {"OFS", "LRPS"}, NEW smooth \in BOOLEAN,
           NEW back \in Goals(toolStart, FALSE), NEW forth \in Goals(toolStart, TRUE),
           DoSegmentation(computed, algo, back, forth, smooth)
    PROVE  SegmentInv'
  <1>0. toolStart' = toolStart /\ ready' = ready /\ mode = "tool"
    BY DEF DoSegmentation
  <1>1. CASE ~(computed /\ ready)
    <2>1. cloud' = cloud /\ notes' = notes /\ ExecuteNext(<<>>, decoded)
      BY <1>1 DEF DoSegmentation
    <2>2. edits' = NoEdits /\ mode' = "idle" /\ DecodedIsCurrent'
      BY <2>1 DEF ExecuteNext, CleanupSegmentation, DecodedIsCurrent
    <2> QED
      BY <2>1, <2>2 DEF SegmentInv, CoverInv, RunInv
  <1>2. CASE computed /\ ready
    <2> DEFINE merged   == MergeEdits(cloud, notes)
               anchored == Flagged(merged.notes, toolStart, "anchor")
               flagged  == DecodedFlag(decoded, notes, toolStart, "anchor", TRUE)
               shown    == IF edits.points = {} THEN flagged
                           ELSE DecodedFlag(flagged, notes, toolStart, "manual", TRUE)
               now      == [cloud |-> merged.cloud, decoded |-> shown]
               G        == KeptRuns(toolStart, notes')
               runsBack == Prepared(back, FALSE, algo, smooth, now)
               runsFore == Prepared(forth, TRUE, algo, smooth, now)
    <2>1. /\ cloud' = merged.cloud
          /\ notes' = WithManual(anchored, toolStart, edits.points)
          /\ ExecuteNext(runsBack \o runsFore, shown)
      BY <1>2 DEF DoSegmentation, Flagged
    <2>2. PICK a, b \in Slices : Covers(cloud, notes, a, b)
      BY DEF SegmentInv, CoverInv
    <2>3. toolStart \in a .. b /\ toolStart \in Slices
      <3>1. toolStart \in a .. b
        BY <1>0, <1>2, <2>2 DEF SegmentInv, RunInv, Covers
      <3> QED
        BY <3>1, SizesAssumption DEF Slices
    <2>4. Covers(cloud', merged.notes, a, b)
      BY <2>1, <2>2, <2>3, EditsKeepCover
    <2>5. DOMAIN notes' = DOMAIN merged.notes
      <3>1. DOMAIN anchored = DOMAIN merged.notes
        <4> HIDE DEF merged
        <4> QED
          BY SetMarks
      <3> HIDE DEF merged, anchored
      <3> QED
        BY <2>1, <3>1, FlagsKeepRows
    <2>6. Covers(cloud', notes', a, b)
      BY <2>4, <2>5 DEF Covers
    <2>7. "anchor" \in Marks(notes', toolStart)
      <3>1. toolStart \in DOMAIN merged.notes
        BY <2>3, <2>4 DEF Covers
      <3>2. "anchor" \in Marks(anchored, toolStart)
        <4> HIDE DEF merged
        <4> QED
          BY <3>1, SetMarks
      <3> HIDE DEF anchored
      <3> QED
        BY <2>1, <3>2, ManualMarks
    <2>8. \A t \in Slices : t # toolStart =>
            ("anchor" \in now.decoded[t] <=> "anchor" \in Marks(notes', t))
      <3> SUFFICES ASSUME NEW t \in Slices, t # toolStart
                   PROVE  "anchor" \in shown[t] <=> "anchor" \in Marks(notes', t)
        OBVIOUS
      <3>1. decoded = [u \in Slices |-> Marks(notes, u)]
        BY <1>0 DEF SegmentInv, DecodedIsCurrent, Decode
      <3>2. flagged[t] = decoded[t] /\ shown[t] = flagged[t]
        BY <3>1 DEF DecodedFlag
      <3>3. shown[t] = Marks(notes, t)
        BY <3>1, <3>2
      <3>4. Marks(merged.notes, t) = Marks(notes, t)
        BY EditsMarks
      <3>5. Marks(anchored, t) = Marks(merged.notes, t)
        <4> HIDE DEF merged
        <4> QED
          BY SetMarks
      <3> HIDE DEF anchored, shown, merged
      <3>6. "anchor" \in Marks(notes', t) <=> "anchor" \in Marks(anchored, t)
        BY <2>1, ManualMarks
      <3> QED
        BY <3>3, <3>4, <3>5, <3>6
    <2>9. now.cloud = cloud'
      BY <2>1
    <2> HIDE DEF now, G, runsBack, runsFore
    <2>10. runsBack \in Seq(G)
      BY <2>3, <2>6, <2>7, <2>8, <2>9, PreparedAreKept DEF runsBack, G
    <2>11. runsFore \in Seq(G)
      BY <2>3, <2>6, <2>7, <2>8, <2>9, PreparedAreKept DEF runsFore, G
    <2>12. runsBack \o runsFore \in Seq(G)
      BY <2>10, <2>11
    <2> HIDE DEF shown
    <2>13. /\ edits' = NoEdits
           /\ mode' \in {"running", "idle"}
           /\ mode' = "running" => working' \in G /\ queue' \in Seq(G)
           /\ DecodedIsCurrent'
      BY <2>1, <2>12, ExecuteNextKeeps
    <2>14. toolStart' \in DOMAIN cloud'
      BY <1>0, <2>3, <2>6 DEF Covers
    <2>15. RunInv'
      BY <1>0, <2>13, <2>14 DEF RunInv, G
    <2> QED
      BY <2>6, <2>13, <2>15 DEF SegmentInv, CoverInv
  <1> QED
    BY <1>1, <1>2

\* What an answer does to the anchors: it takes none away outside the slices of its
\* run, and adds none.
LEMMA AnswerKeepsAnchors ==
    ASSUME NEW slices, NEW how, OnSegmentationFinished(slices, how), NEW t
    PROVE  /\ "anchor" \in Marks(notes', t) => "anchor" \in Marks(notes, t)
           /\ t \notin Reach(working) =>
                ("anchor" \in Marks(notes, t) => "anchor" \in Marks(notes', t))
  <1> DEFINE merged == MergedInto(cloud, notes, RowsOf(slices))
             used   == Flagged(merged.notes, UsedSlice(working), "used")
             first  == StartIndex(working)
  <1>1. notes' = IF first # working.target THEN Reset(used, first, working.target) ELSE used
    BY DEF OnSegmentationFinished, Flagged
  <1>2. Marks(merged.notes, t) = Marks(notes, t)
    BY MergedMarks
  <1>3. "anchor" \in Marks(used, t) <=> "anchor" \in Marks(merged.notes, t)
    <2> HIDE DEF merged
    <2>1. \/ Marks(used, t) = Marks(merged.notes, t)
          \/ Marks(used, t) = Marks(merged.notes, t) \cup {"used"}
      BY SetMarks
    <2> QED
      BY <2>1
  <1>4. Reach(working) = Span(first, working.target)
    BY DEF Reach
  <1> HIDE DEF merged, used, first
  <1>5. CASE first # working.target
    <2>1. notes' = Reset(used, first, working.target)
      BY <1>1, <1>5
    <2>2. /\ Marks(notes', t) \subseteq Marks(used, t)
          /\ t \notin Reach(working) => Marks(notes', t) = Marks(used, t)
      BY <1>4, <2>1, ResetMarks
    <2> QED
      BY <1>2, <1>3, <2>2
  <1>6. CASE first = working.target
    BY <1>1, <1>2, <1>3, <1>6
  <1> QED
    BY <1>5, <1>6

\* What an answer does to both clouds.
LEMMA AnswerCovers ==
    ASSUME CoverInv, RunInv, mode = "running",
           NEW slices, NEW how, slices = Complete(working) \/ slices \in Early(working),
           OnSegmentationFinished(slices, how)
    PROVE  \E lo, hi \in Slices :
              /\ Covers(cloud', notes', lo, hi)
              /\ DOMAIN cloud \subseteq lo .. hi /\ slices \subseteq lo .. hi
  <1> DEFINE merged == MergedInto(cloud, notes, RowsOf(slices))
             used   == Flagged(merged.notes, UsedSlice(working), "used")
             first  == StartIndex(working)
  <1>1. PICK a, b \in Slices : Covers(cloud, notes, a, b)
    BY DEF CoverInv
  <1>2. toolStart \in a .. b /\ working \in RunsFrom(toolStart)
    BY <1>1 DEF RunInv, KeptRuns, Covers
  <1>3. PICK lo, hi \in Slices :
              /\ Covers(merged.cloud, merged.notes, lo, hi)
              /\ lo <= a /\ b <= hi /\ slices \subseteq lo .. hi
    BY <1>1, <1>2, AnswerKeepsCover
  <1>4. /\ cloud' = merged.cloud
        /\ notes' = IF first # working.target THEN Reset(used, first, working.target) ELSE used
    BY DEF OnSegmentationFinished, Flagged
  <1>5. DOMAIN used = DOMAIN merged.notes
    <2> HIDE DEF merged
    <2> QED
      BY SetMarks
  <1>6. DOMAIN notes' = DOMAIN merged.notes
    <2> HIDE DEF used, merged, first
    <2> QED
      BY <1>4, <1>5, FlagsKeepRows
  <1> HIDE DEF merged
  <1>7. Covers(cloud', notes', lo, hi)
    BY <1>3, <1>4, <1>6 DEF Covers
  <1>8. DOMAIN cloud \subseteq lo .. hi
    <2>1. DOMAIN cloud = a .. b
      BY <1>1 DEF Covers
    <2>2. a \in Int /\ b \in Int /\ lo \in Int /\ hi \in Int
      BY SlicesAreInts
    <2>3. a .. b \subseteq lo .. hi
      BY <1>3, <2>2
    <2> QED
      BY <2>1, <2>3
  <1> QED
    BY <1>3, <1>7, <1>8

\* An answer keeps the invariant, early or complete.
LEMMA FinishedKeeps ==
    ASSUME SegmentInv, mode = "running",
           NEW slices, NEW how, slices = Complete(working) \/ slices \in Early(working),
           OnSegmentationFinished(slices, how)
    PROVE  SegmentInv'
  <1>1. PICK lo, hi \in Slices :
              /\ Covers(cloud', notes', lo, hi)
              /\ DOMAIN cloud \subseteq lo .. hi /\ slices \subseteq lo .. hi
    BY AnswerCovers DEF SegmentInv
  <1> DEFINE G == KeptRuns(toolStart, notes)
             H == KeptRuns(toolStart, notes')
  <1>2. /\ toolStart \in DOMAIN cloud /\ toolStart \in Slices
        /\ working \in G /\ queue \in Seq(G)
    BY SizesAssumption DEF SegmentInv, CoverInv, Covers, RunInv, Slices
  <1>3. working \in RunsFrom(toolStart) /\ "anchor" \in Marks(notes, toolStart)
        /\ toolStart \notin Reach(working)
    BY <1>2 DEF KeptRuns
  <1>4. G \subseteq H
    <2> SUFFICES ASSUME NEW run \in G PROVE run \in H
      OBVIOUS
    <2>1. /\ run \in RunsFrom(toolStart)
          /\ \A s \in Reach(run) : "anchor" \notin Marks(notes, s)
      BY DEF KeptRuns
    <2>2. "anchor" \in Marks(notes', toolStart)
      BY <1>3, AnswerKeepsAnchors
    <2>3. \A s \in Reach(run) : "anchor" \notin Marks(notes', s)
      BY <2>1, AnswerKeepsAnchors
    <2> QED
      BY <2>1, <2>2, <2>3 DEF KeptRuns
  <1> HIDE DEF G, H
  <1>5. queue \in Seq(H)
    BY <1>2, <1>4, SeqMonotonic
  <1>6. toolStart' = toolStart /\ ready' = ready /\ toolStart' \in DOMAIN cloud'
    BY <1>1, <1>2 DEF OnSegmentationFinished, Covers
  <1>7. RunInv' /\ DecodedIsCurrent'
    <2>1. CASE mode' = "undefined"
      <3>1. edits = NoEdits
        BY DEF SegmentInv, RunInv
      <3>2. edits' = edits \/ edits' = NoEdits
        BY DEF OnSegmentationFinished, ExecuteNext
      <3> QED
        BY <2>1, <3>1, <3>2 DEF RunInv, DecodedIsCurrent
    <2>2. CASE mode' # "undefined"
      <3>1. PICK shown : ExecuteNext(queue, shown)
        BY <2>2 DEF OnSegmentationFinished
      <3>2. /\ edits' = NoEdits
            /\ mode' \in {"running", "idle"}
            /\ mode' = "running" => working' \in H /\ queue' \in Seq(H)
            /\ DecodedIsCurrent'
        BY <1>5, <3>1, ExecuteNextKeeps
      <3> QED
        BY <1>6, <3>2 DEF RunInv, H
    <2> QED
      BY <2>1, <2>2
  <1> QED
    BY <1>1, <1>7 DEF SegmentInv, CoverInv

\* Every step keeps the invariant.
LEMMA NextSegmentInv == SegmentInv /\ [Next]_vars => SegmentInv'
  <1> SUFFICES ASSUME SegmentInv, [Next]_vars PROVE SegmentInv'
    OBVIOUS
  <1>1. ASSUME NEW s \in Slices, StartTool(s) PROVE SegmentInv'
    <2>1. mode = "idle" /\ edits' = edits /\ mode' = "tool"
          /\ toolStart' = s /\ ready' = (s \in DOMAIN cloud)
          /\ UNCHANGED <<cloud, notes, decoded>>
      BY <1>1 DEF StartTool, segment
    <2>2. edits = NoEdits
      BY <2>1 DEF SegmentInv, RunInv
    <2>3. RunInv'
      BY <2>1, <2>2 DEF RunInv
    <2> QED
      BY <2>1, <2>3 DEF SegmentInv, CoverInv, DecodedIsCurrent
  <1>2. ASSUME NEW s \in Slices, ToggleAnchor(s) PROVE SegmentInv'
    BY <1>2, ToggleAnchorKeeps
  <1>3. ASSUME NEW points \in SUBSET Points, Edit(points) PROVE SegmentInv'
    BY <1>3 DEF Edit, segment, SegmentInv, CoverInv, RunInv, DecodedIsCurrent
  <1>4. ASSUME LeaveWithout PROVE SegmentInv'
    <2>1. /\ UNCHANGED <<cloud, notes>>
          /\ mode' = "idle" /\ edits' = NoEdits /\ decoded' = Decode(notes')
      BY <1>4 DEF LeaveWithout, LeaveTool, CleanupSegmentation
    <2> QED
      BY <2>1 DEF SegmentInv, CoverInv, RunInv, DecodedIsCurrent
  <1>5. ASSUME LeaveKeeping PROVE SegmentInv'
    BY <1>5, LeaveKeepingKeeps
  <1>6. ASSUME NEW computed \in BOOLEAN, NEW smooth \in BOOLEAN, NEW algo \in {"OFS", "LRPS"},
               NEW back \in Goals(toolStart, FALSE), NEW forth \in Goals(toolStart, TRUE),
               DoSegmentation(computed, algo, back, forth, smooth)
        PROVE  SegmentInv'
    BY <1>6, DoSegmentationKeeps
  <1>7. ASSUME RunCompletes PROVE SegmentInv'
    BY <1>7, FinishedKeeps DEF RunCompletes
  <1>8. ASSUME RunStopsEarly PROVE SegmentInv'
    BY <1>8, FinishedKeeps DEF RunStopsEarly
  <1>9. ASSUME RunFails PROVE SegmentInv'
    <2> DEFINE G == KeptRuns(toolStart, notes)
    <2>1. /\ mode = "running" /\ UNCHANGED <<cloud, notes, toolStart, ready>>
          /\ ExecuteNext(queue, decoded)
      BY <1>9 DEF RunFails
    <2>2. queue \in Seq(G) /\ toolStart \in DOMAIN cloud
      BY <2>1 DEF SegmentInv, RunInv
    <2> HIDE DEF G
    <2>3. /\ edits' = NoEdits
          /\ mode' \in {"running", "idle"}
          /\ mode' = "running" => working' \in G /\ queue' \in Seq(G)
          /\ DecodedIsCurrent'
      BY <2>1, <2>2, ExecuteNextKeeps
    <2>4. RunInv'
      BY <2>1, <2>2, <2>3 DEF RunInv, G
    <2> QED
      BY <2>1, <2>3, <2>4 DEF SegmentInv, CoverInv
  <1>10. ASSUME UNCHANGED vars PROVE SegmentInv'
    BY <1>10 DEF vars, segment, tool, runs, SegmentInv, CoverInv, RunInv, DecodedIsCurrent
  <1> QED
    BY <1>1, <1>2, <1>3, <1>4, <1>5, <1>6, <1>7, <1>8, <1>9, <1>10 DEF Next, Answer

-----------------------------------------------------------------------------
(* Theorems.                                                               *)

\* The invariant holds throughout: clouds that agree, a decoded copy that is current,
\* and runs that leave an anchor and meet none.
THEOREM SegmentInvHolds == Spec => []SegmentInv
  BY InitSegmentInv, NextSegmentInv, PTL DEF Spec

\* What the invariant says of the clouds is what the runs check.
LEMMA CoveredCloudsAgree == CoverInv => CloudsAgree
  <1> SUFFICES ASSUME NEW a \in Slices, NEW b \in Slices, Covers(cloud, notes, a, b)
               PROVE  CloudsAgree
    BY DEF CoverInv
  <1>1. First(cloud) = a /\ Last(cloud) = b
    BY SlicesAreInts, CoveredEnds
  <1>2. a <= b /\ DOMAIN cloud = a .. b /\ DOMAIN notes = a .. b
    BY DEF Covers
  <1> QED
    BY <1>1, <1>2, SpanIsInterval DEF CloudsAgree, Contiguous

\* Point cloud and annotation cloud cover the same slices without a gap: no merge is
\* ever refused.
THEOREM CloudsStayTogether == Spec => []CloudsAgree
  <1>1. SegmentInv => CloudsAgree
    BY CoveredCloudsAgree DEF SegmentInv
  <1> QED
    BY <1>1, SegmentInvHolds, PTL

\* Wherever anchors are looked for, in the tool or when it is put away, they are
\* those of the annotation cloud.
THEOREM DecodedStaysCurrent == Spec => []DecodedIsCurrent
  <1>1. SegmentInv => DecodedIsCurrent
    BY DEF SegmentInv
  <1> QED
    BY <1>1, SegmentInvHolds, PTL

\* Runs that wait keep between anchors whatever the answers before them merge, mark and
\* clear.
THEOREM RunsStayBetweenAnchors == Spec => []RunsKeepBetweenAnchors
  <1>1. SegmentInv => RunsKeepBetweenAnchors
    <2> SUFFICES ASSUME SegmentInv, mode = "running",
                        NEW run \in {working} \cup {queue[i] : i \in DOMAIN queue}
                 PROVE  Anchored(run.from) /\ \A s \in Reach(run) : ~Anchored(s)
      BY DEF RunsKeepBetweenAnchors
    <2> DEFINE G == KeptRuns(toolStart, notes)
    <2>1. working \in G /\ queue \in Seq(G)
      BY DEF SegmentInv, RunInv
    <2>2. run \in G
      <3> HIDE DEF G
      <3> QED
        BY <2>1
    <2> QED
      BY <2>2 DEF KeptRuns, RunsFrom, Anchored
  <1> QED
    BY <1>1, SegmentInvHolds, PTL

\* The curves and flags of anchors outlast every answer.
LEMMA AnswerProtects ==
    ASSUME SegmentInv, mode = "running",
           NEW slices, NEW how, slices = Complete(working) \/ slices \in Early(working),
           OnSegmentationFinished(slices, how),
           NEW s \in DOMAIN cloud, Anchored(s)
    PROVE  s \in DOMAIN cloud' /\ cloud'[s] = cloud[s] /\ Anchored(s)'
  <1> DEFINE rows == RowsOf(slices)
  <1>1. /\ toolStart \in Slices /\ working \in RunsFrom(toolStart)
        /\ \A t \in Reach(working) : ~Anchored(t)
    BY SizesAssumption DEF SegmentInv, CoverInv, Covers, RunInv, KeptRuns, Slices, Anchored
  <1>2. s \notin Reach(working)
    BY <1>1
  <1>3. Anchored(s)'
    BY <1>2, AnswerKeepsAnchors DEF Anchored
  <1>4. cloud' = MergedInto(cloud, notes, rows).cloud
    BY DEF OnSegmentationFinished
  <1>5. cloud' = cloud \/ cloud' = Merged(cloud, rows)
    BY <1>4 DEF MergedInto
  <1>6. s \in slices => s = working.from
    <2>1. \A done \in Prefixes(working) : done \subseteq Reach(working)
      <3> SUFFICES ASSUME NEW t \in Reach(working)
                   PROVE  Span(StartIndex(working), t) \subseteq Reach(working)
        BY DEF Prefixes
      <3>1. working.target \in Slices /\ StartIndex(working) \in Slices
        BY <1>1, ReachIsBeside
      <3> QED
        BY <3>1, SpanWithin DEF Reach
    <2> QED
      BY <1>2, <2>1 DEF Complete, Early
  <1>7. s \in slices => rows[s] = cloud[s]
    BY <1>6 DEF RowsOf
  <1>8. ASSUME cloud' = Merged(cloud, rows) PROVE s \in DOMAIN cloud' /\ cloud'[s] = cloud[s]
    <2>0. DOMAIN rows = slices
      BY DEF RowsOf
    <2>1. CASE slices = {}
      BY <1>8, <2>0, <2>1 DEF Merged
    <2>2. CASE slices # {}
      <3>1. PICK x, y \in Int : x <= y /\ slices = x .. y
        BY <1>1, <2>2, AnswerIsBeside
      <3> HIDE DEF rows
      <3>2. First(rows) = x /\ Last(rows) = y
        BY <2>0, <3>1, IntervalEnds DEF First, Last
      <3>3. s \in Int
        BY SizesAssumption DEF SegmentInv, CoverInv, Covers, Slices
      <3>4. s \in slices \/ s < First(rows) \/ s > Last(rows)
        BY <3>1, <3>2, <3>3
      <3>5. Merged(cloud, rows) =
              Over(rows, Restrict(cloud, {t \in DOMAIN cloud : t < First(rows) \/ t > Last(rows)}))
        BY <2>0, <2>2 DEF Merged
      <3> QED
        BY <1>7, <1>8, <2>0, <3>4, <3>5 DEF Over, Restrict
    <2> QED
      BY <2>1, <2>2
  <1> QED
    BY <1>3, <1>5, <1>8

\* No answer overwrites the curve of an anchor or takes its flag.
THEOREM AnchorsStayProtected == Spec => AnchorsAreProtected
  <1>1. SegmentInv /\ [Next]_vars =>
          [mode = "running" =>
             \A s \in DOMAIN cloud : Anchored(s) =>
                 s \in DOMAIN cloud' /\ cloud'[s] = cloud[s] /\ Anchored(s)']_vars
    <2> SUFFICES ASSUME SegmentInv, Next, mode = "running",
                        NEW s \in DOMAIN cloud, Anchored(s)
                 PROVE  s \in DOMAIN cloud' /\ cloud'[s] = cloud[s] /\ Anchored(s)'
      OBVIOUS
    <2>1. Answer
      BY DEF Next, StartTool, ToggleAnchor, Edit, LeaveWithout, LeaveKeeping, LeaveTool,
             DoSegmentation
    <2>2. CASE RunCompletes
      BY <2>2, AnswerProtects DEF RunCompletes
    <2>3. CASE RunStopsEarly
      BY <2>3, AnswerProtects DEF RunStopsEarly
    <2>4. CASE RunFails
      BY <2>4 DEF RunFails, Anchored
    <2> QED
      BY <2>1, <2>2, <2>3, <2>4 DEF Answer
  <1> QED
    BY <1>1, SegmentInvHolds, PTL DEF Spec, AnchorsAreProtected

\* A run that is not cut short writes to rows that are there.
LEMMA CompleteRunsFit ==
    ASSUME SegmentInv, RunCompletes
    PROVE  mode' # "undefined"
  <1> DEFINE slices == Complete(working)
             merged == MergedInto(cloud, notes, RowsOf(slices))
             used   == Flagged(merged.notes, UsedSlice(working), "used")
             first  == StartIndex(working)
             target == working.target
  <1>1. mode = "running" /\ OnSegmentationFinished(slices, "complete")
    BY DEF RunCompletes
  <1>2. PICK a, b \in Slices : Covers(cloud, notes, a, b)
    BY DEF SegmentInv, CoverInv
  <1>3. /\ toolStart \in a .. b /\ working \in RunsFrom(toolStart)
        /\ queue \in Seq(KeptRuns(toolStart, notes))
    BY <1>1, <1>2 DEF SegmentInv, RunInv, KeptRuns, Covers
  <1>4. PICK lo, hi \in Slices :
              /\ Covers(merged.cloud, merged.notes, lo, hi)
              /\ slices \subseteq lo .. hi
    BY <1>2, <1>3, AnswerKeepsCover
  <1>5. DOMAIN used = lo .. hi
    <2>1. DOMAIN merged.notes = lo .. hi
      BY <1>4 DEF Covers
    <2> HIDE DEF merged
    <2> QED
      BY <2>1, SetMarks
  <1>6. Span(first, target) \subseteq slices
    BY DEF Complete, Reach
  <1> HIDE DEF slices, merged
  <1>7. slices \subseteq DOMAIN used /\ ResetFits(used, first, target)
    BY <1>4, <1>5, <1>6 DEF ResetFits
  <1>8. \/ ~(/\ slices \subseteq DOMAIN used
             /\ (first # target => ResetFits(used, first, target)))
        \/ \E shown : ExecuteNext(queue, shown)
    BY <1>1 DEF OnSegmentationFinished, Flagged, merged
  <1>9. PICK shown : ExecuteNext(queue, shown)
    BY <1>7, <1>8
  <1> QED
    BY <1>3, <1>9, ExecuteNextKeeps

\* Writes beside the annotation cloud come from runs that stop early and from nothing else.
THEOREM OverrunsComeFromEarlyRuns == Spec => OnlyEarlyRunsOverrun
  <1>1. SegmentInv /\ [Next]_vars => [mode' = "undefined" => outcome' = "early"]_vars
    <2> SUFFICES ASSUME SegmentInv, Next, mode' = "undefined"
                 PROVE  outcome' = "early"
      OBVIOUS
    <2>1. ASSUME NEW waiting, NEW shown, ExecuteNext(waiting, shown) PROVE FALSE
      BY <2>1 DEF ExecuteNext, CleanupSegmentation
    <2>2. ASSUME NEW computed, NEW algo, NEW back, NEW forth, NEW smooth,
                 DoSegmentation(computed, algo, back, forth, smooth)
          PROVE  FALSE
      BY <2>1, <2>2 DEF DoSegmentation
    <2>3. ASSUME RunFails PROVE FALSE
      BY <2>1, <2>3 DEF RunFails
    <2>4. ASSUME RunCompletes PROVE FALSE
      BY <2>4, CompleteRunsFit
    <2>5. ASSUME RunStopsEarly PROVE outcome' = "early"
      BY <2>5 DEF RunStopsEarly, OnSegmentationFinished
    <2>6. ASSUME NEW s \in Slices, StartTool(s) \/ ToggleAnchor(s) PROVE FALSE
      BY <2>6 DEF StartTool, ToggleAnchor
    <2>7. ASSUME NEW points, Edit(points) PROVE FALSE
      BY <2>7 DEF Edit
    <2>8. ASSUME LeaveTool PROVE FALSE
      BY <2>8 DEF LeaveTool, CleanupSegmentation
    <2> QED
      BY <2>2, <2>3, <2>4, <2>5, <2>6, <2>7, <2>8 DEF Next, Answer, LeaveWithout, LeaveKeeping
  <1> QED
    BY <1>1, SegmentInvHolds, PTL DEF Spec, OnlyEarlyRunsOverrun

-----------------------------------------------------------------------------
(* Types.                                                                  *)

\* Rows of flags, and curves by makers of a given kind.
RowsTyped(n) == \A s \in DOMAIN n : n[s] \in [Points -> SUBSET Flags]
MadeBy(c, M) == \A s \in DOMAIN c : c[s] \in M

\* Curves are by the answers received so far, of which there are no more than runs
\* were asked for: two a start, less those that wait or are computed.
Pending == IF mode = "running" THEN 1 + Len(queue) ELSE 0
SegmentTypes ==
    /\ MadeBy(cloud, -1 .. answers) /\ RowsTyped(notes)
    /\ decoded \in [Slices -> SUBSET Flags]
ToolTypes ==
    /\ mode \in {"idle", "tool", "running", "undefined"}
    /\ toolStart \in Slices \cup {NoSlice} /\ ready \in BOOLEAN
    /\ edits \in [changed : BOOLEAN, points : SUBSET Points]
RunTypes ==
    /\ queue \in Seq(Runs) /\ working \in Runs \cup {NoRun}
    /\ outcome \in {"none", "complete", "early", "failed"}
CountTypes ==
    /\ answers \in Nat /\ starts \in 0 .. MaxStarts /\ touches \in 0 .. MaxTouches
    /\ answers + Pending <= 2 * starts
TypeInv == SegmentTypes /\ ToolTypes /\ RunTypes /\ CountTypes

\* A flag set or cleared leaves rows of flags.
LEMMA FlagTyped ==
    ASSUME NEW n, RowsTyped(n), NEW s, NEW flag \in Flags, NEW on \in BOOLEAN
    PROVE  RowsTyped(WithFlag(n, s, flag, on))
  <1> DEFINE w == WithFlag(n, s, flag, on)
  <1>1. CASE s \notin DOMAIN n
    BY <1>1 DEF WithFlag
  <1>2. CASE s \in DOMAIN n
    <2>1. /\ DOMAIN w = DOMAIN n
          /\ \A u \in DOMAIN n : u # s => w[u] = n[u]
          /\ w[s] = [p \in Points |-> IF on THEN n[s][p] \cup {flag} ELSE n[s][p] \ {flag}]
      BY <1>2 DEF WithFlag
    <2>2. n[s] \in [Points -> SUBSET Flags]
      BY <1>2 DEF RowsTyped
    <2>3. w[s] \in [Points -> SUBSET Flags]
      BY <2>1, <2>2
    <2> HIDE DEF w
    <2>4. RowsTyped(w)
      BY <2>1, <2>3 DEF RowsTyped
    <2> QED
      BY <2>4 DEF w
  <1> QED
    BY <1>1, <1>2

\* So do a flag that is set, one that is cleared, marks of moved points and a reset.
LEMMA MarksTyped ==
    ASSUME NEW n, RowsTyped(n)
    PROVE  /\ \A s : \A flag \in Flags : RowsTyped(Flagged(n, s, flag))
           /\ \A s : RowsTyped(WithFlag(n, s, "used", FALSE))
           /\ \A s, points : RowsTyped(WithManual(n, s, points))
           /\ \A from, to : RowsTyped(Reset(n, from, to))
  <1>1. ASSUME NEW s, NEW flag \in Flags PROVE RowsTyped(Flagged(n, s, flag))
    <2>1. CASE s \notin DOMAIN n
      BY <2>1 DEF Flagged, WithFlag
    <2>2. CASE s \in DOMAIN n
      BY <2>2 DEF RowsTyped, Flagged, WithFlag
    <2> QED
      BY <2>1, <2>2
  <1>2. ASSUME NEW s PROVE RowsTyped(WithFlag(n, s, "used", FALSE))
    <2>1. CASE s \notin DOMAIN n
      BY <2>1 DEF WithFlag
    <2>2. CASE s \in DOMAIN n
      BY <2>2 DEF RowsTyped, WithFlag
    <2> QED
      BY <2>1, <2>2
  <1>3. ASSUME NEW s, NEW points PROVE RowsTyped(WithManual(n, s, points))
    <2>1. CASE s \notin DOMAIN n
      BY <2>1 DEF WithManual
    <2>2. CASE s \in DOMAIN n
      <3>1. n[s] \in [Points -> SUBSET Flags] /\ "manual" \in Flags
        BY <2>2 DEF RowsTyped, Flags
      <3>2. \A p \in Points :
              (IF p \in points THEN n[s][p] \cup {"manual"} ELSE n[s][p]) \in SUBSET Flags
        BY <3>1
      <3> QED
        BY <2>2, <3>2 DEF RowsTyped, WithManual
    <2> QED
      BY <2>1, <2>2
  <1>4. ASSUME NEW from, NEW to PROVE RowsTyped(Reset(n, from, to))
    <2>1. CASE from \notin DOMAIN n
      BY <2>1 DEF Reset
    <2>2. CASE from \in DOMAIN n
      BY <2>2 DEF RowsTyped, Reset
    <2> QED
      BY <2>1, <2>2
  <1> QED
    BY <1>1, <1>2, <1>3, <1>4

\* Rows put beside others are rows of the one or the other; blank rows have no flags.
LEMMA OverTyped ==
    ASSUME NEW n, RowsTyped(n), NEW a, NEW b
    PROVE  RowsTyped(Over(n, Blank(a, b)))
  <1> DEFINE more == Blank(a, b)
  <1>1. RowsTyped(more)
    BY DEF RowsTyped, Blank
  <1> HIDE DEF more
  <1>2. RowsTyped(Over(n, more))
    BY <1>1 DEF RowsTyped, Over
  <1> QED
    BY <1>2 DEF more

\* A merge mixes the makers of both and leaves rows of flags.
LEMMA MergeTyped ==
    ASSUME NEW c, NEW n, NEW rows, NEW M, MadeBy(c, M), MadeBy(rows, M), RowsTyped(n)
    PROVE  /\ MadeBy(MergedInto(c, n, rows).cloud, M)
           /\ RowsTyped(MergedInto(c, n, rows).notes)
  <1>1. MadeBy(Merged(c, rows), M)
    <2>1. CASE DOMAIN rows = {}
      BY <2>1 DEF Merged
    <2>2. CASE DOMAIN rows # {}
      <3>1. PICK kept : kept \subseteq DOMAIN c /\ Merged(c, rows) = Over(rows, Restrict(c, kept))
        BY <2>2 DEF Merged
      <3> QED
        BY <3>1 DEF MadeBy, Over, Restrict
    <2> QED
      BY <2>1, <2>2
  <1>2. RowsTyped(Grown(c, n, rows))
    BY OverTyped DEF Grown
  <1> QED
    BY <1>1, <1>2 DEF MergedInto

\* Decoding gives sets of flags, and setting or clearing one in them keeps them such.
LEMMA DecodeTyped ==
    /\ \A n : RowsTyped(n) => Decode(n) \in [Slices -> SUBSET Flags]
    /\ \A d \in [Slices -> SUBSET Flags] : \A n, s : \A flag \in Flags, on \in BOOLEAN :
          DecodedFlag(d, n, s, flag, on) \in [Slices -> SUBSET Flags]
    /\ \A d \in [Slices -> SUBSET Flags] : \A n, s : \A flag \in Flags :
          DecodedFlag(d, n, s, flag, TRUE) \in [Slices -> SUBSET Flags]
  <1>1. ASSUME NEW n, RowsTyped(n) PROVE Decode(n) \in [Slices -> SUBSET Flags]
    <2>1. \A s \in Slices : Marks(n, s) \in SUBSET Flags
      BY <1>1 DEF RowsTyped, Marks
    <2> QED
      BY <2>1 DEF Decode
  <1>2. ASSUME NEW d \in [Slices -> SUBSET Flags], NEW n, NEW s, NEW flag \in Flags,
               NEW on \in BOOLEAN
        PROVE  DecodedFlag(d, n, s, flag, on) \in [Slices -> SUBSET Flags]
    BY DEF DecodedFlag
  <1>3. ASSUME NEW d \in [Slices -> SUBSET Flags], NEW n, NEW s, NEW flag \in Flags
        PROVE  DecodedFlag(d, n, s, flag, TRUE) \in [Slices -> SUBSET Flags]
    BY DEF DecodedFlag
  <1> QED
    BY <1>1, <1>2, <1>3

\* The segment is opened with its types.
LEMMA InitTypes == Init => TypeInv
  <1> SUFFICES ASSUME Init PROVE TypeInv
    OBVIOUS
  <1>1. PICK f \in Segments :
          /\ cloud = [s \in f.reach |-> IF s \in f.drawn THEN ByHand ELSE FromFile]
          /\ LET saved == [s \in f.noted |-> [p \in Points |->
                             IF s \in f.drawn THEN {"anchor", "manual"} ELSE {}]]
             IN  notes = Aligned(cloud, saved)
    BY DEF Init
  <1> DEFINE saved == [s \in f.noted |-> [p \in Points |->
                         IF s \in f.drawn THEN {"anchor", "manual"} ELSE {}]]
  <1>2. RowsTyped(saved)
    BY DEF RowsTyped, Flags
  <1>3. notes = Aligned(cloud, saved)
    BY <1>1
  <1> HIDE DEF saved
  <1>4. RowsTyped(notes)
    <2>1. CASE Height(cloud) = Height(saved)
      BY <1>2, <1>3, <2>1 DEF Aligned
    <2>2. CASE Height(cloud) # Height(saved)
      <3>1. PICK a, b, c, d : Aligned(cloud, saved) = Over(Over(saved, Blank(a, b)), Blank(c, d))
        BY <2>2 DEF Aligned
      <3>2. RowsTyped(Over(saved, Blank(a, b)))
        BY <1>2, OverTyped
      <3> QED
        BY <1>3, <3>1, <3>2, OverTyped
    <2> QED
      BY <2>1, <2>2
  <1>5. answers = 0 /\ MadeBy(cloud, -1 .. answers)
    BY <1>1 DEF Init, MadeBy, ByHand, FromFile
  <1>6. SegmentTypes
    BY <1>4, <1>5, DecodeTyped DEF SegmentTypes, Init
  <1>7. ToolTypes
    BY DEF ToolTypes, Init, NoEdits
  <1>8. RunTypes
    BY DEF RunTypes, Init
  <1>9. CountTypes
    BY BoundsAssumption DEF CountTypes, Pending, Init
  <1> QED
    BY <1>6, <1>7, <1>8, <1>9 DEF TypeInv

\* The next run comes from the queue, or none is left.
LEMMA ExecuteNextTyped ==
    ASSUME NEW G, NEW waiting \in Seq(G), NEW shown \in [Slices -> SUBSET Flags],
           RowsTyped(notes'), ExecuteNext(waiting, shown)
    PROVE  /\ edits' = NoEdits /\ mode' \in {"running", "idle"}
           /\ decoded' \in [Slices -> SUBSET Flags]
           /\ mode' = "idle" => (queue' = <<>> /\ working' = NoRun)
           /\ Pending' = Len(waiting)
  <1>1. CASE waiting = <<>>
    <2>1. mode' = "idle" /\ edits' = NoEdits /\ decoded' = Decode(notes')
          /\ queue' = <<>> /\ working' = NoRun
      BY <1>1 DEF ExecuteNext, CleanupSegmentation
    <2>2. decoded' \in [Slices -> SUBSET Flags]
      BY <2>1, DecodeTyped
    <2>3. Pending' = 0 /\ Len(waiting) = 0
      BY <1>1, <2>1 DEF Pending
    <2> QED
      BY <2>1, <2>2, <2>3
  <1>2. CASE waiting # <<>>
    <2>1. mode' = "running" /\ edits' = NoEdits /\ decoded' = shown /\ queue' = Tail(waiting)
      BY <1>2 DEF ExecuteNext
    <2>2. Len(Tail(waiting)) = Len(waiting) - 1 /\ Len(waiting) \in Nat
      BY <1>2
    <2>3. Pending' = Len(waiting)
      BY <2>1, <2>2 DEF Pending
    <2> QED
      BY <2>1, <2>3
  <1> QED
    BY <1>1, <1>2

\* What the invariant of runs says of their types when one of them is computed.
LEMMA RunningTyped ==
    ASSUME SegmentInv, mode = "running"
    PROVE  queue \in Seq(Runs) /\ working \in Runs /\ working.from \in DOMAIN cloud
  <1> DEFINE G == KeptRuns(toolStart, notes)
  <1>1. working \in G /\ queue \in Seq(G) /\ toolStart \in DOMAIN cloud
    BY DEF SegmentInv, RunInv
  <1>2. G \subseteq Runs /\ \A run \in G : run.from = toolStart
    BY DEF KeptRuns, RunsFrom
  <1> HIDE DEF G
  <1> QED
    BY <1>1, <1>2, SeqMonotonic

\* The same of the state a step leads to.
LEMMA NextRunningTyped ==
    ASSUME SegmentInv', mode' = "running"
    PROVE  queue' \in Seq(Runs) /\ working' \in Runs
  <1> DEFINE G == KeptRuns(toolStart', notes')
  <1>1. working' \in G /\ queue' \in Seq(G)
    BY DEF SegmentInv, RunInv
  <1>2. G \subseteq Runs
    BY DEF KeptRuns, RunsFrom
  <1> HIDE DEF G
  <1> QED
    BY <1>1, <1>2, SeqMonotonic

\* One direction adds one run or none.
LEMMA OnePrepared ==
    ASSUME NEW goal, NEW forward, NEW algo, NEW smooth, NEW now
    PROVE  \E run : Prepared(goal, forward, algo, smooth, now) \in {<<>>, <<run>>}
  BY DEF Prepared

\* Two runs at most make up a queue.
LEMMA TwoAtMost ==
    ASSUME NEW x, NEW y, NEW p \in {<<>>, <<x>>}, NEW q \in {<<>>, <<y>>}
    PROVE  p \o q \in Seq({x, y}) /\ Len(p \o q) <= 2
  <1>0. ASSUME NEW G, NEW z \in G, NEW r \in {<<>>, <<z>>} PROVE r \in Seq(G) /\ Len(r) <= 1
    <2>1. CASE r = <<>>
      BY <2>1
    <2>2. CASE r = <<z>>
      BY <2>2
    <2> QED
      BY <1>0, <2>1, <2>2
  <1>1. p \in Seq({x, y}) /\ Len(p) <= 1
    BY <1>0
  <1>2. q \in Seq({x, y}) /\ Len(q) <= 1
    BY <1>0
  <1>3. p \o q \in Seq({x, y}) /\ Len(p \o q) = Len(p) + Len(q)
    BY <1>1, <1>2
  <1>4. Len(p) \in Nat /\ Len(q) \in Nat
    BY <1>1, <1>2
  <1> QED
    BY <1>1, <1>2, <1>3, <1>4

\* The changed curve is merged with its types.
LEMMA EditsTyped ==
    ASSUME NEW c, NEW n, NEW M, MadeBy(c, M), ByHand \in M, RowsTyped(n), toolStart \in DOMAIN c
    PROVE  MadeBy(MergeEdits(c, n).cloud, M) /\ RowsTyped(MergeEdits(c, n).notes)
  <1> DEFINE rows == [s \in {toolStart} |-> IF edits.points = {} THEN c[s] ELSE ByHand]
  <1>1. MadeBy(rows, M)
    BY DEF MadeBy
  <1>2. MergeEdits(c, n) = MergedInto(c, n, rows)
        \/ MergeEdits(c, n) = [cloud |-> c, notes |-> n]
    BY DEF MergeEdits
  <1> HIDE DEF rows
  <1> QED
    BY <1>1, <1>2, MergeTyped

\* The start of runs keeps the types.
LEMMA StartTyped ==
    ASSUME TypeInv, SegmentInv, SegmentInv', mode = "tool",
           NEW computed \in BOOLEAN, NEW algo, NEW back, NEW forth, NEW smooth,
           DoSegmentation(computed, algo, back, forth, smooth)
    PROVE  TypeInv'
  <1>1. /\ UNCHANGED <<toolStart, ready, answers, outcome, touches>>
        /\ starts < MaxStarts /\ starts' = starts + 1
    BY DEF DoSegmentation
  <1>2. answers \in Nat /\ answers <= 2 * starts /\ starts \in Nat
    BY BoundsAssumption DEF TypeInv, CountTypes, Pending
  <1>3. /\ MadeBy(cloud', -1 .. answers) /\ RowsTyped(notes')
        /\ edits' = NoEdits /\ mode' \in {"running", "idle"}
        /\ decoded' \in [Slices -> SUBSET Flags]
        /\ mode' = "idle" => (queue' = <<>> /\ working' = NoRun)
        /\ Pending' \in 0 .. 2
    <2>1. CASE ~(computed /\ ready)
      <3>1. cloud' = cloud /\ notes' = notes /\ ExecuteNext(<<>>, decoded)
        BY <2>1 DEF DoSegmentation
      <3>2. MadeBy(cloud', -1 .. answers) /\ RowsTyped(notes')
        BY <3>1 DEF TypeInv, SegmentTypes
      <3>3. decoded \in [Slices -> SUBSET Flags]
        BY DEF TypeInv, SegmentTypes
      <3>4. <<>> \in Seq(Runs) /\ Len(<<>>) \in 0 .. 2
        OBVIOUS
      <3>5. /\ edits' = NoEdits /\ mode' \in {"running", "idle"}
            /\ decoded' \in [Slices -> SUBSET Flags]
            /\ mode' = "idle" => (queue' = <<>> /\ working' = NoRun)
            /\ Pending' = Len(<<>>)
        BY <3>1, <3>2, <3>3, <3>4, ExecuteNextTyped
      <3> QED
        BY <3>2, <3>4, <3>5
    <2>2. CASE computed /\ ready
      <3> DEFINE merged   == MergeEdits(cloud, notes)
                 anchored == Flagged(merged.notes, toolStart, "anchor")
                 flagged  == DecodedFlag(decoded, notes, toolStart, "anchor", TRUE)
                 shown    == IF edits.points = {} THEN flagged
                             ELSE DecodedFlag(flagged, notes, toolStart, "manual", TRUE)
                 now      == [cloud |-> merged.cloud, decoded |-> shown]
                 runsBack == Prepared(back, FALSE, algo, smooth, now)
                 runsFore == Prepared(forth, TRUE, algo, smooth, now)
      <3>1. /\ cloud' = merged.cloud
            /\ notes' = WithManual(anchored, toolStart, edits.points)
            /\ ExecuteNext(runsBack \o runsFore, shown)
        BY <2>2 DEF DoSegmentation, Flagged
      <3>2. toolStart \in DOMAIN cloud
        BY <2>2 DEF SegmentInv, RunInv
      <3>3. ByHand \in -1 .. answers
        BY <1>2 DEF ByHand
      <3>4. MadeBy(merged.cloud, -1 .. answers) /\ RowsTyped(merged.notes)
        BY <3>2, <3>3, EditsTyped DEF TypeInv, SegmentTypes
      <3> HIDE DEF merged
      <3>5. "anchor" \in Flags /\ "manual" \in Flags
        BY DEF Flags
      <3>6. RowsTyped(anchored)
        BY <3>4, <3>5, MarksTyped
      <3>7. flagged \in [Slices -> SUBSET Flags]
        BY <3>5 DEF TypeInv, SegmentTypes, DecodedFlag
      <3> HIDE DEF anchored, flagged
      <3>8. RowsTyped(notes')
        BY <3>1, <3>6, MarksTyped
      <3>9. shown \in [Slices -> SUBSET Flags]
        BY <3>5, <3>7 DEF DecodedFlag
      <3> HIDE DEF shown
      <3>10. PICK x : runsBack \in {<<>>, <<x>>}
        BY OnePrepared
      <3>11. PICK y : runsFore \in {<<>>, <<y>>}
        BY OnePrepared
      <3> HIDE DEF runsBack, runsFore
      <3>12. runsBack \o runsFore \in Seq({x, y}) /\ Len(runsBack \o runsFore) <= 2
        BY <3>10, <3>11, TwoAtMost
      <3>13. Len(runsBack \o runsFore) \in 0 .. 2
        BY <3>12
      <3> QED
        BY <3>1, <3>4, <3>8, <3>9, <3>12, <3>13, ExecuteNextTyped
    <2> QED
      BY <2>1, <2>2
  <1>4. SegmentTypes'
    BY <1>1, <1>3 DEF SegmentTypes
  <1>5. ToolTypes'
    BY <1>1, <1>3 DEF TypeInv, ToolTypes, NoEdits
  <1>6. RunTypes'
    <2>1. CASE mode' = "idle"
      BY <1>1, <1>3, <2>1 DEF TypeInv, RunTypes
    <2>2. CASE mode' = "running"
      BY <1>1, <2>2, NextRunningTyped DEF TypeInv, RunTypes
    <2> QED
      BY <1>3, <2>1, <2>2
  <1>7. CountTypes'
    <2>1. answers' + Pending' <= 2 * starts'
      <3>1. PICK p \in 0 .. 2 : Pending' = p
        BY <1>3
      <3>2. answers' = answers /\ starts' = starts + 1
        BY <1>1
      <3>3. 2 * (starts + 1) = 2 * starts + 2
        BY <1>2
      <3>4. answers + p <= 2 * starts + 2
        BY <1>2
      <3> QED
        BY <3>1, <3>2, <3>3, <3>4
    <2>2. starts' \in 0 .. MaxStarts
      BY <1>1, <1>2, BoundsAssumption
    <2> QED
      BY <1>1, <2>1, <2>2 DEF TypeInv, CountTypes
  <1> QED
    BY <1>4, <1>5, <1>6, <1>7 DEF TypeInv

\* After an answer the next run comes from the queue, or the model stops.
LEMMA AfterAnswer ==
    ASSUME TypeInv, SegmentInv, SegmentInv', mode = "running",
           UNCHANGED <<toolStart, ready, bounds>>, answers' = answers + 1,
           outcome' \in {"complete", "early", "failed"},
           MadeBy(cloud', -1 .. answers + 1), RowsTyped(notes'),
           \/ \E shown \in [Slices -> SUBSET Flags] : ExecuteNext(queue, shown)
           \/ mode' = "undefined" /\ UNCHANGED <<decoded, edits, queue, working>>
    PROVE  TypeInv'
  <1>1. queue \in Seq(Runs) /\ Len(queue) \in Nat
    BY DEF TypeInv, RunTypes
  <1>2. /\ mode' \in {"running", "idle", "undefined"}
        /\ (edits' = NoEdits \/ edits' = edits)
        /\ decoded' \in [Slices -> SUBSET Flags]
        /\ mode' = "idle" => (queue' = <<>> /\ working' = NoRun)
        /\ mode' = "undefined" => (queue' = queue /\ working' = working)
        /\ Pending' <= Len(queue) /\ Pending' \in Nat
    <2>1. ASSUME NEW shown \in [Slices -> SUBSET Flags], ExecuteNext(queue, shown)
          PROVE  /\ edits' = NoEdits /\ mode' \in {"running", "idle"}
                 /\ decoded' \in [Slices -> SUBSET Flags]
                 /\ mode' = "idle" => (queue' = <<>> /\ working' = NoRun)
                 /\ Pending' = Len(queue)
      BY <1>1, <2>1, ExecuteNextTyped
    <2>2. CASE mode' = "undefined" /\ UNCHANGED <<decoded, edits, queue, working>>
      BY <1>1, <2>2 DEF TypeInv, SegmentTypes, Pending
    <2> QED
      BY <1>1, <2>1, <2>2
  <1>3. SegmentTypes'
    BY <1>2 DEF SegmentTypes
  <1>4. ToolTypes'
    <2>1. edits' \in [changed : BOOLEAN, points : SUBSET Points]
      <3>1. NoEdits \in [changed : BOOLEAN, points : SUBSET Points]
        BY DEF NoEdits
      <3>2. edits \in [changed : BOOLEAN, points : SUBSET Points]
        BY DEF TypeInv, ToolTypes
      <3>3. edits' = NoEdits \/ edits' = edits
        BY <1>2
      <3> QED
        BY <3>1, <3>2, <3>3
    <2>2. toolStart' \in Slices \cup {NoSlice} /\ ready' \in BOOLEAN
      BY DEF TypeInv, ToolTypes
    <2> QED
      BY <1>2, <2>1, <2>2 DEF ToolTypes
  <1>5. RunTypes'
    <2>1. CASE mode' = "idle"
      BY <1>2, <2>1 DEF TypeInv, RunTypes
    <2>2. CASE mode' = "running"
      BY <2>2, NextRunningTyped DEF TypeInv, RunTypes
    <2>3. CASE mode' = "undefined"
      BY <1>2, <2>3 DEF TypeInv, RunTypes
    <2> QED
      BY <1>2, <2>1, <2>2, <2>3
  <1>6. CountTypes'
    <2>1. Pending = 1 + Len(queue) /\ answers \in Nat /\ answers + Pending <= 2 * starts
          /\ starts \in Nat
      BY BoundsAssumption DEF TypeInv, CountTypes, Pending
    <2>2. answers' + Pending' <= 2 * starts
      <3>1. PICK p \in Nat : Pending' = p /\ p <= Len(queue)
        BY <1>2
      <3>2. answers + (1 + Len(queue)) <= 2 * starts
        BY <2>1
      <3>3. answers + 1 + p <= 2 * starts
        BY <1>1, <2>1, <3>1, <3>2
      <3> QED
        BY <3>1, <3>3
    <2>3. starts' = starts /\ touches' = touches
      BY DEF bounds
    <2> QED
      BY <2>1, <2>2, <2>3 DEF TypeInv, CountTypes
  <1> QED
    BY <1>3, <1>4, <1>5, <1>6 DEF TypeInv

\* An answer is one more maker, and marks with flags.
LEMMA FinishedTyped ==
    ASSUME TypeInv, SegmentInv, SegmentInv', mode = "running",
           NEW slices, NEW how \in {"complete", "early"}, OnSegmentationFinished(slices, how)
    PROVE  TypeInv'
  <1> DEFINE rows   == RowsOf(slices)
             merged == MergedInto(cloud, notes, rows)
             used   == Flagged(merged.notes, UsedSlice(working), "used")
             shown  == DecodedFlag(decoded, used, UsedSlice(working), "used", TRUE)
             first  == StartIndex(working)
             M      == -1 .. answers + 1
  <1>1. answers \in Nat /\ MadeBy(cloud, -1 .. answers) /\ RowsTyped(notes)
        /\ decoded \in [Slices -> SUBSET Flags]
    BY DEF TypeInv, SegmentTypes, CountTypes
  <1>2. MadeBy(cloud, M)
    <2>1. -1 .. answers \subseteq M
      BY <1>1
    <2> QED
      BY <1>1, <2>1 DEF MadeBy
  <1>3. MadeBy(rows, M)
    <2>1. answers + 1 \in M /\ working.from \in DOMAIN cloud
      BY <1>1, RunningTyped
    <2> HIDE DEF M
    <2> QED
      BY <1>2, <2>1 DEF MadeBy, RowsOf
  <1>4. /\ cloud' = merged.cloud
        /\ notes' = IF first # working.target THEN Reset(used, first, working.target) ELSE used
        /\ answers' = answers + 1 /\ outcome' = how
        /\ UNCHANGED <<toolStart, ready, bounds>>
        /\ \/ ExecuteNext(queue, shown)
           \/ mode' = "undefined" /\ UNCHANGED <<decoded, edits, queue, working>>
    BY DEF OnSegmentationFinished, Flagged
  <1> HIDE DEF rows, M
  <1>5. MadeBy(merged.cloud, M) /\ RowsTyped(merged.notes)
    BY <1>1, <1>2, <1>3, MergeTyped
  <1>6. "used" \in Flags
    BY DEF Flags
  <1> HIDE DEF merged
  <1>7. RowsTyped(used)
    BY <1>5, <1>6, MarksTyped
  <1>8. shown \in [Slices -> SUBSET Flags]
    <2> HIDE DEF used
    <2> QED
      BY <1>1, <1>6 DEF DecodedFlag
  <1> HIDE DEF used, shown, first
  <1>9. RowsTyped(notes')
    BY <1>4, <1>7, MarksTyped
  <1> QED
    BY <1>4, <1>5, <1>8, <1>9, AfterAnswer DEF M

\* Every step keeps the types.
LEMMA NextTyped == TypeInv /\ SegmentInv /\ SegmentInv' /\ [Next]_vars => TypeInv'
  <1> SUFFICES ASSUME TypeInv, SegmentInv, SegmentInv', [Next]_vars PROVE TypeInv'
    OBVIOUS
  <1>1. ASSUME NEW s \in Slices, StartTool(s) PROVE TypeInv'
    <2>1. /\ mode = "idle" /\ mode' = "tool" /\ toolStart' = s /\ ready' = (s \in DOMAIN cloud)
          /\ UNCHANGED <<segment, edits, runs, bounds>>
      BY <1>1 DEF StartTool
    <2>2. ready' \in BOOLEAN
      BY <2>1
    <2>3. Pending' = Pending
      BY <2>1 DEF Pending
    <2> QED
      BY <2>1, <2>2, <2>3
      DEF TypeInv, SegmentTypes, ToolTypes, RunTypes, CountTypes, segment, runs, bounds
  <1>2. ASSUME NEW s \in Slices, ToggleAnchor(s) PROVE TypeInv'
    <2> DEFINE on == "anchor" \notin decoded[s]
    <2>1. /\ mode' = mode /\ touches < MaxTouches /\ touches' = touches + 1
          /\ notes' = WithFlag(notes, s, "anchor", on)
          /\ decoded' = DecodedFlag(decoded, notes, s, "anchor", on)
          /\ UNCHANGED <<cloud, mode, tool, runs, starts>>
      BY <1>2 DEF ToggleAnchor
    <2>2. on \in BOOLEAN /\ "anchor" \in Flags
      BY DEF Flags
    <2> HIDE DEF on
    <2>3. RowsTyped(notes') /\ decoded' \in [Slices -> SUBSET Flags]
      BY <2>1, <2>2, FlagTyped, DecodeTyped DEF TypeInv, SegmentTypes
    <2>4. Pending' = Pending
      BY <2>1 DEF Pending, runs
    <2>5. touches' \in 0 .. MaxTouches
      BY <2>1, BoundsAssumption DEF TypeInv, CountTypes
    <2> QED
      BY <2>1, <2>3, <2>4, <2>5
      DEF TypeInv, SegmentTypes, ToolTypes, RunTypes, CountTypes, tool, runs
  <1>3. ASSUME NEW points \in SUBSET Points, Edit(points) PROVE TypeInv'
    <2>1. /\ touches < MaxTouches /\ touches' = touches + 1
          /\ edits' = [changed |-> TRUE, points |-> edits.points \cup points]
          /\ UNCHANGED <<segment, mode, toolStart, ready, runs, starts>>
      BY <1>3 DEF Edit
    <2>2. edits' \in [changed : BOOLEAN, points : SUBSET Points]
      BY <2>1 DEF TypeInv, ToolTypes
    <2>3. Pending' = Pending
      BY <2>1 DEF Pending, runs
    <2>4. touches' \in 0 .. MaxTouches
      BY <2>1, BoundsAssumption DEF TypeInv, CountTypes
    <2> QED
      BY <2>1, <2>2, <2>3, <2>4
      DEF TypeInv, SegmentTypes, ToolTypes, RunTypes, CountTypes, segment, runs
  <1>4. ASSUME LeaveTool, MadeBy(cloud', -1 .. answers), RowsTyped(notes') PROVE TypeInv'
    <2>1. /\ mode = "tool" /\ mode' = "idle" /\ edits' = NoEdits /\ decoded' = Decode(notes')
          /\ toolStart' = NoSlice /\ UNCHANGED <<ready, runs, bounds>>
      BY <1>4 DEF LeaveTool, CleanupSegmentation
    <2>2. decoded' \in [Slices -> SUBSET Flags]
      BY <1>4, <2>1, DecodeTyped
    <2>3. Pending' = Pending
      BY <2>1 DEF Pending
    <2> QED
      BY <1>4, <2>1, <2>2, <2>3
      DEF TypeInv, SegmentTypes, ToolTypes, RunTypes, CountTypes, NoEdits, runs, bounds
  <1>5. ASSUME LeaveWithout PROVE TypeInv'
    BY <1>4, <1>5 DEF LeaveWithout, TypeInv, SegmentTypes
  <1>6. ASSUME LeaveKeeping PROVE TypeInv'
    <2> DEFINE anchored == Flagged(notes, toolStart, "anchor")
               marked   == WithManual(anchored, toolStart, edits.points)
               unused   == WithFlag(marked, toolStart, "used", FALSE)
    <2>1. /\ toolStart \in DOMAIN cloud
          /\ cloud' = MergeEdits(cloud, unused).cloud
          /\ notes' = MergeEdits(cloud, unused).notes
          /\ LeaveTool
      BY <1>6 DEF LeaveKeeping, SegmentInv, RunInv, Flagged
    <2>2. RowsTyped(anchored)
      BY MarksTyped DEF TypeInv, SegmentTypes, Flags
    <2> HIDE DEF anchored
    <2>3. RowsTyped(marked)
      BY <2>2, MarksTyped
    <2> HIDE DEF marked
    <2>4. RowsTyped(unused)
      BY <2>3, MarksTyped
    <2> HIDE DEF unused
    <2>5. MadeBy(cloud, -1 .. answers) /\ ByHand \in -1 .. answers
      BY DEF TypeInv, SegmentTypes, CountTypes, ByHand
    <2>6. MadeBy(cloud', -1 .. answers) /\ RowsTyped(notes')
      BY <2>1, <2>4, <2>5, EditsTyped
    <2> QED
      BY <1>4, <2>1, <2>6
  <1>7. ASSUME NEW computed \in BOOLEAN, NEW algo, NEW back, NEW forth, NEW smooth,
               DoSegmentation(computed, algo, back, forth, smooth)
        PROVE  TypeInv'
    <2>1. mode = "tool"
      BY <1>7 DEF DoSegmentation
    <2> QED
      BY <1>7, <2>1, StartTyped
  <1>8. ASSUME RunCompletes PROVE TypeInv'
    BY <1>8, FinishedTyped DEF RunCompletes
  <1>9. ASSUME RunStopsEarly PROVE TypeInv'
    BY <1>9, FinishedTyped DEF RunStopsEarly
  <1>10. ASSUME RunFails PROVE TypeInv'
    <2>1. /\ mode = "running" /\ answers' = answers + 1 /\ outcome' = "failed"
          /\ UNCHANGED <<cloud, notes>> /\ UNCHANGED <<toolStart, ready, bounds>>
          /\ ExecuteNext(queue, decoded)
      BY <1>10 DEF RunFails, bounds
    <2>2. -1 .. answers \subseteq -1 .. answers + 1
      BY DEF TypeInv, CountTypes
    <2>3. MadeBy(cloud', -1 .. answers + 1) /\ RowsTyped(notes')
      BY <2>1, <2>2 DEF TypeInv, SegmentTypes, MadeBy
    <2>4. decoded \in [Slices -> SUBSET Flags]
      BY DEF TypeInv, SegmentTypes
    <2> QED
      BY <2>1, <2>3, <2>4, AfterAnswer
  <1>11. CASE UNCHANGED vars
    BY <1>11 DEF vars, segment, tool, runs, bounds, Pending,
                 TypeInv, SegmentTypes, ToolTypes, RunTypes, CountTypes
  <1> QED
    BY <1>1, <1>2, <1>3, <1>5, <1>6, <1>7, <1>8, <1>9, <1>10, <1>11 DEF Next, Answer

\* The invariant of types holds throughout.
LEMMA TypeInvHolds == Spec => []TypeInv
  BY InitTypes, NextTyped, SegmentInvHolds, PTL DEF Spec

\* The types of a segment and its runs: in particular no more answers come than two for
\* every start, and the flags of every row are flags.
THEOREM SegmentTypeCorrect == Spec => []TypeOK
  <1>1. TypeInv /\ SegmentInv => TypeOK
    <2> SUFFICES ASSUME TypeInv, SegmentInv PROVE TypeOK
      OBVIOUS
    <2>1. DOMAIN cloud \subseteq Slices /\ DOMAIN notes \subseteq Slices
      BY SizesAssumption DEF SegmentInv, CoverInv, Covers, Slices
    <2>2. answers \in 0 .. 2 * MaxStarts /\ -1 .. answers \subseteq Makers
      <3>1. Pending \in Nat
        BY DEF TypeInv, RunTypes, Pending
      <3> QED
        BY <3>1, BoundsAssumption DEF TypeInv, CountTypes, Makers
    <2> QED
      BY <2>1, <2>2
      DEF TypeInv, SegmentTypes, ToolTypes, RunTypes, CountTypes, TypeOK, MadeBy, RowsTyped
  <1> QED
    BY <1>1, TypeInvHolds, SegmentInvHolds, PTL

-----------------------------------------------------------------------------
(* Curves made by hand.                                                    *)

\* Marking points as moved by hand marks their row, and takes no such mark away.
LEMMA ManualIsMarked ==
    ASSUME NEW n, NEW s, NEW points, NEW t,
           "manual" \in Marks(n, t) \/ (t = s /\ s \in DOMAIN n /\ points \cap Points # {})
    PROVE  "manual" \in Marks(WithManual(n, s, points), t)
  <1> DEFINE w == WithManual(n, s, points)
  <1>1. CASE s \notin DOMAIN n
    BY <1>1 DEF WithManual
  <1>2. CASE s \in DOMAIN n
    <2>1. /\ DOMAIN w = DOMAIN n
          /\ \A u \in DOMAIN n : u # s => w[u] = n[u]
          /\ \A p \in Points :
                w[s][p] = IF p \in points THEN n[s][p] \cup {"manual"} ELSE n[s][p]
      BY <1>2 DEF WithManual
    <2> HIDE DEF w
    <2>2. t \in DOMAIN n
      BY <1>2 DEF Marks
    <2>3. PICK p \in Points : "manual" \in n[t][p] \/ (t = s /\ p \in points)
      BY <2>2 DEF Marks
    <2>4. "manual" \in w[t][p]
      BY <2>1, <2>2, <2>3
    <2>5. Marks(w, t) = UNION {w[t][q] : q \in Points}
      BY <2>1, <2>2 DEF Marks
    <2>6. "manual" \in Marks(w, t)
      BY <2>4, <2>5
    <2> QED
      BY <2>6 DEF w
  <1> QED
    BY <1>1, <1>2

\* Taking a flag from a row leaves its other marks.
LEMMA OtherMarks ==
    ASSUME NEW n, NEW s, NEW flag, NEW t, NEW mark, mark # flag, mark \in Marks(n, t)
    PROVE  mark \in Marks(WithFlag(n, s, flag, FALSE), t)
  <1> DEFINE w == WithFlag(n, s, flag, FALSE)
  <1>1. CASE s \notin DOMAIN n
    BY <1>1 DEF WithFlag
  <1>2. CASE s \in DOMAIN n
    <2>1. /\ DOMAIN w = DOMAIN n
          /\ \A u \in DOMAIN n : u # s => w[u] = n[u]
          /\ \A p \in Points : w[s][p] = n[s][p] \ {flag}
      BY <1>2 DEF WithFlag
    <2> HIDE DEF w
    <2>2. t \in DOMAIN n
      BY DEF Marks
    <2>3. PICK p \in Points : mark \in n[t][p]
      BY <2>2 DEF Marks
    <2>4. mark \in w[t][p]
      BY <2>1, <2>2, <2>3
    <2>5. Marks(w, t) = UNION {w[t][q] : q \in Points}
      BY <2>1, <2>2 DEF Marks
    <2>6. mark \in Marks(w, t)
      BY <2>4, <2>5
    <2> QED
      BY <2>6 DEF w
  <1> QED
    BY <1>1, <1>2

\* What the merge of a changed curve makes the user's: the curve of the starting slice,
\* and only if points of it were moved.
LEMMA EditsHand ==
    ASSUME NEW c, NEW n, toolStart \in DOMAIN c, NEW s \in DOMAIN MergeEdits(c, n).cloud,
           MergeEdits(c, n).cloud[s] = ByHand
    PROVE  \/ s \in DOMAIN c /\ c[s] = ByHand
           \/ s = toolStart /\ edits.points # {}
  <1> DEFINE rows == [u \in {toolStart} |-> IF edits.points = {} THEN c[u] ELSE ByHand]
  <1>1. CASE MergeEdits(c, n).cloud = c
    BY <1>1
  <1>2. CASE MergeEdits(c, n).cloud = Merged(c, rows)
    <2>1. DOMAIN rows = {toolStart} /\ DOMAIN rows # {}
      OBVIOUS
    <2>2. rows[toolStart] = IF edits.points = {} THEN c[toolStart] ELSE ByHand
      OBVIOUS
    <2> HIDE DEF rows
    <2>3. PICK kept : kept \subseteq DOMAIN c /\ Merged(c, rows) = Over(rows, Restrict(c, kept))
      BY <2>1 DEF Merged
    <2>4. CASE s = toolStart
      <3>1. Merged(c, rows)[s] = rows[s]
        BY <2>1, <2>3, <2>4 DEF Over
      <3> QED
        BY <1>2, <2>2, <2>4, <3>1
    <2>5. CASE s # toolStart
      <3>1. s \in kept /\ Merged(c, rows)[s] = c[s]
        BY <1>2, <2>1, <2>3, <2>5 DEF Over, Restrict
      <3> QED
        BY <1>2, <2>3, <3>1
    <2> QED
      BY <2>4, <2>5
  <1>3. MergeEdits(c, n).cloud = c \/ MergeEdits(c, n).cloud = Merged(c, rows)
    BY DEF MergeEdits, MergedInto
  <1> QED
    BY <1>1, <1>2, <1>3

\* An answer takes no marks away outside the slices of its run.
LEMMA AnswerKeepsMarks ==
    ASSUME NEW slices, NEW how, OnSegmentationFinished(slices, how),
           NEW t, t \notin Reach(working)
    PROVE  Marks(notes, t) \subseteq Marks(notes', t)
  <1> DEFINE merged == MergedInto(cloud, notes, RowsOf(slices))
             used   == Flagged(merged.notes, UsedSlice(working), "used")
             first  == StartIndex(working)
  <1>1. notes' = IF first # working.target THEN Reset(used, first, working.target) ELSE used
    BY DEF OnSegmentationFinished, Flagged
  <1>2. Marks(merged.notes, t) = Marks(notes, t)
    BY MergedMarks
  <1>3. Marks(merged.notes, t) \subseteq Marks(used, t)
    <2> HIDE DEF merged
    <2>1. \/ Marks(used, t) = Marks(merged.notes, t)
          \/ Marks(used, t) = Marks(merged.notes, t) \cup {"used"}
      BY SetMarks
    <2> QED
      BY <2>1
  <1>4. t \notin Span(first, working.target)
    BY DEF Reach
  <1> HIDE DEF merged, used, first
  <1> QED
    BY <1>1, <1>2, <1>3, <1>4, ResetMarks

\* A complete answer leaves by hand only curves that were and that are none of its run's.
LEMMA CompleteHand ==
    ASSUME SegmentInv, TypeInv, RunCompletes,
           NEW s \in DOMAIN cloud', cloud'[s] = ByHand
    PROVE  s \in DOMAIN cloud /\ cloud[s] = ByHand /\ s \notin Reach(working)
  <1> DEFINE slices == Complete(working)
             rows   == RowsOf(slices)
  <1>1. mode = "running" /\ OnSegmentationFinished(slices, "complete")
    BY DEF RunCompletes
  <1>2. /\ working.from = toolStart /\ toolStart \in DOMAIN cloud /\ toolStart \notin Reach(working)
    BY <1>1 DEF SegmentInv, RunInv, KeptRuns, RunsFrom
  <1>3. CanMerge(cloud, notes)
    <2>1. DOMAIN cloud = DOMAIN notes
      BY DEF SegmentInv, CoverInv, Covers
    <2> QED
      BY <2>1 DEF CanMerge, Height
  <1>4. cloud' = Merged(cloud, rows)
    BY <1>1, <1>3 DEF OnSegmentationFinished, MergedInto
  <1>5. /\ DOMAIN rows = slices
        /\ \A t \in slices : rows[t] = IF t = toolStart THEN cloud[t] ELSE answers + 1
    BY <1>2 DEF RowsOf
  <1>6. answers + 1 # ByHand
    BY DEF TypeInv, CountTypes, ByHand
  <1>7. Reach(working) \subseteq slices
    BY DEF Complete
  <1> HIDE DEF rows, slices
  <1>8. CASE s \in slices
    <2>1. cloud'[s] = rows[s]
      BY <1>4, <1>5, <1>8 DEF Merged, Over
    <2> QED
      BY <1>2, <1>5, <1>6, <1>8, <2>1
  <1>9. CASE s \notin slices
    <2>1. s \in DOMAIN cloud /\ cloud'[s] = cloud[s]
      BY <1>4, <1>5, <1>9 DEF Merged, Over, Restrict
    <2> QED
      BY <1>7, <1>9, <2>1
  <1> QED
    BY <1>8, <1>9

\* Leaving the tool with the changed curve marks what it keeps.
LEMMA LeavingMarks ==
    ASSUME SegmentInv, TypeInv, HandIsMarked, LeaveKeeping
    PROVE  HandIsMarked'
  <1> DEFINE anchored == Flagged(notes, toolStart, "anchor")
             marked   == WithManual(anchored, toolStart, edits.points)
             unused   == WithFlag(marked, toolStart, "used", FALSE)
  <1>1. /\ toolStart \in DOMAIN cloud
        /\ cloud' = MergeEdits(cloud, unused).cloud
        /\ notes' = MergeEdits(cloud, unused).notes
    BY DEF LeaveKeeping, SegmentInv, RunInv, Flagged
  <1>2. toolStart \in DOMAIN anchored
    BY <1>1, SetMarks DEF SegmentInv, CoverInv, Covers
  <1> SUFFICES ASSUME NEW s \in DOMAIN cloud', cloud'[s] = ByHand
               PROVE  "manual" \in Marks(notes', s)
    BY DEF HandIsMarked
  <1>3. "manual" \in Marks(notes, s) \/ (s = toolStart /\ edits.points # {})
    <2> HIDE DEF unused
    <2> QED
      BY <1>1, EditsHand DEF HandIsMarked
  <1>4. "manual" \in Marks(notes, s) => "manual" \in Marks(anchored, s)
    BY SetMarks
  <1> HIDE DEF anchored
  <1>5. "manual" \in Marks(marked, s)
    BY <1>2, <1>3, <1>4, ManualIsMarked DEF TypeInv, ToolTypes
  <1> HIDE DEF marked
  <1>6. "manual" \in Marks(unused, s)
    BY <1>5, OtherMarks
  <1> HIDE DEF unused
  <1> QED
    BY <1>1, <1>6, EditsMarks

\* So does the start of runs.
LEMMA StartingMarks ==
    ASSUME SegmentInv, TypeInv, HandIsMarked,
           NEW computed, NEW algo, NEW back, NEW forth, NEW smooth,
           DoSegmentation(computed, algo, back, forth, smooth)
    PROVE  HandIsMarked'
  <1>1. CASE ~(computed /\ ready)
    <2>1. cloud' = cloud /\ notes' = notes
      BY <1>1 DEF DoSegmentation
    <2> QED
      BY <2>1 DEF HandIsMarked
  <1>2. CASE computed /\ ready
    <2> DEFINE merged   == MergeEdits(cloud, notes)
               anchored == Flagged(merged.notes, toolStart, "anchor")
    <2>1. /\ toolStart \in DOMAIN cloud
          /\ cloud' = merged.cloud
          /\ notes' = WithManual(anchored, toolStart, edits.points)
      BY <1>2 DEF DoSegmentation, SegmentInv, RunInv, Flagged
    <2>2. toolStart \in DOMAIN anchored
      <3>1. PICK a, b \in Slices : Covers(cloud, notes, a, b)
        BY DEF SegmentInv, CoverInv
      <3>2. toolStart \in a .. b
        BY <2>1, <3>1 DEF Covers
      <3>3. Covers(merged.cloud, merged.notes, a, b)
        BY <3>1, <3>2, EditsKeepCover
      <3>4. toolStart \in DOMAIN merged.notes
        BY <3>2, <3>3 DEF Covers
      <3> HIDE DEF merged
      <3> QED
        BY <3>4, SetMarks
    <2> SUFFICES ASSUME NEW s \in DOMAIN cloud', cloud'[s] = ByHand
                 PROVE  "manual" \in Marks(notes', s)
      BY DEF HandIsMarked
    <2>3. "manual" \in Marks(notes, s) \/ (s = toolStart /\ edits.points # {})
      BY <2>1, EditsHand DEF HandIsMarked
    <2>4. Marks(merged.notes, s) = Marks(notes, s)
      BY EditsMarks
    <2> HIDE DEF merged
    <2>5. "manual" \in Marks(notes, s) => "manual" \in Marks(anchored, s)
      BY <2>4, SetMarks
    <2> HIDE DEF anchored
    <2> QED
      BY <2>1, <2>2, <2>3, <2>5, ManualIsMarked DEF TypeInv, ToolTypes
  <1> QED
    BY <1>1, <1>2

\* A curve drawn by hand keeps the mark of it through edits, anchors, failures and complete
\* answers: it takes a run that stops early to clear the mark and leave the curve.
THEOREM UnmarkingComesFromEarlyRuns == Spec => OnlyEarlyRunsUnmark
  <1>1. SegmentInv /\ TypeInv /\ [Next]_vars =>
          [HandIsMarked /\ ~HandIsMarked' => mode = "running" /\ outcome' = "early"]_vars
    <2> SUFFICES ASSUME SegmentInv, TypeInv, Next, HandIsMarked, ~HandIsMarked'
                 PROVE  mode = "running" /\ outcome' = "early"
      OBVIOUS
    <2>1. ASSUME cloud' = cloud /\ notes' = notes PROVE FALSE
      BY <2>1 DEF HandIsMarked
    <2>2. ASSUME NEW s, ToggleAnchor(s) PROVE FALSE
      <3> DEFINE on == "anchor" \notin decoded[s]
      <3>1. on \in BOOLEAN /\ cloud' = cloud /\ notes' = WithFlag(notes, s, "anchor", on)
        BY <2>2 DEF ToggleAnchor
      <3> HIDE DEF on
      <3>2. \A t : "manual" \in Marks(notes, t) => "manual" \in Marks(notes', t)
        BY <3>1, FlagMarks
      <3> QED
        BY <3>1, <3>2 DEF HandIsMarked
    <2>3. ASSUME LeaveKeeping PROVE FALSE
      BY <2>3, LeavingMarks
    <2>4. ASSUME NEW computed, NEW algo, NEW back, NEW forth, NEW smooth,
                 DoSegmentation(computed, algo, back, forth, smooth)
          PROVE  FALSE
      BY <2>4, StartingMarks
    <2>5. ASSUME RunCompletes PROVE FALSE
      <3>1. OnSegmentationFinished(Complete(working), "complete")
        BY <2>5 DEF RunCompletes
      <3>2. ASSUME NEW s \in DOMAIN cloud', cloud'[s] = ByHand
            PROVE  "manual" \in Marks(notes', s)
        <4>1. s \in DOMAIN cloud /\ cloud[s] = ByHand /\ s \notin Reach(working)
          BY <2>5, <3>2, CompleteHand
        <4>2. Marks(notes, s) \subseteq Marks(notes', s)
          BY <3>1, <4>1, AnswerKeepsMarks
        <4> QED
          BY <4>1, <4>2 DEF HandIsMarked
      <3> QED
        BY <3>2 DEF HandIsMarked
    <2>6. ASSUME RunStopsEarly PROVE mode = "running" /\ outcome' = "early"
      BY <2>6 DEF RunStopsEarly, OnSegmentationFinished
    <2>7. ASSUME RunFails PROVE FALSE
      BY <2>1, <2>7 DEF RunFails
    <2>8. ASSUME NEW s, StartTool(s) PROVE FALSE
      BY <2>1, <2>8 DEF StartTool, segment
    <2>9. ASSUME NEW points, Edit(points) PROVE FALSE
      BY <2>1, <2>9 DEF Edit, segment
    <2>10. ASSUME LeaveWithout PROVE FALSE
      BY <2>1, <2>10 DEF LeaveWithout
    <2> QED
      BY <2>2, <2>3, <2>4, <2>5, <2>6, <2>7, <2>8, <2>9, <2>10 DEF Next, Answer
  <1> QED
    BY <1>1, SegmentInvHolds, TypeInvHolds, PTL DEF Spec, OnlyEarlyRunsUnmark
=============================================================================
