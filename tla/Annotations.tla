---------------------------- MODULE Annotations ----------------------------
(***************************************************************************)
(* The point cloud of a segment and the annotation cloud kept beside it:   *)
(* the methods of SegmentationStruct (src/apps/VC/SegmentationStruct.hpp)  *)
(* that change one or both.  Both clouds are lists of rows in the order of *)
(* their slices, so each is a function from its slices to its rows.        *)
(***************************************************************************)
EXTENDS Integers, FiniteSetsExt, Functions

CONSTANTS
    NumSlices,   \* slices of the volume
    Width        \* points of a row

\* A curve has at least two points: its ends.
ASSUME SizesAssumption == NumSlices \in Nat \ {0} /\ Width \in Nat \ {0, 1}

Slices == 0 .. NumSlices - 1
Points == 1 .. Width
Flags  == {"anchor", "manual", "used"}

\* Rows without marks for the slices from a to b.
Blank(a, b) == [s \in a .. b |-> [p \in Points |-> {}]]

\* The rows of one cloud, and those of another for the slices it leaves out.
Over(rows, others) ==
    [s \in DOMAIN rows \cup DOMAIN others |->
        IF s \in DOMAIN rows THEN rows[s] ELSE others[s]]

First(rows)  == Min(DOMAIN rows)
Last(rows)   == Max(DOMAIN rows)
Height(rows) == Cardinality(DOMAIN rows)

\* The slices from a to b, whichever comes first.
Span(a, b) == {s \in Slices : (a <= s /\ s <= b) \/ (b <= s /\ s <= a)}

----------------------------------------------------------------------------
(* The point cloud.                                                        *)

\* No two rows have another slice between them.
Contiguous(rows) == DOMAIN rows = Span(First(rows), Last(rows))

\* A merge is refused when the clouds do not have the same height.
CanMerge(cloud, notes) == Height(cloud) = Height(notes)

\* Mutant: the first row beyond the new ones is dropped.
MergedTooFar(cloud, rows) ==
    IF DOMAIN rows = {} THEN cloud
    ELSE LET kept == {s \in DOMAIN cloud : s < First(rows) \/ s > Last(rows) + 1}
         IN  Over(rows, Restrict(cloud, kept))

\* Rows below the first new one stay, then come the new ones, then the rows
\* beyond the last new one; what lay between is gone.
Merged(cloud, rows) ==
    IF DOMAIN rows = {} THEN cloud
    ELSE LET kept == {s \in DOMAIN cloud : s < First(rows) \/ s > Last(rows)}
         IN  Over(rows, Restrict(cloud, kept))

----------------------------------------------------------------------------
(* The annotation cloud: for every point of a row, the flags set there.    *)

\* Mutant: rows are always added behind.
AlwaysBehind(cloud, notes, rows) == Last(notes) + 1

\* The slice of the first of the rows that a merge adds to the annotations:
\* in front of the cloud if the row found there lies beyond the first new one.
FirstAdded(cloud, notes, rows) ==
    LET beyond == {s \in DOMAIN cloud : First(rows) <= s}
    IN  IF beyond # {} /\ First(rows) < Min(beyond)
        THEN First(rows)
        ELSE Last(notes) + 1

\* Mutant: the row of the starting slice is counted among the new ones.
GrownShort(cloud, notes, rows) ==
    IF DOMAIN rows = {} THEN notes
    ELSE LET first == FirstAdded(cloud, notes, rows)
             gain  == Height(Merged(cloud, rows)) - Height(cloud)
         IN  Over(notes, Blank(first, first + gain - 2))

\* A merge adds as many blank rows as the point cloud gains.
Grown(cloud, notes, rows) ==
    IF DOMAIN rows = {} THEN notes
    ELSE LET first == FirstAdded(cloud, notes, rows)
             gain  == Height(Merged(cloud, rows)) - Height(cloud)
         IN  Over(notes, Blank(first, first + gain - 1))

WithFlag(notes, s, flag, on) ==
    IF s \notin DOMAIN notes THEN notes
    ELSE [notes EXCEPT ![s] =
            [p \in Points |-> IF on THEN @[p] \cup {flag} ELSE @[p] \ {flag}]]

\* Mutant: the indices of the points are taken to begin one further.
ManualShifted(notes, s, points) ==
    IF s \notin DOMAIN notes THEN notes
    ELSE [notes EXCEPT ![s] =
            [p \in Points |-> IF p - 1 \in points THEN @[p] \cup {"manual"} ELSE @[p]]]

WithManual(notes, s, points) ==
    IF s \notin DOMAIN notes THEN notes
    ELSE [notes EXCEPT ![s] =
            [p \in Points |-> IF p \in points THEN @[p] \cup {"manual"} ELSE @[p]]]

\* The points cleared by a reset: it runs from the near end of the first slice
\* and stops before the far end of the last one.
ResetPoints(from, to) ==
    (Span(from, to) \X Points) \ {<<to, IF from < to THEN Width ELSE 1>>}

Reset(notes, from, to) ==
    IF from \notin DOMAIN notes THEN notes
    ELSE [s \in DOMAIN notes |->
            [p \in Points |-> IF <<s, p>> \in ResetPoints(from, to)
                              THEN notes[s][p] \ Flags
                              ELSE notes[s][p]]]

\* The reset walks over points it takes to be there.
ResetFits(notes, from, to) ==
    from \in DOMAIN notes => Span(from, to) \subseteq DOMAIN notes

\* What a row says of its slice: a flag holds if a point carries it.
Marks(notes, s) ==
    IF s \in DOMAIN notes THEN UNION {notes[s][p] : p \in Points} ELSE {}

\* A merge changes both clouds.
MergedInto(cloud, notes, rows) ==
    IF CanMerge(cloud, notes)
    THEN [cloud |-> Merged(cloud, rows), notes |-> Grown(cloud, notes, rows)]
    ELSE [cloud |-> cloud, notes |-> notes]

\* The decoded annotations the window shows and looks for anchors in.
Decode(notes) == [s \in Slices |-> Marks(notes, s)]

DecodedFlag(decoded, notes, s, flag, on) ==
    IF s \notin DOMAIN notes THEN decoded
    ELSE [decoded EXCEPT ![s] = IF on THEN @ \cup {flag} ELSE @ \ {flag}]

\* Annotations of another size than the point cloud get blank rows at their ends
\* when the segment is loaded.
Aligned(cloud, notes) ==
    IF Height(cloud) = Height(notes) THEN notes
    ELSE LET before == First(notes) - First(cloud)
             after  == Last(cloud) - Last(notes)
             Abs(d) == IF d < 0 THEN -d ELSE d
             front  == Blank(First(cloud), First(cloud) + Abs(before) - 1)
             back   == Blank(Last(notes) + 1, Last(notes) + Abs(after))
         IN  Over(Over(notes, front), back)

----------------------------------------------------------------------------
(* The nearest anchors.                                                    *)

NoSlice == -1

NearestLower(decoded, first, s) ==
    LET found == {t \in first .. s - 1 : "anchor" \in decoded[t]}
    IN  IF found = {} THEN NoSlice ELSE Max(found)

NearestHigher(decoded, s) ==
    LET found == {t \in s + 1 .. NumSlices - 1 : "anchor" \in decoded[t]}
    IN  IF found = {} THEN NoSlice ELSE Min(found)
=============================================================================
