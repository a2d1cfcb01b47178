------------------------- MODULE MCInterpolatedRead --------------------------
(***************************************************************************)
(* Two threads over three chunks, one more that is missing, and a cache    *)
(* that is full with three.                                                *)
(***************************************************************************)
EXTENDS InterpolatedRead, TLC

CONSTANTS t1, t2, c1, c2, c3, empty

MCThreads == {t1, t2}
MCKeys == {c1, c2, c3, empty}
MCMissing == {empty}

Symmetry == Permutations(MCThreads) \cup Permutations({c1, c2, c3})
=============================================================================
