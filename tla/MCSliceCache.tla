---------------------------- MODULE MCSliceCache ----------------------------
(***************************************************************************)
(* SliceCache on two threads, two slices and two images, with loads that   *)
(* may throw.                                                              *)
(***************************************************************************)
EXTENDS SliceCache

CONSTANTS t1, t2, s1, s2, old, new

TwoThreads == {t1, t2}
TwoSlices == {s1, s2}
MCImages == {old, new, Torn}
MCCapacities == 0..2
=============================================================================
