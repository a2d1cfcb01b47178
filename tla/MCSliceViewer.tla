--------------------------- MODULE MCSliceViewer ----------------------------
(***************************************************************************)
(* SliceViewer with two slices and two settings.                           *)
(***************************************************************************)
EXTENDS SliceViewer

CONSTANTS s1, s2, x1, x2

MCSlices == {s1, s2}
MCSettings == {x1, x2}
=============================================================================
