------------------------- MODULE MCSegmentationRun -------------------------
(* A volume of five slices; a segment drawn on one of them, one between two  *)
(* curves drawn by hand, and one that outgrew its annotations.              *)
EXTENDS SegmentationRun

MCSegments == {
    [reach |-> {2}, noted |-> {2}, drawn |-> {2}],
    [reach |-> 0 .. 4, noted |-> 0 .. 4, drawn |-> {0, 4}],
    [reach |-> 1 .. 3, noted |-> 2 .. 2, drawn |-> {2}]}
=============================================================================
