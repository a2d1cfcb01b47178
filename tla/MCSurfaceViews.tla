---------------------------- MODULE MCSurfaceViews ----------------------------
(***************************************************************************)
(* Three planes - the manual one, one along the axes and one across the    *)
(* segmentation - and the segmentation; a package with volumes of three    *)
(* scales, of two scales and without zarr data; two readable segmentation  *)
(* files and one that is not.                                              *)
(***************************************************************************)
EXTENDS SurfaceViews, TLC

CONSTANTS manual, seg, xy, segmentation, visible, fine, coarse, flat, a, b, bad, here

MCViews == <<manual, seg, xy, segmentation>>
MCSegPlanes == <<seg>>
MCScales == [v \in Volumes |-> IF v = fine THEN 3 ELSE IF v = coarse THEN 2 ELSE 0]
MCPackages == {<<fine, coarse, flat>>}

\* Segmentations that load differ in name only.
MCSymmetry == Permutations(Readable)
=============================================================================
