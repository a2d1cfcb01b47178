----------------------------- MODULE MCPrefetch -----------------------------
(***************************************************************************)
(* Prefetch on a volume of six slices, with batches narrower than a round. *)
(***************************************************************************)
EXTENDS Prefetch

MCSteps == {1, 2}
=============================================================================
