------------------------------ MODULE MCTools ------------------------------
(* Two segments, in the list's order: one with a row on each of two slices  *)
(* and a new one.                                                           *)
EXTENDS Tools

TwoSegments == <<"s1", "s2">>
Rows == [s1 |-> {1, 2}, s2 |-> {}]

=============================================================================
