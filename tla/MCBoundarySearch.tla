------------------------- MODULE MCBoundarySearch -------------------------
(***************************************************************************)
(* BoundarySearch over small widths.                                       *)
(***************************************************************************)
EXTENDS BoundarySearch

\* A quote of size 0 has no output.
Intervals == {lo .. hi : lo \in 1 .. MAX, hi \in 0 .. MAX}

\* Every interval, every two intervals, and every set of small sizes.
Shapes == {i \cup j : i, j \in Intervals} \cup SUBSET (1 .. 12)
=============================================================================
