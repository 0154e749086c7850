------------------------------- MODULE MCMmio -------------------------------
(* An instance of Mmio for TLC: 8 addresses with two buckets of 2 below    *)
(* the last one.                                                           *)
EXTENDS Mmio

R(g, n, u) == [gphys |-> g, len |-> n, unlocked |-> u]
A(g, n) == [gphys |-> g, len |-> n]
\* One bucket, a range over a bucket boundary, and its neighbour above.
MCRanges == {R(0, 2, FALSE), R(1, 3, FALSE), R(4, 1, TRUE)}
MCAccesses == {A(0, 1), A(1, 4)}
Symmetry == Permutations(Cpus) \cup Permutations(Handles)
=============================================================================
