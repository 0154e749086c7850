------------------------------- MODULE MCMm -------------------------------
(* An instance of Mm for TLC: four blocks of the largest size, 2^2 pages. *)
EXTENDS Mm
=============================================================================
