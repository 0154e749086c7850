----------------------------- MODULE MCProcess -----------------------------
(* An instance of Process for TLC: the VMM and one process, whose pid is  *)
(* used again, with two threads.                                          *)
EXTENDS Process, TLC

Symmetry == Permutations(Threads)
=============================================================================
