------------------------------ MODULE MCTimer ------------------------------
(* Instances of Timer for TLC. *)
EXTENDS Timer, TLC

\* Neither the timers nor the clients are ordered by anything but the lists.
Symmetry == Permutations(Timers) \cup Permutations(Clients)
=============================================================================
