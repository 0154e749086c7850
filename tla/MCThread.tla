------------------------------ MODULE MCThread ------------------------------
(* Instances of Thread for TLC.  Both builds of thread.c are in one state  *)
(* graph, the first state says which; the stacks of the heap are alike.    *)
EXTENDS Thread, TLC

CONSTANTS b0, b1
MCBootStack == [c \in Cpus |-> IF c = 0 THEN b0 ELSE b1]
Symmetry == Permutations(Heap)
=============================================================================
