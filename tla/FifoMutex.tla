----------------------------- MODULE FifoMutex -----------------------------
(***************************************************************************)
(* What a ticket lock promises: at most one processor holds it, and the    *)
(* processors get it in the order in which they asked for it.              *)
(***************************************************************************)
EXTENDS Sequences, SequencesExt

CONSTANT Cpus

VARIABLES
    queue,      \* those that asked for the lock, in that order
    holders     \* who holds it

vars == <<queue, holders>>

Init == queue = <<>> /\ holders = {}

Ask(c) ==
    /\ ~Contains(queue, c)
    /\ queue' = Append(queue, c)
    /\ UNCHANGED holders

Get(c) ==
    /\ queue # <<>> /\ Head(queue) = c
    /\ holders = {}
    /\ holders' = {c}
    /\ UNCHANGED queue

Release(c) ==
    /\ holders = {c}
    /\ queue' = Tail(queue)
    /\ holders' = {}

Next == \E c \in Cpus : Ask(c) \/ Get(c) \/ Release(c)

Spec == Init /\ [][Next]_vars
=============================================================================
