----------------------------- MODULE MCCpuTime -----------------------------
(* An instance of CpuTime for TLC: the boot processor and one more. *)
EXTENDS CpuTime
=============================================================================
