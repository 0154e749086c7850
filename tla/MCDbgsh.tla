------------------------------ MODULE MCDbgsh ------------------------------
(* An instance of Dbgsh for TLC: a few characters each way. *)
EXTENDS Dbgsh
=============================================================================
