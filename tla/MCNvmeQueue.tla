---------------------------- MODULE MCNvmeQueue ----------------------------
(* An instance of NvmeQueue for TLC: rings of three entries that wrap. *)
EXTENDS NvmeQueue
=============================================================================
