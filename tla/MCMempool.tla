----------------------------- MODULE MCMempool -----------------------------
(* An instance of Mempool for TLC: pages of 4 units, memory for 2 blocks, *)
(* and the arguments of the storage, vpn and idman clients (0, 1, true).  *)
EXTENDS Mempool
\* As if mempool_new had cleared keep: the finding does not need a stray value.
MCKeeps == {0}
=============================================================================
