---------------------------- MODULE MCPohService ----------------------------
(* Proof of history with batches of hashes that do not divide into ticks.     *)
EXTENDS PohService
=============================================================================
