--------------------------- MODULE MCAccountLocks ---------------------------
(* Every group of at most two transactions over the keys, for every caller.  *)
EXTENDS AccountLocks

MCGroup == {{}} \cup {{s, t} : s, t \in TxSets}
=============================================================================
