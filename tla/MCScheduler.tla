---------------------------- MODULE MCScheduler ----------------------------
(* Every batch of at most MaxBatch transactions over the keys.               *)
EXTENDS Scheduler

CONSTANT MaxBatch

MCBatch == BoundedSeq(TransactionSets, MaxBatch)
=============================================================================
