------------------------- MODULE MCExecutionManager -------------------------
(* Model values for the runs of ExecutionManager. *)
EXTENDS ExecutionManager, TLC

SyncerSymmetry == Permutations(Syncers)
=============================================================================
