------------------------- MODULE MCOperationRecovery -------------------------
(* The request manager with its store, sweeper, crashes and restarts. *)
EXTENDS OperationRecovery, TLC

Upgrades == Key \X {TRUE} \X {"upgrade"}

Symmetry == Permutations(RPC) \cup Permutations(Op)
=============================================================================
