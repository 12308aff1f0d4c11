-------------------------- MODULE MCOperationLock --------------------------
(* The operation lock on a small set of interchangeable processes.         *)
EXTENDS OperationLock, TLC

Symmetry == Permutations(Procs)
=============================================================================
