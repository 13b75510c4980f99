---------------------------- MODULE MCKernelLocks ---------------------------
(* Instances of KernelLocks for TLC: constants are given in the .cfg files. *)
EXTENDS KernelLocks
=============================================================================
