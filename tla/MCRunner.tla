------------------------------ MODULE MCRunner ------------------------------
(* The instance of Runner for TLC. *)
EXTENDS Runner
=============================================================================
