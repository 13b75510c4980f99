-------------------------- MODULE MCXhciController --------------------------
(* Instances of XhciController for TLC: constants are given in the .cfg. *)
EXTENDS XhciController
=============================================================================
