------------------------------ MODULE MCAhciHba -----------------------------
(* Instances of AhciHba for TLC: constants are given in the .cfg file. *)
EXTENDS AhciHba
=============================================================================
