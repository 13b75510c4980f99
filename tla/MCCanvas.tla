------------------------------ MODULE MCCanvas ------------------------------
(* Instances of Canvas for TLC. *)
EXTENDS Canvas

MCColors == {<<1, 0, 0>>}
MCLogColor == <<1, 1, 1>>
=============================================================================
