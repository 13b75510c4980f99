------------------------------- MODULE Option -------------------------------
(* What the modules use of Option: a value that is none of those it stands *)
(* beside.  A lock that nobody holds has it as its owner.                  *)
CONSTANT None
=============================================================================
