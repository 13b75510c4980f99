---------------------------- MODULE MCAcpiScheme ----------------------------
(* Instances of AcpiScheme for TLC: two clients and two descriptors; u64   *)
(* and isize have two bits.                                               *)
EXTENDS AcpiScheme

Call(path, rdonly, bits, uid) ==
  [path |-> path, flags |-> [rdonly |-> rdonly, bits |-> bits], uid |-> uid]

(* The calls that succeed, and one for every error that open returns. *)
MCOpenCalls ==
  {Call(path, TRUE, {"O_DIRECTORY"}, 0) : path \in {"", "rxsdt", "kstop"}}
    \cup {Call("kstop", FALSE, {"O_STAT"}, 0)}
    \cup {Call("", TRUE, {"O_DIRECTORY"}, 1), Call("", TRUE, {"O_CREAT"}, 0),
          Call("", TRUE, {"O_SYMLINK"}, 0), Call("", FALSE, {}, 0),
          Call("rxsdt", TRUE, {}, 0), Call("other", TRUE, {}, 0)}

MCPositions == {-2, -1, 1}
=============================================================================
