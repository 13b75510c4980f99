----------------------------- MODULE FileTable ------------------------------
(***************************************************************************)
(* What the handles of a scheme promise their users: a file descriptor is  *)
(* issued once, names one file until it is closed, and the reads between   *)
(* two seeks return the file's bytes one after the other, each once.       *)
(***************************************************************************)
EXTENDS Integers, Sequences

CONSTANTS Fds, Kinds, Offsets, Length(_)

VARIABLES
  files,   \* open descriptors: kind, offset and what was read since the last seek
  issued   \* descriptors issued so far

Init == files = [f \in {} |-> 0] /\ issued = {}

Open(f, k) ==
  /\ f \notin issued
  /\ issued' = issued \cup {f}
  /\ files' = [g \in DOMAIN files \cup {f} |->
                 IF g = f THEN [kind |-> k, offset |-> 0, got |-> <<>>] ELSE files[g]]

Close(f) ==
  /\ f \in DOMAIN files
  /\ files' = [g \in DOMAIN files \ {f} |-> files[g]]
  /\ UNCHANGED issued

(* A byte of a file is the number of its place, counted from 1. *)
Read(f) ==
  /\ f \in DOMAIN files
  /\ \E n \in 1 .. Length(files[f].kind) :
       /\ files[f].offset + n <= Length(files[f].kind)
       /\ files' = [files EXCEPT ![f] =
                      [kind |-> @.kind, offset |-> @.offset + n,
                       got |-> @.got \o [i \in 1 .. n |-> files[f].offset + i]]]
  /\ UNCHANGED issued

Seek(f) ==
  /\ f \in DOMAIN files
  /\ \E n \in Offsets :
       files' = [files EXCEPT ![f] = [kind |-> @.kind, offset |-> n, got |-> <<>>]]
  /\ UNCHANGED issued

Next ==
  \E f \in Fds :
    \/ \E k \in Kinds : Open(f, k)
    \/ Close(f) \/ Read(f) \/ Seek(f)

Spec == Init /\ [][Next]_<<files, issued>>
=============================================================================
