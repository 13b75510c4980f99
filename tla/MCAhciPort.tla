----------------------------- MODULE MCAhciPort -----------------------------
(* One-sector frames, buffers of two sectors and commands of four, so that *)
(* a request of six sectors has three buffers and two commands.            *)
EXTENDS AhciPort

MCRequests ==
  { [sector |-> 0, len |-> 2],      \* one sector, as start_driver asks for
    [sector |-> 2, len |-> 11],     \* six sectors, the last one partly
    [sector |-> 12, len |-> 3] }    \* a 48-bit LBA, two sectors
=============================================================================
