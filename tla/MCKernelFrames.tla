--------------------------- MODULE MCKernelFrames ---------------------------
(* Two usable regions with a reserved hole between them; the window over   *)
(* RAM (frames 0..11) is mapped with huge entries, the device frame 14 and *)
(* the identity addresses are not.                                         *)
EXTENDS KernelFrames

MCRegions ==
  << [start |-> 0, end |-> 1, kind |-> "Reserved"],
     [start |-> 1, end |-> 6, kind |-> "Usable"],
     [start |-> 6, end |-> 7, kind |-> "Reserved"],
     [start |-> 7, end |-> 10, kind |-> "Usable"] >>
MCOffset == 32
MCHugePages == 32 .. 43
MCBootTables == {<<2, 2>>, <<2, 3>>} \cup {<<1, i>> : i \in 8 .. 10}
MCHeapBase == 64
MCSpans == <<4, 16>>
MCFillPages == [u \in {"dma4", "dma8"} |-> IF u = "dma4" THEN 1 ELSE 4]
MCAddrs == {5, 14}
MCFreeAddrs == {0, 5, 7, 8, 9}
MCCounts == {1, 2}

\* The state after a physfree that is not LIFO is checked and not continued:
\* the allocator promises nothing from there on.
LifoOnly == disciplined
=============================================================================
