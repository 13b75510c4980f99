---------------------------- MODULE KernelFrames ----------------------------
(***************************************************************************)
(* Physical frames and page mappings: the bump allocator KernelFrameAlloc, *)
(* the map_page!/unmap_page! macros, heap_init and every kernel service    *)
(* that obtains frames from the allocator or edits the page table.         *)
(*                                                                         *)
(* Frames and pages are numbers: address \div 4096.  A service that makes  *)
(* several allocator or page-table calls leaves the remaining ones, in     *)
(* order, in `todo'; nothing else runs until the list is empty.            *)
(***************************************************************************)
EXTENDS Integers, Sequences, FiniteSets

CONSTANTS
  Regions,     \* boot_info.memory_regions: sequence of [start, end, kind]
  Offset,      \* get_phys_offset(), the start of the physical memory window
  HugePages,   \* pages the bootloader mapped with 2 MiB entries
  BootTables,  \* page tables that exist when the kernel is entered
  HeapBase,    \* BEGIN_HEAP
  HeapLen,     \* HEAP_LEN
  Spans,       \* pages below a table of each level: <<512, 512^2, 512^3>>
  FillPages,   \* BUDDY_SIZE: pages zeroed by an allocation of each order
  PageBytes,   \* 4096
  Addrs,       \* frame numbers passed to the mapping services
  FreeAddrs,   \* frame numbers passed to physfree
  Counts       \* numbers of pages passed to the services

ASSUME RegionsOK ==
  /\ Regions \in Seq([start : Nat, end : Nat, kind : {"Usable", "Reserved"}])
  /\ \A i \in DOMAIN Regions : Regions[i].start <= Regions[i].end
  /\ \A i, j \in DOMAIN Regions : i < j => Regions[i].end <= Regions[j].start

ASSUME ConstantsOK ==
  /\ Offset \in Nat /\ HeapBase \in Nat /\ HeapLen \in Nat
  /\ Spans \in Seq(Nat \ {0}) /\ PageBytes \in Nat \ {0}
  /\ BootTables \subseteq (DOMAIN Spans) \X Int
  /\ FillPages \in [{"dma4", "dma8"} -> Nat \ {0}]
  /\ Addrs \subseteq Nat /\ FreeAddrs \subseteq Nat /\ Counts \subseteq Nat

VARIABLES
  next,         \* KernelFrameAlloc.next
  tables,       \* page tables present
  pt,           \* 4 KiB mappings the kernel installed: page -> frame
  heap,         \* heap pages mapped so far by heap_init_inner
  todo,         \* calls the running service still has to make
  panicked,     \* the panic handler runs
  grants,       \* history: what was handed out and not returned, while disciplined
  disciplined,  \* history: every physfree returned the newest physalloc grant
  wiped         \* history: frames of other grants that pmm_alloc zeroed

vars == <<next, tables, pt, heap, todo, panicked, grants, disciplined, wiped>>

-----------------------------------------------------------------------------
(* The iterator usable() of the allocator: a cell is a frame of a usable   *)
(* region, and nth(n) is the frame of the cell with n cells before it      *)
(* (None when n is not in Slots).                                          *)
Cells ==
  {c \in (DOMAIN Regions) \X (UNION {Regions[i].start .. Regions[i].end : i \in DOMAIN Regions}) :
     /\ Regions[c[1]].kind = "Usable"
     /\ Regions[c[1]].start <= c[2] /\ c[2] < Regions[c[1]].end}

Earlier(b, c) == b[1] < c[1] \/ (b[1] = c[1] /\ b[2] < c[2])

Before(c) == {b \in Cells : Earlier(b, c)}

Slots == {Cardinality(Before(c)) : c \in Cells}

usable == [n \in Slots |-> (CHOOSE c \in Cells : Cardinality(Before(c)) = n)[2]]

HasNth(n) == n \in Slots

nth(n) == usable[n]

Window(f) == Offset + f

HeapPages == HeapBase .. (HeapBase + HeapLen - 1)

(* The bootloader has mapped the window over all of the memory.  The heap  *)
(* lies outside it, outside the identity addresses of devices, and outside *)
(* what pmm_alloc zeroes after the end of memory.                          *)
ASSUME LayoutOK ==
  /\ \A n \in Slots : \A f \in 0 .. nth(n) : Window(f) \in HugePages
  /\ \A f \in Addrs : f \notin HeapPages /\ Window(f) \notin HeapPages
  /\ \A f \in Addrs, n \in Counts : \A i \in 1 .. (n - 1) : f + i \notin HeapPages
  /\ \A n \in Slots, use \in {"dma4", "dma8"} :
       \A f \in nth(n) .. (nth(n) + FillPages[use] - 1) : Window(f) \notin HeapPages

Uses == {"heap", "table", "dma4", "dma8", "object", "phys"}

Grant(first, last, use) == [first |-> first, last |-> last, use |-> use]

(* allocate_multiple hands out an inclusive range of frame numbers, the    *)
(* other services the frames of single allocator slots.                    *)
Frames(g) ==
  IF g.use = "phys"
  THEN nth(g.first) .. nth(g.last)
  ELSE {nth(i) : i \in g.first .. g.last}

Map(page, frame) == [op |-> "map", page |-> page, frame |-> frame]
Unmap(page)      == [op |-> "unmap", page |-> page]
Read(page)       == [op |-> "read", page |-> page]
Write(page)      == [op |-> "write", page |-> page]
Object           == [op |-> "object"]
Fill(slot, use)  == [op |-> "fill", slot |-> slot, use |-> use]

-----------------------------------------------------------------------------
Init ==
  /\ next = 0
  /\ tables = BootTables
  /\ pt = [p \in {} |-> 0]
  /\ heap = 0
  /\ todo = <<>>
  /\ panicked = FALSE
  /\ grants = <<>>
  /\ disciplined = TRUE
  /\ wiped = {}

Running == ~panicked /\ todo = <<>>

(* A service may be called once the heap is up. *)
Ready == Running /\ heap = HeapLen

(* The history is kept as long as frees are LIFO. *)
Log(g) == grants' = IF disciplined THEN Append(grants, g) ELSE grants

AllocateFrameSkipsSlot(use) ==
  /\ next' = next + 2
  /\ panicked' = ~HasNth(next)
  /\ IF HasNth(next) THEN Log(Grant(next, next, use)) ELSE UNCHANGED grants

AllocateFrameKeepsNext(use) ==
  /\ next' = next
  /\ panicked' = ~HasNth(next)
  /\ IF HasNth(next) THEN Log(Grant(next, next, use)) ELSE UNCHANGED grants

(* allocate_frame().expect("Out of memory"): the slot is consumed even     *)
(* when the iterator is exhausted.                                         *)
AllocateFrame(use) ==
  /\ next' = next + 1
  /\ panicked' = ~HasNth(next)
  /\ IF HasNth(next) THEN Log(Grant(next, next, use)) ELSE UNCHANGED grants

TablesOf(p) == {<<l, p \div Spans[l]>> : l \in DOMAIN Spans}

Missing(p) == TablesOf(p) \ tables

(* Mapper::map_to (external): allocates the missing tables, then writes    *)
(* the entry.  When a table cannot be allocated every caller panics.       *)
MapTo(p, f) ==
  LET k == Cardinality(Missing(p)) IN
  IF \A i \in next .. (next + k - 1) : HasNth(i)
  THEN /\ next' = next + k
       /\ tables' = tables \cup TablesOf(p)
       /\ pt' = [q \in DOMAIN pt \cup {p} |-> IF q = p THEN f ELSE pt[q]]
       /\ IF k = 0 THEN UNCHANGED grants ELSE Log(Grant(next, next + k - 1, "table"))
       /\ panicked' = FALSE
  ELSE /\ \E i \in next .. (next + k - 1) :
            /\ ~HasNth(i) /\ \A j \in next .. (i - 1) : HasNth(j)
            /\ next' = i + 1
       /\ panicked' = TRUE
       /\ UNCHANGED <<tables, pt, grants>>

MappedHugeOnly(p) == p \in HugePages

Mapped(p) == p \in HugePages \/ p \in DOMAIN pt

(* map_page!: an already mapped page is skipped, no memory is a panic. *)
MapPage ==
  /\ ~panicked /\ todo # <<>> /\ Head(todo).op = "map"
  /\ IF Mapped(Head(todo).page)
     THEN UNCHANGED <<next, tables, pt, grants, panicked>>
     ELSE MapTo(Head(todo).page, Head(todo).frame)
  /\ todo' = Tail(todo)
  /\ UNCHANGED <<heap, disciplined, wiped>>

(* unmap_page!: the frame behind the page is not given back. *)
UnmapPage ==
  /\ ~panicked /\ todo # <<>> /\ Head(todo).op = "unmap"
  /\ pt' = IF Head(todo).page \in HugePages THEN pt
           ELSE [q \in DOMAIN pt \ {Head(todo).page} |-> pt[q]]
  /\ todo' = Tail(todo)
  /\ UNCHANGED <<next, tables, heap, panicked, grants, disciplined, wiped>>

-----------------------------------------------------------------------------
(* The page range of heap_init_inner includes the page of the last byte. *)
HeapPagesLeft == heap < HeapLen

(* heap_init: one frame per heap page; any error of map_to is a panic. *)
HeapAlloc ==
  /\ Running /\ HeapPagesLeft
  /\ AllocateFrame("heap")
  /\ todo' = IF HasNth(next)
             THEN <<[op |-> "heap", page |-> HeapBase + heap, frame |-> nth(next)]>>
             ELSE <<>>
  /\ UNCHANGED <<tables, pt, heap, disciplined, wiped>>

HeapMap ==
  /\ ~panicked /\ todo # <<>> /\ Head(todo).op = "heap"
  /\ IF Mapped(Head(todo).page)
     THEN panicked' = TRUE /\ UNCHANGED <<next, tables, pt, grants>>
     ELSE MapTo(Head(todo).page, Head(todo).frame)
  /\ heap' = IF panicked' THEN heap ELSE heap + 1
  /\ todo' = Tail(todo)
  /\ UNCHANGED <<disciplined, wiped>>

(* pmm_alloc: one frame whatever the order; the larger order maps two      *)
(* pages of the window and zeroes BUDDY_SIZE[2] bytes.                     *)
PmmCallsIdentity(use) ==
  <<Map(nth(next), nth(next)), Fill(next, use)>>

PmmCalls(use) ==
  (IF use = "dma4"
   THEN <<Map(Window(nth(next)), nth(next))>>
   ELSE <<Map(Window(nth(next)), nth(next)), Map(Window(nth(next) + 1), nth(next) + 1)>>)
  \o <<Fill(next, use)>>

PmmAlloc(use) ==
  /\ Ready
  /\ AllocateFrame(use)
  /\ todo' = IF HasNth(next) THEN PmmCalls(use) ELSE <<>>
  /\ UNCHANGED <<tables, pt, heap, disciplined, wiped>>

(* HbaPort::start: pmm_alloc(Size8KiB), then two map_page! whose physical  *)
(* argument is the window address and whose virtual one is the frame's.    *)
PortStart ==
  /\ Ready
  /\ AllocateFrame("dma8")
  /\ todo' = IF HasNth(next)
             THEN PmmCalls("dma8") \o
                  <<Map(nth(next), Window(nth(next))), Map(nth(next) + 1, Window(nth(next) + 1))>>
             ELSE <<>>
  /\ UNCHANGED <<tables, pt, heap, disciplined, wiped>>

(* slice.fill(0) through the window; a page of it that is not mapped is a  *)
(* write fault, hence a panic.                                             *)
ZeroFill ==
  /\ ~panicked /\ todo # <<>> /\ Head(todo).op = "fill"
  /\ LET f      == nth(Head(todo).slot)
         range  == f .. (f + FillPages[Head(todo).use] - 1)
         filled == {g \in range : \A h \in f .. g : Mapped(Window(h))}
         behind == {IF Window(g) \in HugePages THEN g ELSE pt[Window(g)] : g \in filled}
         others == UNION {Frames(grants[i]) : i \in {j \in DOMAIN grants :
                                                       grants[j].first # Head(todo).slot}}
     IN /\ wiped' = wiped \cup (others \cap behind)
        /\ panicked' = (filled # range)
  /\ todo' = Tail(todo)
  /\ UNCHANGED <<next, tables, pt, heap, grants, disciplined>>

(* addralloc::<T>: one frame and one window page per 4 KiB of T. *)
AddrAlloc(n) ==
  /\ Ready /\ n > 0
  /\ todo' = [i \in 1 .. n |-> Object]
  /\ UNCHANGED <<next, tables, pt, heap, panicked, grants, disciplined, wiped>>

AddrAllocFrame ==
  /\ ~panicked /\ todo # <<>> /\ Head(todo).op = "object"
  /\ AllocateFrame("object")
  /\ todo' = IF HasNth(next)
             THEN <<Map(Window(nth(next)), nth(next))>> \o Tail(todo)
             ELSE <<>>
  /\ UNCHANGED <<tables, pt, heap, disciplined, wiped>>

(* allocate_multiple(size) hands out nth(next) ..= nth(next + size). *)
SlotsTakenExclusive(size) == size

SlotsTaken(size) == size + 1

(* physalloc: allocate_multiple(size) takes size + 1 slots or, when one of *)
(* the two ends is missing, nothing (ENOMEM).  The page range ends `next'  *)
(* BYTES after its start, so only its first pages are mapped.              *)
PhysAlloc(size) ==
  /\ Ready
  /\ IF HasNth(next) /\ HasNth(next + size)
     THEN LET lo    == nth(next)
              pages == ((next + SlotsTaken(size)) \div PageBytes) + 1
              count == nth(next + size) - lo + 1
          IN /\ next' = next + SlotsTaken(size)
             /\ Log(Grant(next, next + size, "phys"))
             /\ todo' = [i \in 1 .. (IF pages < count THEN pages ELSE count) |->
                           Map(Window(lo + i - 1), lo + i - 1)]
     ELSE UNCHANGED <<next, grants, todo>>
  /\ UNCHANGED <<tables, pt, heap, panicked, disciplined, wiped>>

(* The newest grant is one of physalloc's and consists of exactly the      *)
(* frames a..b, one per slot.                                              *)
IsNewest(a, b) ==
  /\ grants # <<>>
  /\ LET g == grants[Len(grants)] IN
       /\ g.use = "phys"
       /\ nth(g.first) = a /\ nth(g.last) = b /\ b - a = g.last - g.first

(* deallocate_frame once for each frame of the inclusive range a..b. *)
FreedSlots(a, b) == b - a + 1

FreePanicsOnNullOnly(a, b) == a = 0

FreePanics(a, b) == a = 0 \/ FreedSlots(a, b) > next

(* physfree: deallocate_frame for each frame of the inclusive range a..b.  *)
(* It panics on frame 0 and when `next' underflows (having counted down to *)
(* zero), and otherwise only decrements `next'.                            *)
PhysFree(a, b) ==
  /\ Ready /\ a <= b
  /\ IF FreePanics(a, b)
     THEN /\ panicked' = TRUE
          /\ next' = IF a = 0 THEN next ELSE 0
          /\ UNCHANGED <<grants, disciplined>>
     ELSE /\ next' = next - FreedSlots(a, b)
          /\ grants' = IF IsNewest(a, b) THEN SubSeq(grants, 1, Len(grants) - 1) ELSE <<>>
          /\ disciplined' = (disciplined /\ IsNewest(a, b))
          /\ UNCHANGED panicked
  /\ UNCHANGED <<tables, pt, heap, todo, wiped>>

(* physmap combines two MapFlags, which translate_flags calls unreachable. *)
PhysMap ==
  /\ Ready /\ panicked' = TRUE
  /\ UNCHANGED <<next, tables, pt, heap, todo, grants, disciplined, wiped>>

-----------------------------------------------------------------------------
(* Callers of the macros that allocate nothing themselves. *)
Call(calls) ==
  /\ Ready
  /\ todo' = calls
  /\ UNCHANGED <<next, tables, pt, heap, panicked, grants, disciplined, wiped>>

(* map_physical_region, the PCI scan, the APIC and ABAR set-up: a device   *)
(* frame at its place in the window.                                       *)
MapDevice(f) == Call(<<Map(Window(f), f)>>)

UnmapDevice(f) == Call(<<Unmap(Window(f))>>)

(* The AML handler's memory and PCI accessors map the page after the one   *)
(* they then use.                                                          *)
AmlRead(f)  == Call(<<Map(Window(f) + 1, f), Read(Window(f))>>)
AmlWrite(f) == Call(<<Map(Window(f) + 1, f), Write(Window(f))>>)

(* XhciMapper::map: identity mapping of n pages. *)
XhciMap(f, n) == n > 0 /\ Call([i \in 1 .. n |-> Map(f + i - 1, f + i - 1)])

(* XhciMapper::unmap: for more than one page the loop starts at the second. *)
XhciUnmap(f, n) ==
  n > 0 /\ Call(IF n > 1 THEN [i \in 1 .. n - 1 |-> Unmap(f + i)] ELSE <<Unmap(f)>>)

(* Any other access of the kernel. *)
Access(p) == Call(<<Read(p)>>) \/ Call(<<Write(p)>>)

(* The access itself, with page_fault: a read of a page that is not        *)
(* present (empty error code) maps it to the frame of the same number and  *)
(* is tried again; a write of one is a panic.                              *)
Touch ==
  /\ ~panicked /\ todo # <<>> /\ Head(todo).op \in {"read", "write"}
  /\ LET p == Head(todo).page
         fault == IF Mapped(p) THEN "none" ELSE Head(todo).op
     IN /\ panicked' = (fault = "write")
        /\ todo' = (IF fault = "read" THEN <<Map(p, p)>> ELSE <<>>) \o Tail(todo)
  /\ UNCHANGED <<next, tables, pt, heap, grants, disciplined, wiped>>

(* The panic handler logs and stays in its loop. *)
PanicLoop == panicked /\ UNCHANGED vars

-----------------------------------------------------------------------------
HeapInit == HeapAlloc \/ HeapMap

Continue == MapPage \/ UnmapPage \/ ZeroFill \/ AddrAllocFrame \/ Touch

Next ==
  \/ HeapInit
  \/ Continue
  \/ \E use \in {"dma4", "dma8"} : PmmAlloc(use)
  \/ PortStart
  \/ \E n \in Counts : AddrAlloc(n) \/ PhysAlloc(n)
  \/ \E a, b \in FreeAddrs : PhysFree(a, b)
  \/ PhysMap
  \/ \E f \in Addrs : MapDevice(f) \/ UnmapDevice(f) \/ AmlRead(f) \/ AmlWrite(f)
  \/ \E f \in Addrs, n \in Counts : XhciMap(f, n) \/ XhciUnmap(f, n)
  \/ \E f \in Addrs : Access(f) \/ Access(Window(f))
  \/ PanicLoop

Spec == Init /\ [][Next]_vars

-----------------------------------------------------------------------------
Calls ==
  [op : {"map", "heap"}, page : Nat, frame : Nat]
    \cup [op : {"unmap", "read", "write"}, page : Nat]
    \cup [op : {"object"}]
    \cup [op : {"fill"}, slot : Slots, use : {"dma4", "dma8"}]

(* Types of the allocator, of the page table and of the histories. *)
TypeOK ==
  /\ next \in Nat
  /\ tables \subseteq (DOMAIN Spans) \X Int
  /\ DOMAIN pt \subseteq Nat /\ \A p \in DOMAIN pt : pt[p] \in Nat
  /\ heap \in 0 .. HeapLen
  /\ todo \in Seq(Calls)
  /\ panicked \in BOOLEAN /\ disciplined \in BOOLEAN
  /\ grants \in Seq([first : Nat, last : Nat, use : Uses])
  /\ wiped \subseteq Nat

Tiled(n, gs) ==
  /\ \A i \in DOMAIN gs :
       /\ gs[i].first <= gs[i].last
       /\ gs[i].first = IF i = 1 THEN 0 ELSE gs[i - 1].last + 1
       /\ gs[i].first \in Slots /\ gs[i].last \in Slots
       /\ gs[i].use # "phys" => gs[i].first .. gs[i].last \subseteq Slots
  /\ \A i, j \in DOMAIN gs : i < j => gs[i].last < gs[j].first
  /\ n = IF gs = <<>> THEN 0 ELSE gs[Len(gs)].last + 1

(* As long as frees are LIFO, the grants not yet returned tile the slots   *)
(* 0 .. next-1 in order: allocate_frame, allocate_multiple, map_to and     *)
(* deallocate_frame neither skip a slot nor hand one out twice.            *)
SlotsTiled == (disciplined /\ ~panicked) => Tiled(next, grants)

(* No frame belongs to two grants of the allocator, whatever mixture of    *)
(* single frames, page tables and ranges of allocate_multiple (which may   *)
(* span a hole between usable regions) was handed out, while frees are     *)
(* LIFO.                                                                   *)
GrantsDisjoint ==
  (disciplined /\ ~panicked) =>
    \A i, j \in DOMAIN grants : i # j => Frames(grants[i]) \cap Frames(grants[j]) = {}

(* Every heap page heap_init_inner has finished keeps its own frame, and   *)
(* no grant to another user ever contains that frame.                      *)
HeapBacked ==
  (disciplined /\ ~panicked) =>
    \A i \in 0 .. (heap - 1) :
      /\ HeapBase + i \in DOMAIN pt
      /\ \A j \in 0 .. (heap - 1) : i # j => pt[HeapBase + i] # pt[HeapBase + j]
      /\ \A g \in DOMAIN grants :
           pt[HeapBase + i] \in Frames(grants[g]) => grants[g].use = "heap"

(* pmm_alloc zeroes 2 MiB for the larger order although it owns one frame; *)
(* since slots are handed out in ascending order and the window needs no   *)
(* page table of its own, the fill reaches no frame handed out before.     *)
NothingWiped == disciplined => wiped = {}

(* map_page! never redirects a page that is mapped: the frame behind a     *)
(* page changes only through unmap_page!.                                  *)
MappingsStable ==
  [][\A p \in DOMAIN pt : p \in DOMAIN pt' => pt'[p] = pt[p]]_vars

=============================================================================
