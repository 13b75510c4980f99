------------------------------ MODULE AhciPort ------------------------------
(***************************************************************************)
(* Reading from a SATA disk: AhciPort::read, DmaRequest, run_request and   *)
(* run_command on the CPU, interleaved with the host bus adapter, which    *)
(* walks the PRDT of a command and writes one sector at a time.            *)
(*                                                                         *)
(* Memory is an array of cells of one sector; a cell holds the number of   *)
(* the disk sector last written to it, Zero or Junk.  The frame allocator  *)
(* is the bump allocator of KernelFrames inside one usable region.  The    *)
(* fields of HbaPort are taken for the registers they are named after: in  *)
(* the code those after ssts, which has 64 bits, lie 4 bytes too far.      *)
(***************************************************************************)
EXTENDS Integers, Sequences, FiniteSets

CONSTANTS
  NumSlots,      \* 32 command slots
  SectorBytes,   \* 512
  FrameSectors,  \* sectors in a 4 KiB frame: 8
  BufSectors,    \* sectors in a DmaBuffer: 16
  CmdSectors,    \* sectors in a command: 128
  PrdtMax,       \* PRDT entries in a command table: 8
  SpinLimit,     \* 100
  NumFrames,     \* frames of the region
  Lba24,         \* 2^24
  Lba28,         \* 0x0FFF_FFFF
  Requests       \* reads asked for: [sector, len], len in bytes

ASSUME AhciConstants ==
  /\ NumSlots \in Nat \ {0} /\ SectorBytes \in Nat \ {0} /\ FrameSectors \in Nat \ {0}
  /\ BufSectors \in Nat \ {0} /\ PrdtMax \in Nat \ {0} /\ SpinLimit \in Nat
  /\ CmdSectors = BufSectors * PrdtMax
  /\ NumFrames \in Nat /\ Lba24 \in Nat \ {0} /\ Lba28 \in Nat
  /\ Requests \subseteq [sector : Nat, len : Nat]

VARIABLES
  pc,      \* where the CPU is in AhciPort::read
  req,     \* the DmaRequest, and the length of the caller's buffer
  offset,  \* sectors of the request handed to the port
  slot,    \* the slot of the command being run
  cmds,    \* slots of AhciPortProtected.cmds that are Some
  free,    \* free_cmds
  spin,    \* the counter of the busy loop
  into,    \* the caller's buffer, as far as copy_into has filled it
  warned,  \* a warning was logged for this read ("port hung", "disk error")
  frame,   \* frames handed out by pmm_alloc
  mem,     \* memory
  hw,      \* command list and tables, and how far the device is with each
  ci,      \* PxCI: commands issued and not completed
  tfd,     \* PxTFD
  tfes     \* PxIS.TFES: the device reported an error and has stopped

cpu == <<pc, req, offset, slot, cmds, free, spin, into, warned, frame>>
vars == <<pc, req, offset, slot, cmds, free, spin, into, warned, frame, mem, hw, ci, tfd, tfes>>

Junk == -1
Zero == -2

AllSlots == 0 .. (NumSlots - 1)

Least(S) == CHOOSE i \in S : \A j \in S : i <= j

Minimum(a, b) == IF a < b THEN a ELSE b

(* The last buffer may reach past its only frame. *)
Memory == 0 .. (NumFrames * FrameSectors + BufSectors - 1)

Idle == [lba |-> 0, count |-> 0, base |-> 0, prdt |-> <<>>, entry |-> 1, pos |-> 0, done |-> 0]

Init ==
  /\ pc = "idle"
  /\ req = [sector |-> 0, len |-> 0, count |-> 0, buffer |-> <<>>]
  /\ offset = 0 /\ slot = 0 /\ spin = 0
  /\ cmds = {} /\ free = NumSlots
  /\ into = <<>> /\ warned = FALSE
  /\ frame = 0
  /\ mem = [c \in Memory |-> Junk]
  /\ hw = [s \in AllSlots |-> Idle]
  /\ ci = {} /\ tfd = "ready" /\ tfes = FALSE

-----------------------------------------------------------------------------
(* AhciPort::read: the number of sectors is rounded up. *)
SectorCount(len) == (len + SectorBytes - 1) \div SectorBytes

Read(r) ==
  /\ pc = "idle"
  /\ req' = [sector |-> r.sector, len |-> r.len, count |-> SectorCount(r.len), buffer |-> <<>>]
  /\ pc' = IF SectorCount(r.len) > 0 THEN "alloc" ELSE "copy"
  /\ offset' = 0 /\ into' = <<>> /\ warned' = FALSE
  /\ UNCHANGED <<slot, cmds, free, spin, frame, mem, hw, ci, tfd, tfes>>

(* One turn of the loop of DmaRequest::new: pmm_alloc takes one frame and  *)
(* zeroes 4 KiB or, for the larger order, 2 MiB (here: the rest of the     *)
(* region).                                                                *)
NewBuffer ==
  /\ pc = "alloc"
  /\ LET left  == req.count - Len(req.buffer) * BufSectors
         first == frame * FrameSectors
         fill  == {c \in Memory : c >= first /\ (left > FrameSectors \/ c < first + FrameSectors)}
     IN IF frame = NumFrames
        THEN pc' = "panic" /\ UNCHANGED <<req, frame, mem>>
        ELSE /\ req' = [req EXCEPT !.buffer =
                          Append(@, [start |-> first, sectors |-> Minimum(left, BufSectors)])]
             /\ frame' = frame + 1
             /\ mem' = [c \in Memory |-> IF c \in fill THEN Zero ELSE mem[c]]
             /\ pc' = IF left > BufSectors THEN "alloc" ELSE "run"
  /\ UNCHANGED <<offset, slot, cmds, free, spin, into, warned, hw, ci, tfd, tfes>>

-----------------------------------------------------------------------------
(* DmaRequest::as_command with FisRegH2D::set_lba.  ReadDma takes bits     *)
(* 24-27 of the LBA from the device register, which run_command sets to    *)
(* 1 << 6.                                                                 *)
DeviceLba(sector) ==
  IF req.sector > Lba28 THEN sector ELSE sector % Lba24

PrdtLengthFloor(count) == count \div BufSectors

(* The first PRDT entry describes the buffer of at_offset(offset). *)
PrdtLength(count) == ((count - 1) \div BufSectors) + 1

FirstBufferZero(off) == 0

FirstBuffer(off) == off \div BufSectors

Prdt(off, count) ==
  SubSeq(req.buffer, FirstBuffer(off) + 1,
         Minimum(Len(req.buffer), FirstBuffer(off) + PrdtLength(count)))

Command(off, count) ==
  [lba |-> DeviceLba(req.sector + off), count |-> count, base |-> off,
   prdt |-> Prdt(off, count), entry |-> 1, pos |-> 0, done |-> 0]

FreeSlotsAll == AllSlots

(* run_request with a free slot: run_command fills the header and the      *)
(* table of the first free slot and sets its bit of PxCI.                  *)
FreeSlots == AllSlots \ cmds

Issue ==
  /\ pc = "run" /\ offset < req.count /\ FreeSlots # {}
  /\ LET s == Least(FreeSlots)
         count == Minimum(req.count - offset, CmdSectors)
     IN /\ slot' = s
        /\ hw' = [hw EXCEPT ![s] = Command(offset, count)]
        /\ ci' = ci \cup {s}
  /\ spin' = SpinLimit
  /\ pc' = "busy"
  /\ UNCHANGED <<req, offset, cmds, free, into, warned, frame, mem, tfd, tfes>>

(* Without one it returns, and AhciPort::run_request tries again. *)
NoFreeSlot ==
  /\ pc = "run" /\ offset < req.count /\ FreeSlots = {}
  /\ UNCHANGED vars

(* while (tfd == 0x80 || tfd == 0x08) && spin > 0, then the check for 0. *)
BusyLoop ==
  /\ pc = "busy" /\ tfd = "busy" /\ spin > 0
  /\ spin' = spin - 1
  /\ UNCHANGED <<pc, req, offset, slot, cmds, free, into, warned, frame, mem, hw, ci, tfd, tfes>>

BusyDone ==
  /\ pc = "busy" /\ (tfd # "busy" \/ spin = 0)
  /\ pc' = IF spin = 0 THEN "record" ELSE "wait"
  /\ warned' = (warned \/ spin = 0)
  /\ UNCHANGED <<req, offset, slot, cmds, free, spin, into, frame, mem, hw, ci, tfd, tfes>>

StillWaitingNever == FALSE

(* `ci & (1 << slot) == 1' can hold for slot 0 only. *)
StillWaiting == slot = 0 /\ slot \in ci

WaitDoneIgnoresError ==
  /\ pc = "wait"
  /\ pc' = IF StillWaiting THEN "wait" ELSE "record"
  /\ UNCHANGED <<req, offset, slot, cmds, free, spin, into, warned, frame, mem, hw, ci, tfd, tfes>>

WaitDone ==
  /\ pc = "wait"
  /\ ~StillWaiting \/ tfes
  /\ warned' = (warned \/ StillWaiting)
  /\ pc' = "record"
  /\ UNCHANGED <<req, offset, slot, cmds, free, spin, into, frame, mem, hw, ci, tfd, tfes>>

(* The rest of the loop body of run_request, after run_command returned. *)
RecordForgetsSlot ==
  /\ pc = "record"
  /\ offset' = offset + Minimum(req.count - offset, CmdSectors)
  /\ free' = free - 1
  /\ pc' = "run"
  /\ UNCHANGED <<req, slot, cmds, spin, into, warned, frame, mem, hw, ci, tfd, tfes>>

Record ==
  /\ pc = "record"
  /\ offset' = offset + Minimum(req.count - offset, CmdSectors)
  /\ cmds' = cmds \cup {slot}
  /\ free' = free - 1
  /\ pc' = "run"
  /\ UNCHANGED <<req, slot, spin, into, warned, frame, mem, hw, ci, tfd, tfes>>

RequestDone ==
  /\ pc = "run" /\ offset >= req.count
  /\ pc' = "copy"
  /\ UNCHANGED <<req, offset, slot, cmds, free, spin, into, warned, frame, mem, hw, ci, tfd, tfes>>

(* copy_into, one buffer at a time; the read then returns Some. *)
CopyBuffer ==
  /\ pc = "copy" /\ Len(into) < req.len
  /\ LET size  == BufSectors * SectorBytes
         b     == req.buffer[Len(into) \div size + 1]
         count == Minimum(req.len - Len(into), size)
     IN into' = into \o [i \in 1 .. count |-> mem[b.start + (i - 1) \div SectorBytes]]
  /\ UNCHANGED <<pc, req, offset, slot, cmds, free, spin, warned, frame, mem, hw, ci, tfd, tfes>>

Return ==
  /\ pc = "copy" /\ Len(into) = req.len
  /\ pc' = "idle"
  /\ UNCHANGED <<req, offset, slot, cmds, free, spin, into, warned, frame, mem, hw, ci, tfd, tfes>>

(* The panic handler's loop. *)
Panicked == pc = "panic" /\ UNCHANGED vars

-----------------------------------------------------------------------------
(* The device.  It works on one command at a time, in an order of its own, *)
(* and stops at the first error.                                           *)
Started(s) == hw[s].done > 0

DevBusy ==
  /\ ci # {} /\ tfd = "ready" /\ ~tfes
  /\ tfd' = "busy"
  /\ UNCHANGED <<cpu, mem, hw, ci, tfes>>

DevReady ==
  /\ tfd = "busy"
  /\ tfd' = "ready"
  /\ UNCHANGED <<cpu, mem, hw, ci, tfes>>

DevTransfer(s) ==
  /\ s \in ci /\ ~tfes /\ hw[s].done < hw[s].count
  /\ \A t \in ci \ {s} : ~Started(t)
  /\ LET c == hw[s]
         b == c.prdt[c.entry]
         last == c.pos + 1 = b.sectors
     IN /\ mem' = [mem EXCEPT ![b.start + c.pos] = c.lba + c.done]
        /\ hw' = [hw EXCEPT ![s].done = c.done + 1,
                            ![s].entry = IF last THEN c.entry + 1 ELSE c.entry,
                            ![s].pos = IF last THEN 0 ELSE c.pos + 1]
  /\ UNCHANGED <<cpu, ci, tfd, tfes>>

DevComplete(s) ==
  /\ s \in ci /\ ~tfes /\ hw[s].done = hw[s].count
  /\ ci' = ci \ {s}
  /\ tfd' = "ready"
  /\ UNCHANGED <<cpu, mem, hw, tfes>>

DevError(s) ==
  /\ s \in ci /\ ~tfes
  /\ tfes' = TRUE
  /\ tfd' = "ready"
  /\ UNCHANGED <<cpu, mem, hw, ci>>

-----------------------------------------------------------------------------
Cpu ==
  \/ NewBuffer \/ Issue \/ NoFreeSlot \/ BusyLoop \/ BusyDone \/ WaitDone
  \/ Record \/ RequestDone \/ CopyBuffer \/ Return

Device == \E s \in AllSlots : DevTransfer(s) \/ DevComplete(s)

Next ==
  \/ \E r \in Requests : Read(r)
  \/ Cpu
  \/ Panicked
  \/ Device
  \/ DevBusy \/ DevReady
  \/ \E s \in AllSlots : DevError(s)

(* The CPU runs a read to its end, and a device that has a command to work *)
(* on keeps working on it unless it reports an error.                      *)
Spec == Init /\ [][Next]_vars /\ WF_vars(Cpu) /\ WF_vars(Device)

-----------------------------------------------------------------------------
(* free_cmds counts the empty slots, and every command the device still    *)
(* works on is in an occupied slot or is the one being run: a late         *)
(* completion always finds its request in cmds.                            *)
SlotAccounting ==
  /\ free = Cardinality(FreeSlots)
  /\ ci \subseteq cmds \cup (IF pc \in {"busy", "wait", "record"} THEN {slot} ELSE {})

(* However the device's transfers interleave with the driver, the sector   *)
(* it writes next is placed where copy_into will look for it: PRDT and     *)
(* at_offset agree with the split of the request into buffers of 8 KiB and *)
(* commands of 128 sectors, and the PRDT fits its table and never ends     *)
(* early.                                                                  *)
DmaCursorExact ==
  \A s \in ci :
    LET c == hw[s] IN
    /\ Len(c.prdt) <= PrdtMax
    /\ c.done < c.count =>
         /\ c.entry <= Len(c.prdt) /\ c.pos < c.prdt[c.entry].sectors
         /\ c.done = (c.entry - 1) * BufSectors + c.pos
         /\ c.base % BufSectors = 0
         /\ (s = slot /\ pc \in {"busy", "wait", "record"}) =>
              c.prdt[c.entry] = req.buffer[(c.base + c.done) \div BufSectors + 1]

(* run_command never rewrites the command table of a slot the device has   *)
(* not completed, even after "port hung" or a disk error.                  *)
LiveTablesKept ==
  [][\A s \in ci \cap ci' : hw'[s].lba = hw[s].lba /\ hw'[s].prdt = hw[s].prdt
                              /\ hw'[s].done >= hw[s].done]_vars

Returned == pc = "idle" /\ req.count > 0

DiskData == [i \in 1 .. req.len |-> req.sector + (i - 1) \div SectorBytes]

(* The read of start_driver: the first command of a port, in one buffer,   *)
(* with an LBA that its command can carry, returns the sectors asked for   *)
(* unless a warning was logged.                                            *)
FirstReadExact ==
  (/\ Returned /\ ~warned
   /\ cmds = {0} /\ Len(req.buffer) = 1
   /\ req.sector + req.count <= Lba24 \/ req.sector > Lba28) => into = DiskData

(* A read for which enough slots are free returns, or memory runs out,     *)
(* whatever the device does: completes, hangs or reports an error.         *)
ReadEnds ==
  (pc = "alloc" /\ free * CmdSectors >= req.count) ~> (pc \in {"idle", "panic"})

(* "Wait for the command to complete." (run_command): while the disk       *)
(* reports no error, a read of one buffer that logs no warning returns the *)
(* sectors asked for.                                                      *)
ReadExact ==
  (/\ Returned /\ ~warned /\ ~tfes
   /\ Len(req.buffer) = 1 /\ req.sector + req.count <= Lba24) => into = DiskData

=============================================================================
