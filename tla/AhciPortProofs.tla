--------------------------- MODULE AhciPortProofs ---------------------------
(* Proofs about AhciPort: any number of slots, any sizes of sectors,       *)
(* frames, buffers and PRDTs, any requests and any device.                 *)
EXTENDS AhciPort, TLAPS

Buffers == [start : Nat, sectors : Nat]
Commands == [lba : Nat, count : Nat, base : Nat, prdt : Seq(Buffers), entry : Nat, pos : Nat, done : Nat]

InCommand == {"busy", "wait", "record"}
Labels == {"idle", "alloc", "run", "copy", "panic"} \cup InCommand

(* A number of sectors n makes l buffers, and the k-th of them has size    *)
(* PartSectors(n, k).                                                      *)
Parts(n, l) == (l - 1) * BufSectors < n /\ n <= l * BufSectors
PartSectors(n, k) == Minimum(n - (k - 1) * BufSectors, BufSectors)

(* The request: DmaRequest::new has split it into buffers, the last one    *)
(* with what is left; commands start at a buffer.                          *)
RequestOK ==
  /\ pc \in Labels
  /\ req \in [sector : Nat, len : Nat, count : Nat, buffer : Seq(Buffers)]
  /\ offset \in Nat /\ frame \in 0 .. NumFrames
  /\ \A k \in 1 .. Len(req.buffer) : req.buffer[k].sectors = PartSectors(req.count, k)
  /\ pc = "alloc" => offset = 0 /\ Len(req.buffer) * BufSectors < req.count
  /\ pc \in {"run"} \cup InCommand =>
       /\ Parts(req.count, Len(req.buffer)) /\ offset <= req.count
       /\ offset < req.count => \E q \in Nat : offset = q * BufSectors
  /\ pc \in InCommand => offset < req.count

(* The slots: SlotAccounting, and the slot being run is not taken yet. *)
SlotsOK ==
  /\ slot \in AllSlots /\ cmds \in SUBSET AllSlots /\ ci \in SUBSET AllSlots
  /\ hw \in [AllSlots -> Commands]
  /\ SlotAccounting
  /\ pc \in InCommand => slot \notin cmds

-----------------------------------------------------------------------------
USE AhciConstants

(* Multiplication by a natural number is monotonic. *)
LEMMA MultMono ==
  ASSUME NEW x \in Int, NEW y \in Int, NEW b \in Nat, x <= y
  PROVE  x * b <= y * b
<1>1. (y - x) * b >= 0
  OBVIOUS
<1> QED BY <1>1

(* Division of natural numbers, and when a number is the quotient. *)
LEMMA Division ==
  ASSUME NEW a \in Nat, NEW b \in Nat \ {0}
  PROVE  a \div b \in Nat /\ (a \div b) * b <= a /\ a < (a \div b + 1) * b
OBVIOUS

LEMMA Quotient ==
  ASSUME NEW a \in Nat, NEW b \in Nat \ {0}, NEW q \in Nat, q * b <= a, a < (q + 1) * b
  PROVE  a \div b = q
<1> DEFINE p == a \div b
<1>1. p \in Nat /\ p * b <= a /\ a < (p + 1) * b
  BY Division
<1> HIDE DEF p
<1>2. ~(p + 1 <= q)
  BY <1>1, MultMono
<1>3. ~(q + 1 <= p)
  BY <1>1, MultMono
<1> QED BY <1>1, <1>2, <1>3 DEF p

(* A multiple leaves no remainder. *)
LEMMA MultipleMod ==
  ASSUME NEW q \in Nat, NEW b \in Nat \ {0}
  PROVE  (q * b) % b = 0
OBVIOUS

(* A PRDT for n sectors has as many entries as n sectors make buffers. *)
LEMMA PrdtLengthParts ==
  ASSUME NEW n \in Nat \ {0}
  PROVE  PrdtLength(n) \in Nat /\ PrdtLength(n) >= 1 /\ Parts(n, PrdtLength(n))
<1> DEFINE q == (n - 1) \div BufSectors
<1>1. n - 1 \in Nat /\ BufSectors \in Nat \ {0}
  OBVIOUS
<1>2. q \in Nat /\ q * BufSectors <= n - 1 /\ n - 1 < (q + 1) * BufSectors
  BY <1>1, Division
<1> HIDE DEF q
<1>3. q + 1 - 1 = q
  BY <1>2
<1>4. (q + 1 - 1) * BufSectors < n /\ n <= (q + 1) * BufSectors
  <2>1. q * BufSectors \in Int /\ (q + 1) * BufSectors \in Int
    BY <1>2
  <2> QED BY <1>2, <1>3, <2>1
<1> QED BY <1>2, <1>4 DEF q, PrdtLength, Parts

(* What SubSeq returns. *)
LEMMA SubSeqProperties ==
  ASSUME NEW S, NEW s, NEW m \in Int, NEW n \in Int, \A k \in m .. n : s[k] \in S
  PROVE  /\ SubSeq(s, m, n) \in Seq(S)
         /\ Len(SubSeq(s, m, n)) = IF m <= n THEN n - m + 1 ELSE 0
         /\ \A k \in 1 .. (n - m + 1) : SubSeq(s, m, n)[k] = s[m + k - 1]
OBVIOUS

(* A part of a sequence. *)
LEMMA PartOfSeq ==
  ASSUME NEW S, NEW s \in Seq(S), NEW q \in Nat, NEW m \in Nat, m >= 1, q + m <= Len(s)
  PROVE  LET t == SubSeq(s, q + 1, q + m)
         IN t \in Seq(S) /\ Len(t) = m /\ \A k \in 1 .. m : t[k] = s[q + k]
<1>1. /\ q + 1 \in Int /\ q + m \in Int /\ q + m - (q + 1) + 1 = m /\ q + 1 <= q + m
      /\ \A k \in 1 .. m : q + 1 + k - 1 = q + k
      /\ \A k \in (q + 1) .. (q + m) : s[k] \in S
  OBVIOUS
<1> DEFINE a == q + 1
           b == q + m
<1>2. a \in Int /\ b \in Int /\ \A k \in a .. b : s[k] \in S
  BY <1>1
<1> HIDE DEF a, b
<1>3. /\ SubSeq(s, a, b) \in Seq(S)
      /\ Len(SubSeq(s, a, b)) = IF a <= b THEN b - a + 1 ELSE 0
      /\ \A k \in 1 .. b - a + 1 : SubSeq(s, a, b)[k] = s[a + k - 1]
  BY <1>2, SubSeqProperties
<1> QED BY <1>1, <1>3 DEF a, b

(* A buffer is added for what is left of n sectors after l buffers. *)
LEMMA OnePartMore ==
  ASSUME NEW l \in Nat, NEW n \in Nat, l * BufSectors < n
  PROVE  LET left == n - l * BufSectors
         IN /\ left \in Nat /\ Minimum(left, BufSectors) = PartSectors(n, l + 1)
            /\ left > BufSectors => (l + 1) * BufSectors < n
            /\ ~(left > BufSectors) => Parts(n, l + 1)
<1>1. (l + 1) * BufSectors = l * BufSectors + BufSectors /\ l + 1 - 1 = l /\ l * BufSectors \in Nat
  OBVIOUS
<1> QED BY <1>1 DEF PartSectors, Parts

(* SectorCount is a number of sectors. *)
LEMMA SectorCountNat == \A len \in Nat : SectorCount(len) \in Nat
BY Division DEF SectorCount

(* What the proofs use of sets of slots: a least element, and sizes.  It   *)
(* holds for any number of slots (lemma SlotSets, with the facts on finite *)
(* sets and well-founded orders that it needs, in a section of its own).   *)
SlotSetsOK ==
  /\ \A S \in SUBSET AllSlots : S # {} => Least(S) \in S
  /\ \A S \in SUBSET AllSlots : \A s \in S : Cardinality(S \ {s}) = Cardinality(S) - 1
  /\ Cardinality(AllSlots) = NumSlots

(* Taking a free slot leaves one fewer. *)
LEMMA TakeSlot ==
  ASSUME SlotSetsOK, cmds \in SUBSET AllSlots, slot \in AllSlots \ cmds
  PROVE  Cardinality(AllSlots \ (cmds \cup {slot})) = Cardinality(AllSlots \ cmds) - 1
<1>1. AllSlots \ (cmds \cup {slot}) = (AllSlots \ cmds) \ {slot}
  BY Zenon
<1>2. AllSlots \ cmds \in SUBSET AllSlots
  BY Zenon
<1> QED BY <1>1, <1>2, Zenon DEF SlotSetsOK

-----------------------------------------------------------------------------
(* Nothing has been asked for at first. *)
LEMMA InitRequest == Init => RequestOK
BY DEF Init, RequestOK, Labels, InCommand

(* One turn of the loop of DmaRequest::new. *)
LEMMA NewBufferRequest ==
  ASSUME RequestOK, NewBuffer, frame # NumFrames
  PROVE  RequestOK'
<1> DEFINE l == Len(req.buffer)
           left == req.count - l * BufSectors
           b == [start |-> frame * FrameSectors, sectors |-> Minimum(left, BufSectors)]
<1>1. /\ pc = "alloc" /\ req' = [req EXCEPT !.buffer = Append(req.buffer, b)]
      /\ frame' = frame + 1 /\ offset' = offset
      /\ pc' = IF left > BufSectors THEN "alloc" ELSE "run"
  BY DEF NewBuffer
<1>2. /\ l \in Nat /\ req.count \in Nat /\ l * BufSectors < req.count /\ offset = 0
      /\ frame \in Nat /\ frame + 1 \in 0 .. NumFrames
  <2>1. frame \in Nat /\ frame + 1 \in 0 .. NumFrames
    <3>1. frame \in 0 .. NumFrames
      BY DEF RequestOK
    <3> QED BY <3>1
  <2> QED BY <1>1, <2>1 DEF RequestOK
<1>3. frame * FrameSectors \in Nat
  BY <1>2
<1>4. /\ left \in Nat /\ Minimum(left, BufSectors) = PartSectors(req.count, l + 1)
      /\ left > BufSectors => (l + 1) * BufSectors < req.count
      /\ ~(left > BufSectors) => Parts(req.count, l + 1)
  BY <1>2, OnePartMore, SMTT(30)
<1> HIDE DEF left
<1>5. b \in Buffers /\ b.sectors = PartSectors(req.count, l + 1)
  BY <1>3, <1>4 DEF Buffers, Minimum
<1> HIDE DEF b
<1>6. Append(req.buffer, b) \in Seq(Buffers)
  BY <1>5 DEF RequestOK
<1>7. /\ req' = [sector |-> req.sector, len |-> req.len, count |-> req.count,
                 buffer |-> Append(req.buffer, b)]
      /\ req' \in [sector : Nat, len : Nat, count : Nat, buffer : Seq(Buffers)]
  BY <1>1, <1>6, Zenon DEF RequestOK
<1>8. /\ req'.count = req.count /\ Len(req'.buffer) = l + 1
      /\ \A k \in 1 .. l : req'.buffer[k] = req.buffer[k]
      /\ req'.buffer[l + 1] = b
  BY <1>5, <1>7 DEF RequestOK
<1> HIDE DEF l
<1>9. \A k \in 1 .. Len(req'.buffer) : req'.buffer[k].sectors = PartSectors(req'.count, k)
  BY <1>2, <1>5, <1>8, SMTT(30) DEF RequestOK, l
<1>10. /\ pc' = "alloc" => Len(req'.buffer) * BufSectors < req'.count
       /\ pc' = "run" => Parts(req'.count, Len(req'.buffer))
       /\ pc' \in {"alloc", "run"}
  BY <1>1, <1>4, <1>8, Zenon
<1>11. offset' = 0 /\ 0 = 0 * BufSectors
  BY <1>1, <1>2
<1>12. \E q \in Nat : offset' = q * BufSectors
  BY <1>11, Zenon
<1>13. offset' \in Nat /\ offset' <= req'.count
  BY <1>2, <1>8, <1>11
<1>14. frame' \in 0 .. NumFrames
  BY <1>1, <1>2, Zenon
<1> QED BY <1>7, <1>9, <1>10, <1>11, <1>12, <1>13, <1>14, Zenon DEF RequestOK, Labels, InCommand

(* A command has been handed to the port. *)
LEMMA RecordRequest ==
  ASSUME RequestOK, Record
  PROVE  RequestOK'
<1> DEFINE count == Minimum(req.count - offset, CmdSectors)
<1>1. offset' = offset + count /\ pc' = "run" /\ pc = "record" /\ req' = req /\ frame' = frame
  BY DEF Record
<1>2. offset < req.count /\ Parts(req.count, Len(req.buffer))
  BY <1>1 DEF RequestOK, InCommand
<1>3. offset' \in Nat /\ offset' <= req.count
  BY <1>1, <1>2 DEF RequestOK, Minimum
<1>4. ASSUME offset' < req.count PROVE \E q \in Nat : offset' = q * BufSectors
  <2>1. PICK q \in Nat : offset = q * BufSectors
    BY <1>1, <1>2 DEF RequestOK, InCommand
  <2>2. count = BufSectors * PrdtMax
    BY <1>1, <1>4 DEF Minimum, RequestOK
  <2>3. q * BufSectors + BufSectors * PrdtMax = (q + PrdtMax) * BufSectors /\ q + PrdtMax \in Nat
    OBVIOUS
  <2> QED BY <1>1, <2>1, <2>2, <2>3
<1> QED BY <1>1, <1>2, <1>3, <1>4 DEF RequestOK, Labels, InCommand

(* Every step keeps RequestOK; the device does not change a request. *)
LEMMA NextRequest == RequestOK /\ [Next]_vars => RequestOK'
<1> SUFFICES ASSUME RequestOK, [Next]_vars PROVE RequestOK'
  OBVIOUS
<1> USE DEF InCommand, Labels
<1>1. ASSUME NEW r \in Requests, Read(r) PROVE RequestOK'
  <2>1. /\ req' \in [sector : Nat, len : Nat, count : Nat, buffer : Seq(Buffers)]
        /\ req'.count = SectorCount(r.len) /\ req'.buffer = <<>>
    BY <1>1, SectorCountNat DEF Read
  <2> QED BY <1>1, <2>1 DEF Read, RequestOK
<1>2. CASE NewBuffer
  <2>1. CASE frame = NumFrames
    BY <1>2, <2>1 DEF NewBuffer, RequestOK
  <2> QED BY <1>2, <2>1, NewBufferRequest
<1>3. CASE Issue
  BY <1>3 DEF Issue, RequestOK
<1>4. CASE BusyLoop \/ BusyDone \/ WaitDone
  BY <1>4, Zenon DEF BusyLoop, BusyDone, WaitDone, RequestOK
<1>5. CASE Record
  BY <1>5, RecordRequest
<1>6. CASE RequestDone \/ CopyBuffer \/ Return
  BY <1>6, Zenon DEF RequestDone, CopyBuffer, Return, RequestOK
<1>7. CASE UNCHANGED cpu
  BY <1>7 DEF cpu, RequestOK
<1>8. CASE NoFreeSlot \/ Panicked \/ UNCHANGED vars
  BY <1>7, <1>8 DEF NoFreeSlot, Panicked, vars, cpu
<1>9. CASE Device \/ DevBusy \/ DevReady \/ \E s \in AllSlots : DevError(s)
  BY <1>7, <1>9, Zenon DEF Device, DevTransfer, DevComplete, DevBusy, DevReady, DevError
<1> QED BY <1>1, <1>2, <1>3, <1>4, <1>5, <1>6, <1>8, <1>9 DEF Next, Cpu

-----------------------------------------------------------------------------
(* All slots are free at first. *)
LEMMA InitSlots ==
  ASSUME SlotSetsOK, Init
  PROVE  SlotsOK
<1>1. Idle \in Commands
  BY DEF Idle, Commands
<1>2. hw \in [AllSlots -> Commands]
  BY <1>1 DEF Init
<1>3. 0 \in AllSlots
  BY DEF AllSlots
<1>4. free = Cardinality(FreeSlots)
  <2>1. AllSlots \ {} = AllSlots
    BY Zenon
  <2> QED BY <2>1 DEF Init, FreeSlots, SlotSetsOK
<1> QED BY <1>2, <1>3, <1>4 DEF Init, SlotsOK, SlotAccounting, InCommand

(* What run_command writes into the command table. *)
LEMMA CommandType ==
  ASSUME RequestOK, NEW off \in Nat, NEW count \in Nat \ {0}
  PROVE  Command(off, count) \in Commands
<1>1. DeviceLba(req.sector + off) \in Nat
  BY DEF RequestOK, DeviceLba
<1>2. Prdt(off, count) \in Seq(Buffers)
  <2> DEFINE m == FirstBuffer(off) + 1
             n == Minimum(Len(req.buffer), FirstBuffer(off) + PrdtLength(count))
  <2>1. FirstBuffer(off) \in Nat /\ PrdtLength(count) \in Nat
    BY Division, PrdtLengthParts DEF FirstBuffer
  <2>2. m \in Nat /\ m >= 1 /\ n \in Nat /\ n <= Len(req.buffer)
    BY <2>1 DEF RequestOK, Minimum
  <2> HIDE DEF m, n
  <2>3. \A i \in m .. n : req.buffer[i] \in Buffers
    BY <2>2 DEF RequestOK
  <2>4. SubSeq(req.buffer, m, n) \in Seq(Buffers)
    BY <2>2, <2>3, SubSeqProperties
  <2> QED BY <2>4 DEF Prdt, m, n
<1> QED BY <1>1, <1>2 DEF Command, Commands

(* run_command takes a slot that is free, so no command of the device. *)
LEMMA IssueFacts ==
  ASSUME SlotSetsOK, RequestOK, SlotsOK, Issue
  PROVE  LET s == Least(FreeSlots)
             count == Minimum(req.count - offset, CmdSectors)
         IN /\ s \in AllSlots \ cmds /\ s \notin ci
            /\ count \in Nat \ {0}
            /\ Command(offset, count) \in Commands
            /\ slot' = s /\ hw' = [hw EXCEPT ![s] = Command(offset, count)] /\ ci' = ci \cup {s}
            /\ pc' = "busy" /\ pc = "run" /\ offset < req.count
            /\ UNCHANGED <<req, offset, cmds, free, frame, mem>>
<1> DEFINE s == Least(FreeSlots)
           count == Minimum(req.count - offset, CmdSectors)
<1>1. FreeSlots \in SUBSET AllSlots /\ FreeSlots # {}
  BY Zenon DEF Issue, FreeSlots
<1>2. s \in AllSlots \ cmds
  BY <1>1, Zenon DEF FreeSlots, SlotSetsOK
<1>3. CmdSectors \in Nat \ {0}
  OBVIOUS
<1>4. count \in Nat \ {0}
  BY <1>3 DEF Issue, RequestOK, Minimum
<1>5. Command(offset, count) \in Commands
  BY <1>4, CommandType DEF RequestOK
<1>6. ci \subseteq cmds
  BY DEF SlotsOK, SlotAccounting, Issue
<1> QED BY <1>2, <1>4, <1>5, <1>6 DEF Issue

(* The steps of the CPU. *)
LEMMA CpuSlots ==
  ASSUME SlotSetsOK, RequestOK, SlotsOK, Cpu \/ \E r \in Requests : Read(r)
  PROVE  SlotsOK'
<1> USE DEF SlotsOK, SlotAccounting, FreeSlots, InCommand
<1>1. ASSUME NEW r \in Requests, Read(r) PROVE SlotsOK'
  BY <1>1 DEF Read
<1>2. CASE NewBuffer
  BY <1>2, Zenon DEF NewBuffer
<1>3. CASE Issue
  <2> DEFINE s == Least(FreeSlots)
             command == Command(offset, Minimum(req.count - offset, CmdSectors))
  <2>1. /\ s \in AllSlots \ cmds /\ command \in Commands
        /\ slot' = s /\ hw' = [hw EXCEPT ![s] = command] /\ ci' = ci \cup {s}
        /\ pc' = "busy" /\ pc = "run" /\ UNCHANGED <<cmds, free>>
    BY <1>3, IssueFacts, Zenon
  <2> HIDE DEF s, command
  <2> QED BY <2>1
<1>4. CASE NoFreeSlot
  BY <1>4 DEF NoFreeSlot, vars
<1>5. CASE BusyLoop
  BY <1>5 DEF BusyLoop
<1>6. CASE BusyDone
  BY <1>6 DEF BusyDone
<1>7. CASE WaitDone
  BY <1>7 DEF WaitDone
<1>8. CASE Record
  <2>1. Cardinality(AllSlots \ (cmds \cup {slot})) = Cardinality(AllSlots \ cmds) - 1
    BY <1>8, TakeSlot DEF Record
  <2> QED BY <1>8, <2>1 DEF Record
<1>9. CASE RequestDone
  BY <1>9, Zenon DEF RequestDone
<1>10. CASE CopyBuffer
  BY <1>10 DEF CopyBuffer
<1>11. CASE Return
  BY <1>11 DEF Return
<1> QED BY <1>1, <1>2, <1>3, <1>4, <1>5, <1>6, <1>7, <1>8, <1>9, <1>10, <1>11 DEF Cpu

(* What the transfer of one sector changes in the command table's state. *)
LEMMA TransferFacts ==
  ASSUME SlotsOK, NEW s \in AllSlots, DevTransfer(s)
  PROVE  LET c == hw[s]
             b == c.prdt[c.entry]
             last == c.pos + 1 = b.sectors
         IN /\ s \in ci /\ c \in Commands /\ c.done < c.count
            /\ hw' \in [AllSlots -> Commands]
            /\ \A t \in AllSlots \ {s} : hw'[t] = hw[t]
            /\ hw'[s].lba = c.lba /\ hw'[s].count = c.count /\ hw'[s].base = c.base
            /\ hw'[s].prdt = c.prdt /\ hw'[s].done = c.done + 1
            /\ hw'[s].entry = IF last THEN c.entry + 1 ELSE c.entry
            /\ hw'[s].pos = IF last THEN 0 ELSE c.pos + 1
            /\ mem' = [mem EXCEPT ![b.start + c.pos] = c.lba + c.done]
            /\ UNCHANGED <<cpu, ci, tfes>>
<1> DEFINE c == hw[s]
           last == c.pos + 1 = c.prdt[c.entry].sectors
           entry == IF last THEN c.entry + 1 ELSE c.entry
           pos == IF last THEN 0 ELSE c.pos + 1
           d == [c EXCEPT !.done = c.done + 1, !.entry = entry, !.pos = pos]
<1>1. c \in Commands
  BY DEF SlotsOK
<1>2. hw' = [hw EXCEPT ![s] = d]
  BY Zenon DEF DevTransfer, SlotsOK
<1>3. entry \in Nat /\ pos \in Nat /\ c.done + 1 \in Nat
  <2> HIDE DEF c
  <2>1. c.entry \in Nat /\ c.pos \in Nat /\ c.done \in Nat
    BY <1>1 DEF Commands
  <2> QED BY <2>1
<1> HIDE DEF entry, pos, c
<1>4. /\ d \in Commands /\ d.lba = c.lba /\ d.count = c.count /\ d.base = c.base /\ d.prdt = c.prdt
      /\ d.done = c.done + 1 /\ d.entry = entry /\ d.pos = pos
  BY <1>1, <1>3, Zenon DEF Commands
<1> HIDE DEF d
<1>5. /\ hw' \in [AllSlots -> Commands] /\ hw'[s] = d
      /\ \A t \in AllSlots \ {s} : hw'[t] = hw[t]
  BY <1>2, <1>4 DEF SlotsOK
<1> QED BY <1>1, <1>4, <1>5, Zenon DEF DevTransfer, c, entry, pos

(* The device removes slots from PxCI only. *)
LEMMA DeviceSlots ==
  ASSUME SlotsOK, Device \/ DevBusy \/ DevReady \/ \E s \in AllSlots : DevError(s)
  PROVE  SlotsOK'
<1> USE DEF SlotsOK, SlotAccounting, FreeSlots
<1>1. ASSUME NEW s \in AllSlots, DevTransfer(s) PROVE SlotsOK'
  <2>1. hw' \in [AllSlots -> Commands] /\ UNCHANGED <<cpu, ci>>
    BY <1>1, TransferFacts, Zenon
  <2> QED BY <2>1, Zenon DEF cpu
<1>2. ASSUME NEW s \in AllSlots, DevComplete(s) PROVE SlotsOK'
  BY <1>2 DEF DevComplete, cpu
<1>3. CASE DevBusy \/ DevReady \/ \E s \in AllSlots : DevError(s)
  BY <1>3, Zenon DEF DevBusy, DevReady, DevError, cpu
<1> QED BY <1>1, <1>2, <1>3, Zenon DEF Device

(* Every step keeps SlotsOK. *)
LEMMA NextSlots ==
  ASSUME SlotSetsOK, RequestOK, SlotsOK, [Next]_vars
  PROVE  SlotsOK'
<1>1. CASE Panicked \/ UNCHANGED vars
  BY <1>1 DEF Panicked, vars, SlotsOK, SlotAccounting, FreeSlots
<1> QED BY <1>1, CpuSlots, DeviceSlots DEF Next

-----------------------------------------------------------------------------
(* The fields of a command. *)
LEMMA CommandFields ==
  ASSUME NEW c \in Commands
  PROVE  /\ c.lba \in Nat /\ c.count \in Nat /\ c.base \in Nat
         /\ c.prdt \in Seq(Buffers) /\ Len(c.prdt) \in Nat
         /\ c.entry \in Nat /\ c.pos \in Nat /\ c.done \in Nat
BY DEF Commands

(* The tables of the commands the device works on and keeps on working on. *)
TablesKept == \A s \in ci \cap ci' : hw'[s].lba = hw[s].lba /\ hw'[s].prdt = hw[s].prdt
                                      /\ hw'[s].done >= hw[s].done

(* Every step keeps them. *)
LEMMA TablesStep ==
  ASSUME SlotSetsOK, RequestOK, SlotsOK, Next
  PROVE  TablesKept
<1>1. \A s \in ci : hw[s] \in Commands
  BY DEF SlotsOK
<1>2. CASE hw' = hw
  <2>1. \A s \in ci : hw[s].done \in Nat
    BY <1>1, CommandFields
  <2> QED BY <1>2, <2>1 DEF TablesKept
<1>3. CASE Issue
  <2> DEFINE t == Least(FreeSlots)
  <2>1. t \notin ci /\ \E command : hw' = [hw EXCEPT ![t] = command]
    BY <1>3, IssueFacts
  <2> HIDE DEF t
  <2>2. \A s \in ci : hw'[s] = hw[s]
    BY <2>1 DEF SlotsOK
  <2>3. \A s \in ci : hw[s].done \in Nat
    BY <1>1, CommandFields
  <2> QED BY <2>2, <2>3 DEF TablesKept
<1>4. ASSUME NEW t \in AllSlots, DevTransfer(t) PROVE TablesKept
  <2>1. hw[t] \in Commands /\ (\A s \in AllSlots \ {t} : hw'[s] = hw[s])
    BY <1>4, TransferFacts, Zenon
  <2>2. hw'[t].lba = hw[t].lba /\ hw'[t].prdt = hw[t].prdt /\ hw'[t].done = hw[t].done + 1
    BY <1>4, TransferFacts
  <2>3. \A s \in ci : s \in AllSlots /\ hw[s].done \in Nat
    BY <1>1, CommandFields DEF SlotsOK
  <2>4. \A s \in ci : s # t => hw'[s] = hw[s]
    BY <2>1, <2>3, Zenon
  <2> QED BY <2>2, <2>3, <2>4 DEF TablesKept
<1>5. hw' = hw \/ Issue \/ \E t \in AllSlots : DevTransfer(t)
  BY Zenon DEF Next, Cpu, Read, NewBuffer, NoFreeSlot, BusyLoop, BusyDone, WaitDone, Record, RequestDone,
         CopyBuffer, Return, Panicked, Device, DevComplete, DevBusy, DevReady, DevError, vars
<1> QED BY <1>2, <1>3, <1>4, <1>5, Zenon

-----------------------------------------------------------------------------
(* A command c the device works on: its PRDT splits its sectors like the   *)
(* request splits its own, it starts at a buffer, and the cursor is where  *)
(* the sectors done say.                                                   *)
CommandOK(c) ==
  /\ c.count <= CmdSectors /\ Parts(c.count, Len(c.prdt))
  /\ \A k \in 1 .. Len(c.prdt) : c.prdt[k].sectors = PartSectors(c.count, k)
  /\ \E q \in Nat : c.base = q * BufSectors
  /\ c.done <= c.count
  /\ c.done < c.count => /\ c.entry >= 1 /\ c.pos < BufSectors
                         /\ c.done = (c.entry - 1) * BufSectors + c.pos

(* The command being run is for the request's buffers from offset on. *)
RunningOK ==
  pc \in InCommand =>
    /\ hw[slot].base = offset
    /\ hw[slot].count = Minimum(req.count - offset, CmdSectors)
    /\ hw[slot].lba = DeviceLba(req.sector + offset)
    /\ \A q \in Nat : offset = q * BufSectors =>
         \A k \in 1 .. Len(hw[slot].prdt) : hw[slot].prdt[k] = req.buffer[q + k]

CursorsOK == (\A s \in ci : CommandOK(hw[s])) /\ RunningOK

(* Half of Parts orders the numbers of buffers as those of sectors. *)
LEMMA PartsOrder ==
  ASSUME NEW a \in Int, NEW b \in Int, a * BufSectors < b * BufSectors
  PROVE  a < b
BY MultMono

(* A command has no more PRDT entries than its table has room for. *)
LEMMA PrdtFits ==
  ASSUME NEW n \in Nat, NEW l \in Nat, Parts(n, l), n <= CmdSectors
  PROVE  l <= PrdtMax
<1>1. (l - 1) * BufSectors < PrdtMax * BufSectors
  BY DEF Parts
<1>2. l - 1 < PrdtMax
  BY <1>1, PartsOrder
<1> QED BY <1>2

(* The cursor of a command that has sectors left is inside its PRDT. *)
LEMMA CursorInside ==
  ASSUME NEW n \in Nat, NEW l \in Nat, Parts(n, l), NEW entry \in Nat, NEW pos \in Nat,
         entry >= 1, pos < BufSectors, (entry - 1) * BufSectors + pos < n
  PROVE  entry <= l /\ pos < PartSectors(n, entry)
<1>1. (entry - 1) * BufSectors < l * BufSectors
  <2>1. (entry - 1) * BufSectors \in Int /\ l * BufSectors \in Int
    OBVIOUS
  <2> QED BY <2>1 DEF Parts
<1>2. entry - 1 < l
  BY <1>1, PartsOrder
<1>3. pos < PartSectors(n, entry)
  BY DEF PartSectors, Minimum
<1> QED BY <1>2, <1>3

(* The device moves to the next entry when the one it is at is full. *)
LEMMA CursorMoves ==
  ASSUME NEW n \in Nat, NEW entry \in Nat, NEW pos \in Nat,
         entry >= 1, pos < BufSectors, (entry - 1) * BufSectors + pos + 1 < n
  PROVE  /\ pos + 1 = PartSectors(n, entry) =>
              (entry - 1) * BufSectors + pos + 1 = entry * BufSectors
         /\ pos + 1 # PartSectors(n, entry) => pos + 1 < BufSectors
<1>1. entry * BufSectors = (entry - 1) * BufSectors + BufSectors
  OBVIOUS
<1>2. (entry - 1) * BufSectors \in Int
  OBVIOUS
<1> QED BY <1>1, <1>2 DEF PartSectors, Minimum

(* A command that starts at buffer q of n sectors: its PRDT is within the  *)
(* request's buffers, and splits its sectors the same way.                 *)
LEMMA CommandParts ==
  ASSUME NEW n \in Nat, NEW l \in Nat, Parts(n, l), NEW q \in Nat, q * BufSectors < n,
         NEW count \in Nat, count = Minimum(n - q * BufSectors, CmdSectors)
  PROVE  /\ FirstBuffer(q * BufSectors) = q
         /\ PrdtLength(count) \in Nat /\ PrdtLength(count) >= 1
         /\ Parts(count, PrdtLength(count))
         /\ q + PrdtLength(count) <= l
         /\ \A k \in 1 .. PrdtLength(count) : PartSectors(n, q + k) = PartSectors(count, k)
<1> DEFINE m == PrdtLength(count)
<1>1. q * BufSectors \in Nat /\ (q + 1) * BufSectors = q * BufSectors + BufSectors
  OBVIOUS
<1>2. FirstBuffer(q * BufSectors) = q
  BY <1>1, Quotient DEF FirstBuffer
<1>3. count \in Nat \ {0} /\ count <= n - q * BufSectors
  <2>1. CmdSectors \in Nat \ {0}
    OBVIOUS
  <2> QED BY <1>1, <2>1 DEF Minimum
<1>4. m \in Nat /\ m >= 1 /\ (m - 1) * BufSectors < count /\ count <= m * BufSectors
  BY <1>3, PrdtLengthParts DEF Parts
<1> HIDE DEF m
<1>5. q + m <= l
  <2>1. (q + m - 1) * BufSectors = q * BufSectors + (m - 1) * BufSectors
    BY <1>4
  <2>2. (q + m - 1) * BufSectors < l * BufSectors
    <3>1. q * BufSectors \in Int /\ (m - 1) * BufSectors \in Int /\ l * BufSectors \in Int
      BY <1>4
    <3> QED BY <1>3, <1>4, <2>1, <3>1 DEF Parts
  <2>3. q + m - 1 < l
    BY <1>4, <2>2, PartsOrder
  <2> QED BY <1>4, <2>3
<1>6. ASSUME NEW k \in 1 .. m PROVE PartSectors(n, q + k) = PartSectors(count, k)
  <2> DEFINE before == (k - 1) * BufSectors
  <2>1. (q + k - 1) * BufSectors = q * BufSectors + before /\ before \in Int
    BY <1>4
  <2>2. CASE count = n - q * BufSectors
    BY <1>1, <2>1, <2>2 DEF PartSectors
  <2>3. CASE count = CmdSectors /\ count < n - q * BufSectors
    <3>1. (m - 1) * BufSectors < PrdtMax * BufSectors
      BY <1>4, <2>3
    <3>2. m - 1 < PrdtMax
      BY <1>4, <3>1, PartsOrder
    <3>3. k * BufSectors <= PrdtMax * BufSectors
      BY <1>4, <3>2, MultMono
    <3>4. before + BufSectors = k * BufSectors /\ PrdtMax * BufSectors = CmdSectors
      BY <1>4
    <3>5. before + BufSectors <= count
      BY <2>3, <3>3, <3>4
    <3> HIDE DEF before
    <3>6. count - before >= BufSectors /\ n - (q * BufSectors + before) >= BufSectors
      BY <1>1, <2>1, <2>3, <3>5
    <3>7. Minimum(count - before, BufSectors) = BufSectors
      BY <2>1, <3>6 DEF Minimum
    <3>8. Minimum(n - (q * BufSectors + before), BufSectors) = BufSectors
      BY <1>1, <2>1, <3>6 DEF Minimum
    <3> QED BY <2>1, <3>7, <3>8 DEF PartSectors, before
  <2> QED BY <1>1, <1>3, <2>2, <2>3 DEF Minimum
<1> QED BY <1>2, <1>4, <1>5, <1>6 DEF m, Parts

(* run_command fills a table whose cursor is at its start. *)
LEMMA IssueCursors ==
  ASSUME SlotSetsOK, RequestOK, SlotsOK, CursorsOK, Issue
  PROVE  CursorsOK'
<1> DEFINE s == Least(FreeSlots)
           count == Minimum(req.count - offset, CmdSectors)
           c == Command(offset, count)
<1>1. /\ s \in AllSlots /\ s \notin ci /\ count \in Nat \ {0} /\ c \in Commands
      /\ slot' = s /\ hw' = [hw EXCEPT ![s] = c] /\ ci' = ci \cup {s}
      /\ pc' = "busy" /\ pc = "run" /\ offset < req.count
      /\ UNCHANGED <<req, offset>>
  BY IssueFacts
<1>2. PICK q \in Nat : offset = q * BufSectors
  BY <1>1 DEF RequestOK
<1>3. req.count \in Nat /\ Len(req.buffer) \in Nat /\ Parts(req.count, Len(req.buffer))
  BY <1>1 DEF RequestOK
<1> DEFINE m == PrdtLength(count)
<1>4. /\ FirstBuffer(offset) = q /\ m \in Nat /\ m >= 1 /\ Parts(count, m)
      /\ q + m <= Len(req.buffer)
      /\ \A k \in 1 .. m : PartSectors(req.count, q + k) = PartSectors(count, k)
  <2> DEFINE n == req.count
             l == Len(req.buffer)
  <2>1. /\ n \in Nat /\ l \in Nat /\ Parts(n, l) /\ q * BufSectors < n
        /\ count \in Nat /\ count = Minimum(n - q * BufSectors, CmdSectors)
    BY <1>1, <1>2, <1>3
  <2> HIDE DEF n, l, count
  <2>2. /\ FirstBuffer(q * BufSectors) = q
        /\ PrdtLength(count) \in Nat /\ PrdtLength(count) >= 1
        /\ Parts(count, PrdtLength(count))
        /\ q + PrdtLength(count) <= l
        /\ \A k \in 1 .. PrdtLength(count) : PartSectors(n, q + k) = PartSectors(count, k)
    BY <2>1, CommandParts
  <2> QED BY <1>2, <2>2 DEF n, l
<1>5. /\ c.count = count /\ c.base = offset /\ c.prdt = Prdt(offset, count)
      /\ c.entry = 1 /\ c.pos = 0 /\ c.done = 0
      /\ c.lba = DeviceLba(req.sector + offset)
  BY DEF Command
<1> HIDE DEF s, count, c, m
<1>6. Len(c.prdt) = m /\ \A k \in 1 .. m : c.prdt[k] = req.buffer[q + k]
  <2>1. c.prdt = SubSeq(req.buffer, q + 1, q + m)
    <3>1. c.prdt = SubSeq(req.buffer, q + 1, Minimum(Len(req.buffer), q + m))
      BY <1>4, <1>5, Zenon DEF Prdt, m
    <3>2. Len(req.buffer) \in Nat
      BY DEF RequestOK
    <3>3. Minimum(Len(req.buffer), q + m) = q + m
      BY <1>4, <3>2 DEF Minimum
    <3> QED BY <3>1, <3>3, Zenon
  <2>2. req.buffer \in Seq(Buffers)
    BY DEF RequestOK
  <2>3. q \in Nat /\ m \in Nat /\ m >= 1 /\ q + m <= Len(req.buffer)
    BY <1>3, <1>4
  <2>4. LET t == SubSeq(req.buffer, q + 1, q + m)
        IN Len(t) = m /\ \A k \in 1 .. m : t[k] = req.buffer[q + k]
    BY <2>2, <2>3, PartOfSeq, SMTT(30)
  <2> QED BY <2>1, <2>4, Zenon
<1>7. \A k \in 1 .. m : c.prdt[k].sectors = PartSectors(count, k)
  <2>1. \A k \in 1 .. m : q + k \in 1 .. Len(req.buffer)
    <3>1. m \in Nat /\ q + m <= Len(req.buffer) /\ Len(req.buffer) \in Nat
      BY <1>3, <1>4
    <3> QED BY <3>1
  <2>2. \A k \in 1 .. m : req.buffer[q + k].sectors = PartSectors(req.count, q + k)
    BY <2>1 DEF RequestOK
  <2>3. \A k \in 1 .. m : PartSectors(req.count, q + k) = PartSectors(count, k)
    BY <1>4
  <2> QED BY <1>6, <2>2, <2>3, Zenon
<1>8. CommandOK(c)
  <2>1. count <= CmdSectors
    BY <1>1 DEF count, Minimum, RequestOK
  <2>2. 0 = (1 - 1) * BufSectors + 0 /\ 0 < BufSectors
    OBVIOUS
  <2>3. c.count <= CmdSectors /\ c.done <= c.count /\ Parts(c.count, Len(c.prdt))
    BY <1>1, <1>4, <1>5, <1>6, <2>1
  <2>4. \A k \in 1 .. Len(c.prdt) : c.prdt[k].sectors = PartSectors(c.count, k)
    BY <1>5, <1>6, <1>7
  <2>5. \E p \in Nat : c.base = p * BufSectors
    BY <1>2, <1>5
  <2>6. c.entry >= 1 /\ c.pos < BufSectors /\ c.done = (c.entry - 1) * BufSectors + c.pos
    BY <1>5, <2>2
  <2> QED BY <2>3, <2>4, <2>5, <2>6 DEF CommandOK
<1>9. hw'[s] = c /\ \A t \in ci : hw'[t] = hw[t]
  BY <1>1 DEF SlotsOK
<1>10. \A t \in ci' : CommandOK(hw'[t])
  BY <1>1, <1>8, <1>9 DEF CursorsOK
<1>11. \A p \in Nat : offset = p * BufSectors => p = q
  <2> SUFFICES ASSUME NEW p \in Nat, p * BufSectors = q * BufSectors PROVE p = q
    BY <1>2
  <2>1. ~(p + 1 <= q) /\ ~(q + 1 <= p)
    BY MultMono
  <2> QED BY <2>1
<1>12. DeviceLba(req.sector + offset)' = DeviceLba(req.sector + offset)
  BY <1>1 DEF DeviceLba
<1>13. RunningOK'
  <2>1. hw'[slot'] = c /\ c.count = Minimum(req'.count - offset', CmdSectors) /\ c.base = offset'
    BY <1>1, <1>5, <1>9 DEF count
  <2>2. \A p \in Nat : offset' = p * BufSectors =>
          \A k \in 1 .. Len(c.prdt) : c.prdt[k] = req'.buffer[p + k]
    <3> SUFFICES ASSUME NEW p \in Nat, offset' = p * BufSectors, NEW k \in 1 .. Len(c.prdt)
                 PROVE  c.prdt[k] = req'.buffer[p + k]
      OBVIOUS
    <3>1. p = q /\ req' = req
      BY <1>1, <1>11
    <3> QED BY <1>6, <3>1
  <2>3. hw'[slot'].lba = DeviceLba(req.sector + offset)'
    BY <1>5, <1>12, <2>1
  <2>4. \A p \in Nat : offset' = p * BufSectors =>
          \A k \in 1 .. Len(hw'[slot'].prdt) : hw'[slot'].prdt[k] = req'.buffer[p + k]
    BY <2>1, <2>2, Zenon
  <2>5. hw'[slot'].base = offset' /\ hw'[slot'].count = Minimum(req'.count - offset', CmdSectors)
    BY <2>1, Zenon
  <2> QED BY <2>3, <2>4, <2>5, Zenon DEF RunningOK
<1> QED BY <1>10, <1>13 DEF CursorsOK

(* A sector is transferred: the cursor follows. *)
LEMMA TransferCommand ==
  ASSUME NEW c \in Commands, NEW d \in Commands, CommandOK(c), c.done < c.count,
         d.count = c.count, d.base = c.base, d.prdt = c.prdt, d.done = c.done + 1,
         d.entry = IF c.pos + 1 = c.prdt[c.entry].sectors THEN c.entry + 1 ELSE c.entry,
         d.pos = IF c.pos + 1 = c.prdt[c.entry].sectors THEN 0 ELSE c.pos + 1
  PROVE  CommandOK(d)
<1>1. /\ c.count \in Nat /\ c.done \in Nat /\ c.entry \in Nat /\ c.pos \in Nat
      /\ c.prdt \in Seq(Buffers) /\ Len(c.prdt) \in Nat
  BY DEF Commands
<1>2. /\ c.entry >= 1 /\ c.pos < BufSectors /\ c.done = (c.entry - 1) * BufSectors + c.pos
      /\ Parts(c.count, Len(c.prdt))
  BY DEF CommandOK
<1>3. c.entry <= Len(c.prdt)
  <2>1. (c.entry - 1) * BufSectors + c.pos < c.count
    BY <1>2, Zenon
  <2> QED BY <1>1, <1>2, <2>1, CursorInside, Zenon
<1>4. c.prdt[c.entry].sectors = PartSectors(c.count, c.entry)
  <2>1. \A k \in 1 .. Len(c.prdt) : c.prdt[k].sectors = PartSectors(c.count, k)
    BY DEF CommandOK
  <2>2. c.entry \in 1 .. Len(c.prdt)
    BY <1>1, <1>2, <1>3
  <2> QED BY <2>1, <2>2, Zenon
<1>5. d.done <= d.count
  BY <1>1, SMTT(30)
<1>6. ASSUME d.done < d.count
      PROVE  d.entry >= 1 /\ d.pos < BufSectors /\ d.done = (d.entry - 1) * BufSectors + d.pos
  <2>1. (c.entry - 1) * BufSectors + c.pos + 1 < c.count
    <3>1. (c.entry - 1) * BufSectors \in Int
      BY <1>1, SMTT(30)
    <3> QED BY <1>1, <1>2, <1>6, <3>1, Zenon
  <2>2. /\ c.pos + 1 = PartSectors(c.count, c.entry) =>
             (c.entry - 1) * BufSectors + c.pos + 1 = c.entry * BufSectors
        /\ c.pos + 1 # PartSectors(c.count, c.entry) => c.pos + 1 < BufSectors
    <3> DEFINE n == c.count
               entry == c.entry
               pos == c.pos
    <3>1. /\ n \in Nat /\ entry \in Nat /\ pos \in Nat /\ entry >= 1 /\ pos < BufSectors
          /\ (entry - 1) * BufSectors + pos + 1 < n
      BY <1>1, <1>2, <2>1, Zenon
    <3> HIDE DEF n, entry, pos
    <3>2. /\ pos + 1 = PartSectors(n, entry) =>
               (entry - 1) * BufSectors + pos + 1 = entry * BufSectors
          /\ pos + 1 # PartSectors(n, entry) => pos + 1 < BufSectors
      BY <3>1, CursorMoves
    <3> QED BY <3>2, Zenon DEF n, entry, pos
  <2>3. CASE c.pos + 1 = PartSectors(c.count, c.entry)
    <3>1. d.entry = c.entry + 1 /\ d.pos = 0
      BY <1>4, <2>3
    <3>2. (c.entry - 1) * BufSectors + c.pos + 1 = c.entry * BufSectors
      BY <2>2, <2>3, Zenon
    <3>3. c.done + 1 = (c.entry - 1) * BufSectors + c.pos + 1
      <4>1. (c.entry - 1) * BufSectors \in Int
        BY <1>1
      <4> QED BY <1>1, <1>2, <4>1
    <3>4. d.done = (d.entry - 1) * BufSectors + d.pos
      <4>1. d.entry - 1 = c.entry
        BY <1>1, <3>1
      <4>2. c.entry * BufSectors \in Int
        BY <1>1
      <4> QED BY <3>1, <3>2, <3>3, <4>1, <4>2
    <3>5. d.entry >= 1 /\ d.pos < BufSectors
      BY <1>1, <3>1
    <3> QED BY <3>4, <3>5
  <2>4. CASE c.pos + 1 # PartSectors(c.count, c.entry)
    <3>1. d.entry = c.entry /\ d.pos = c.pos + 1
      BY <1>4, <2>4
    <3>2. (c.entry - 1) * BufSectors \in Int
      BY <1>1, SMTT(30)
    <3>3. d.entry >= 1 /\ d.pos < BufSectors
      BY <1>1, <1>2, <2>2, <2>4, <3>1
    <3>4. d.done = (c.entry - 1) * BufSectors + d.pos
      <4> DEFINE m == (c.entry - 1) * BufSectors
      <4>1. m \in Int /\ c.done = m + c.pos
        BY <1>2, <3>2, Zenon
      <4> HIDE DEF m
      <4>2. d.done = m + d.pos
        BY <1>1, <3>1, <4>1, SMTT(30)
      <4> QED BY <4>2, Zenon DEF m
    <3> QED BY <3>1, <3>3, <3>4, Zenon
  <2> QED BY <2>3, <2>4, Zenon
<1>7. /\ d.count <= CmdSectors /\ Parts(d.count, Len(d.prdt))
      /\ \A k \in 1 .. Len(d.prdt) : d.prdt[k].sectors = PartSectors(d.count, k)
      /\ \E q \in Nat : d.base = q * BufSectors
  BY Zenon DEF CommandOK
<1> QED BY <1>5, <1>6, <1>7, Zenon DEF CommandOK

(* Initially the device has no command. *)
LEMMA InitCursors == Init => CursorsOK
BY DEF Init, CursorsOK, RunningOK, InCommand

(* Every step keeps the cursors right. *)
LEMMA NextCursors ==
  ASSUME SlotSetsOK, RequestOK, SlotsOK, CursorsOK, [Next]_vars
  PROVE  CursorsOK'
<1>1. CASE Issue
  BY <1>1, IssueCursors
<1>2. ASSUME NEW s \in AllSlots, DevTransfer(s) PROVE CursorsOK'
  <2> DEFINE c == hw[s]
             d == hw'[s]
  <2>1. /\ s \in ci /\ c \in Commands /\ c.done < c.count /\ d \in Commands
        /\ \A t \in AllSlots \ {s} : hw'[t] = hw[t]
        /\ d.lba = c.lba /\ d.count = c.count /\ d.base = c.base /\ d.prdt = c.prdt
        /\ d.done = c.done + 1
        /\ d.entry = IF c.pos + 1 = c.prdt[c.entry].sectors THEN c.entry + 1 ELSE c.entry
        /\ d.pos = IF c.pos + 1 = c.prdt[c.entry].sectors THEN 0 ELSE c.pos + 1
        /\ UNCHANGED <<cpu, ci>>
    BY <1>2, TransferFacts
  <2>2. CommandOK(c)
    BY <2>1, Zenon DEF CursorsOK
  <2> HIDE DEF c, d
  <2>3. CommandOK(d)
    BY <2>1, <2>2, TransferCommand, Zenon
  <2>4. \A t \in ci' : CommandOK(hw'[t])
    BY <2>1, <2>3, Zenon DEF CursorsOK, SlotsOK, d
  <2>5. /\ hw'[slot].lba = hw[slot].lba /\ hw'[slot].count = hw[slot].count
        /\ hw'[slot].base = hw[slot].base /\ hw'[slot].prdt = hw[slot].prdt
    BY <2>1 DEF SlotsOK, c, d
  <2>6. RunningOK'
    <3>1. UNCHANGED <<pc, req, offset, slot>> /\ RunningOK
      BY <2>1, Zenon DEF cpu, CursorsOK
    <3>2. DeviceLba(req.sector + offset)' = DeviceLba(req.sector + offset)
      BY <3>1, Zenon DEF DeviceLba
    <3> SUFFICES ASSUME pc \in InCommand
                 PROVE  /\ hw'[slot].base = offset
                        /\ hw'[slot].count = Minimum(req.count - offset, CmdSectors)
                        /\ hw'[slot].lba = DeviceLba(req.sector + offset)
                        /\ \A q \in Nat : offset = q * BufSectors =>
                             \A k \in 1 .. Len(hw'[slot].prdt) : hw'[slot].prdt[k] = req.buffer[q + k]
      BY <3>1, <3>2, Zenon DEF RunningOK
    <3> QED BY <2>5, <3>1, Zenon DEF RunningOK
  <2> QED BY <2>4, <2>6, Zenon DEF CursorsOK
<1>3. CASE /\ ci' \subseteq ci /\ hw' = hw
           /\ pc' \in InCommand => pc \in InCommand /\ UNCHANGED <<slot, req, offset>>
  <2>1. \A t \in ci' : CommandOK(hw'[t])
    BY <1>3, Zenon DEF CursorsOK
  <2>2. RunningOK'
    BY <1>3 DEF CursorsOK, RunningOK, DeviceLba
  <2> QED BY <2>1, <2>2 DEF CursorsOK
<1>4. CASE \E r \in Requests : Read(r)
  BY <1>3, <1>4 DEF Read, InCommand
<1>5. CASE NewBuffer
  BY <1>3, <1>5, Zenon DEF NewBuffer, InCommand
<1>6. CASE BusyLoop \/ BusyDone \/ WaitDone \/ Record \/ RequestDone \/ CopyBuffer \/ Return
  <2>2. CASE BusyLoop \/ BusyDone \/ WaitDone
    BY <1>3, <2>2 DEF BusyLoop, BusyDone, WaitDone, InCommand
  <2>3. CASE Record \/ RequestDone
    BY <1>3, <2>3, Zenon DEF Record, RequestDone, InCommand
  <2>4. CASE CopyBuffer
    BY <1>3, <2>4 DEF CopyBuffer, InCommand
  <2>5. CASE Return
    BY <1>3, <2>5 DEF Return, InCommand
  <2> QED BY <1>6, <2>2, <2>3, <2>4, <2>5
<1>7. CASE NoFreeSlot \/ Panicked \/ UNCHANGED vars
  BY <1>3, <1>7 DEF NoFreeSlot, Panicked, vars
<1>8. ASSUME NEW s \in AllSlots, DevComplete(s) PROVE CursorsOK'
  BY <1>3, <1>8, Zenon DEF DevComplete, cpu
<1>9. CASE DevBusy \/ DevReady \/ \E s \in AllSlots : DevError(s)
  BY <1>3, <1>9, Zenon DEF DevBusy, DevReady, DevError, cpu
<1> QED BY <1>1, <1>2, <1>4, <1>5, <1>6, <1>7, <1>8, <1>9 DEF Next, Cpu, Device

(* The device writes every sector where copy_into looks for it. *)
LEMMA CursorsExact ==
  ASSUME RequestOK, SlotsOK, CursorsOK
  PROVE  DmaCursorExact
<1> SUFFICES ASSUME NEW s \in ci
             PROVE  LET c == hw[s] IN
                    /\ Len(c.prdt) <= PrdtMax
                    /\ c.done < c.count =>
                         /\ c.entry <= Len(c.prdt) /\ c.pos < c.prdt[c.entry].sectors
                         /\ c.done = (c.entry - 1) * BufSectors + c.pos
                         /\ c.base % BufSectors = 0
                         /\ (s = slot /\ pc \in {"busy", "wait", "record"}) =>
                              c.prdt[c.entry] = req.buffer[(c.base + c.done) \div BufSectors + 1]
  BY DEF DmaCursorExact
<1> DEFINE c == hw[s]
<1>1. CommandOK(c) /\ c \in Commands
  BY DEF CursorsOK, SlotsOK
<1>2. c.count \in Nat /\ Len(c.prdt) \in Nat /\ c.entry \in Nat /\ c.pos \in Nat /\ c.done \in Nat
  BY <1>1, CommandFields, Zenon
<1>3. (s = slot /\ pc \in InCommand) =>
        /\ c.base = offset
        /\ \A q \in Nat : offset = q * BufSectors =>
             \A k \in 1 .. Len(c.prdt) : c.prdt[k] = req.buffer[q + k]
  BY DEF CursorsOK, RunningOK
<1> HIDE DEF c
<1>4. Len(c.prdt) <= PrdtMax
  BY <1>1, <1>2, PrdtFits DEF CommandOK
<1>5. PICK q \in Nat : c.base = q * BufSectors
  BY <1>1 DEF CommandOK
<1>6. c.base % BufSectors = 0
  BY <1>5, MultipleMod, Zenon
<1>7. ASSUME c.done < c.count
      PROVE  /\ c.entry <= Len(c.prdt) /\ c.pos < c.prdt[c.entry].sectors
             /\ c.done = (c.entry - 1) * BufSectors + c.pos
             /\ (s = slot /\ pc \in InCommand) =>
                  c.prdt[c.entry] = req.buffer[(c.base + c.done) \div BufSectors + 1]
  <2>1. c.entry >= 1 /\ c.pos < BufSectors /\ c.done = (c.entry - 1) * BufSectors + c.pos
    BY <1>1, <1>7 DEF CommandOK
  <2>2. c.entry <= Len(c.prdt) /\ c.pos < PartSectors(c.count, c.entry)
    <3>1. Parts(c.count, Len(c.prdt)) /\ (c.entry - 1) * BufSectors + c.pos < c.count
      BY <1>1, <1>7, <2>1 DEF CommandOK
    <3> QED BY <1>2, <2>1, <3>1, CursorInside, Zenon
  <2>3. c.prdt[c.entry].sectors = PartSectors(c.count, c.entry)
    <3>1. \A k \in 1 .. Len(c.prdt) : c.prdt[k].sectors = PartSectors(c.count, k)
      BY <1>1, Zenon DEF CommandOK
    <3>2. c.entry \in 1 .. Len(c.prdt)
      BY <1>2, <2>1, <2>2
    <3> QED BY <3>1, <3>2, Zenon
  <2>4. (c.base + c.done) \div BufSectors = q + c.entry - 1
    <3> DEFINE p == q + c.entry - 1
    <3>1. /\ p \in Nat /\ p * BufSectors = q * BufSectors + (c.entry - 1) * BufSectors
          /\ (p + 1) * BufSectors = p * BufSectors + BufSectors /\ p * BufSectors \in Nat
      <4>1. p \in Nat
        BY <1>2, <2>1
      <4>2. p * BufSectors = q * BufSectors + (c.entry - 1) * BufSectors
        BY <1>2
      <4> HIDE DEF p
      <4>3. (p + 1) * BufSectors = p * BufSectors + BufSectors /\ p * BufSectors \in Nat
        BY <4>1
      <4> QED BY <4>1, <4>2, <4>3
    <3> HIDE DEF p
    <3>2. c.base + c.done = p * BufSectors + c.pos
      <4>1. q * BufSectors \in Int /\ (c.entry - 1) * BufSectors \in Int
        BY <1>2
      <4> QED BY <1>2, <1>5, <2>1, <3>1, <4>1
    <3>3. c.base + c.done \in Nat /\ p * BufSectors <= c.base + c.done
          /\ c.base + c.done < (p + 1) * BufSectors
      <4>1. c.base + c.done \in Nat
        BY <1>1, CommandFields
      <4> DEFINE m == p * BufSectors
                 n == (p + 1) * BufSectors
      <4>2. m \in Nat /\ n = m + BufSectors /\ c.base + c.done = m + c.pos
        BY <3>1, <3>2, Zenon
      <4>3. c.pos \in Nat /\ c.pos < BufSectors
        BY <1>2, <2>1, Zenon
      <4> HIDE DEF m, n
      <4>4. m <= c.base + c.done /\ c.base + c.done < n
        BY <4>2, <4>3
      <4> QED BY <4>1, <4>4, Zenon DEF m, n
    <3>4. (c.base + c.done) \div BufSectors = p
      BY <3>1, <3>3, Quotient
    <3> QED BY <3>4 DEF p
  <2>5. (c.base + c.done) \div BufSectors + 1 = q + c.entry
    BY <1>2, <2>4
  <2>6. c.entry \in 1 .. Len(c.prdt)
    BY <1>2, <2>1, <2>2
  <2>7. (s = slot /\ pc \in InCommand) => c.prdt[c.entry] = req.buffer[q + c.entry]
    BY <1>3, <1>5, <2>6, Zenon
  <2> QED BY <2>1, <2>2, <2>3, <2>5, <2>7, Zenon
<1> QED BY <1>4, <1>6, <1>7, Zenon DEF c, InCommand

-----------------------------------------------------------------------------
(* The first read of a port. *)

(* Memory holds numbers, buffers start at frames of the region, and the    *)
(* caller's buffer is filled by copy_into only.                            *)
PlacesOK ==
  /\ mem \in [Memory -> Int]
  /\ req.count = SectorCount(req.len)
  /\ \A k \in 1 .. Len(req.buffer) :
       \E n \in Nat : n < NumFrames /\ req.buffer[k].start = n * FrameSectors
  /\ pc \in {"alloc", "run"} \cup InCommand => into = <<>>

(* What the command of the first slot has transferred is in the buffer,    *)
(* and without a warning it is complete when run_command returns.          *)
FirstCommand ==
  (pc \in InCommand /\ cmds = {} /\ Len(req.buffer) = 1) =>
    /\ slot = 0
    /\ hw[slot].done <= hw[slot].count
    /\ slot \notin ci => hw[slot].done = hw[slot].count
    /\ \A k \in 0 .. (hw[slot].done - 1) : mem[req.buffer[1].start + k] = hw[slot].lba + k
    /\ (pc = "record" /\ ~warned) => slot \notin ci

Expected == [i \in 1 .. req.len |-> DeviceLba(req.sector) + (i - 1) \div SectorBytes]

FirstDone ==
  /\ cmds = {0} /\ Len(req.buffer) = 1 /\ req.count > 0 /\ ~warned
  /\ pc \in {"copy", "idle"} \/ (pc = "run" /\ offset >= req.count)

(* From then on the device is idle, and the read returns what it wrote. *)
FirstData ==
  FirstDone =>
    /\ ci = {} /\ req.count <= BufSectors
    /\ \A k \in 0 .. (req.count - 1) : mem[req.buffer[1].start + k] = DeviceLba(req.sector) + k
    /\ pc = "copy" => into = <<>> \/ into = Expected
    /\ pc = "idle" => into = Expected

FirstOK == PlacesOK /\ FirstCommand /\ FirstData

(* A buffer of no more than BufSectors sectors lies in the memory. *)
LEMMA BufferInMemory ==
  ASSUME NEW n \in Nat, n < NumFrames, NEW k \in Nat, k < BufSectors
  PROVE  n * FrameSectors + k \in Memory
<1>1. n * FrameSectors <= NumFrames * FrameSectors
  BY MultMono
<1>2. n * FrameSectors \in Nat /\ NumFrames * FrameSectors \in Nat
  OBVIOUS
<1> QED BY <1>1, <1>2 DEF Memory

(* A request of one buffer starts its only command at offset 0. *)
LEMMA OneBuffer ==
  ASSUME RequestOK, Len(req.buffer) = 1, pc \in {"run"} \cup InCommand
  PROVE  req.count \in Nat /\ req.count <= BufSectors /\ (offset < req.count => offset = 0)
<1>1. req.count \in Nat /\ offset \in Nat /\ Parts(req.count, 1)
      /\ (offset < req.count => \E q \in Nat : offset = q * BufSectors)
  BY DEF RequestOK
<1>2. req.count <= BufSectors
  BY <1>1 DEF Parts
<1>3. ASSUME NEW q \in Nat, offset = q * BufSectors, offset < req.count PROVE offset = 0
  <2>1. ~(1 <= q)
    <3> SUFFICES ASSUME 1 <= q PROVE FALSE
      OBVIOUS
    <3>1. 1 * BufSectors <= q * BufSectors
      BY MultMono
    <3> QED BY <1>1, <1>2, <1>3, <3>1
  <2>2. q = 0
    BY <2>1
  <2> QED BY <1>3, <2>2
<1> QED BY <1>1, <1>2, <1>3

(* The bytes of a read of at most one buffer lie in its sectors. *)
LEMMA ReadSize ==
  ASSUME NEW len \in Nat
  PROVE  /\ SectorCount(len) \in Nat
         /\ \A i \in 1 .. len : (i - 1) \div SectorBytes \in 0 .. (SectorCount(len) - 1)
         /\ SectorCount(len) <= BufSectors => len <= BufSectors * SectorBytes
         /\ SectorCount(len) > 0 => len > 0
<1> DEFINE c == SectorCount(len)
<1>1. c \in Nat /\ c * SectorBytes <= len + SectorBytes - 1 /\ len + SectorBytes - 1 < (c + 1) * SectorBytes
  BY Division DEF SectorCount
<1>2. (c + 1) * SectorBytes = c * SectorBytes + SectorBytes /\ c * SectorBytes \in Nat
  BY <1>1
<1>3. len <= c * SectorBytes
  <2> HIDE DEF c
  <2> QED BY <1>1, <1>2
<1>4. ASSUME NEW i \in 1 .. len PROVE (i - 1) \div SectorBytes \in 0 .. (c - 1)
  <2> DEFINE q == (i - 1) \div SectorBytes
  <2>1. q \in Nat /\ q * SectorBytes <= i - 1
    BY Division
  <2> HIDE DEF q, c
  <2>2. ~(c <= q)
    <3> SUFFICES ASSUME c <= q PROVE FALSE
      OBVIOUS
    <3>1. c * SectorBytes <= q * SectorBytes
      BY <1>1, <2>1, MultMono
    <3>2. q * SectorBytes \in Nat
      BY <2>1
    <3> QED BY <1>2, <1>3, <2>1, <3>1, <3>2
  <2>3. q \in 0 .. (c - 1)
    BY <1>1, <2>1, <2>2
  <2> QED BY <2>3 DEF q
<1>5. ASSUME c <= BufSectors PROVE len <= BufSectors * SectorBytes
  <2> HIDE DEF c
  <2>1. c * SectorBytes <= BufSectors * SectorBytes
    BY <1>1, <1>5, MultMono
  <2> QED BY <1>2, <1>3, <2>1
<1>6. ASSUME c > 0 PROVE len > 0
  <2> HIDE DEF c
  <2>1. 1 * SectorBytes <= c * SectorBytes
    BY <1>1, <1>6, MultMono
  <2> QED BY <1>1, <1>2, <2>1
<1> QED BY <1>1, <1>4, <1>5, <1>6

(* The command of a request of one buffer. *)
LEMMA OneCommand ==
  ASSUME RequestOK, SlotsOK, CursorsOK, pc \in InCommand, Len(req.buffer) = 1
  PROVE  /\ offset = 0 /\ req.count \in Nat /\ req.count <= BufSectors
         /\ hw[slot].count = req.count /\ hw[slot].lba = DeviceLba(req.sector)
         /\ \A k \in 1 .. Len(hw[slot].prdt) : hw[slot].prdt[k] = req.buffer[k]
<1>1. offset < req.count
  BY DEF RequestOK
<1>2. req.count \in Nat /\ req.count <= BufSectors /\ offset = 0
  BY <1>1, OneBuffer
<1>3. req.sector + 0 = req.sector /\ Len(hw[slot].prdt) \in Nat
  BY DEF RequestOK, SlotsOK, Commands
<1>4. 0 * BufSectors = 0 /\ \A k \in 1 .. Len(hw[slot].prdt) : 0 + k = k
  BY <1>3
<1>5. /\ hw[slot].count = Minimum(req.count - 0, CmdSectors)
      /\ hw[slot].lba = DeviceLba(req.sector + 0)
      /\ \A k \in 1 .. Len(hw[slot].prdt) : hw[slot].prdt[k] = req.buffer[0 + k]
  BY <1>2, <1>4, Zenon DEF CursorsOK, RunningOK
<1>6. 1 * BufSectors <= PrdtMax * BufSectors
  BY MultMono
<1>7. Minimum(req.count - 0, CmdSectors) = req.count
  BY <1>2, <1>6 DEF Minimum
<1> QED BY <1>2, <1>3, <1>4, <1>5, <1>7

(* While it has sectors left, the device is in its first PRDT entry. *)
LEMMA OneEntry ==
  ASSUME RequestOK, SlotsOK, CursorsOK, pc \in InCommand, Len(req.buffer) = 1,
         slot \in ci, hw[slot].done < hw[slot].count
  PROVE  LET c == hw[slot]
         IN c.prdt[c.entry] = req.buffer[1] /\ c.pos = c.done /\ c.done < BufSectors
<1> DEFINE c == hw[slot]
<1>1. /\ req.count <= BufSectors /\ c.count = req.count /\ req.count \in Nat
      /\ \A k \in 1 .. Len(c.prdt) : c.prdt[k] = req.buffer[k]
  BY OneCommand
<1>2. CommandOK(c) /\ c \in Commands /\ c.done < c.count
  BY DEF CursorsOK, SlotsOK
<1> HIDE DEF c
<1>3. /\ c.count \in Nat /\ c.done \in Nat /\ c.entry \in Nat /\ c.pos \in Nat /\ Len(c.prdt) \in Nat
  BY <1>2 DEF Commands
<1>4. /\ c.entry >= 1 /\ c.pos < BufSectors /\ c.done = (c.entry - 1) * BufSectors + c.pos
      /\ Parts(c.count, Len(c.prdt))
  BY <1>2 DEF CommandOK
<1>5. c.entry = 1
  <2>1. (c.entry - 1) * BufSectors < 1 * BufSectors
    <3> DEFINE m == (c.entry - 1) * BufSectors
    <3>1. m \in Int /\ 1 * BufSectors = BufSectors
      BY <1>3
    <3>2. c.done = m + c.pos
      BY <1>4, Zenon
    <3> HIDE DEF m
    <3>3. m < BufSectors
      BY <1>1, <1>2, <1>3, <3>1, <3>2
    <3> QED BY <3>1, <3>3, Zenon DEF m
  <2>2. c.entry - 1 < 1
    BY <1>3, <2>1, PartsOrder
  <2> QED BY <1>3, <1>4, <2>2
<1>6. c.entry <= Len(c.prdt)
  BY <1>2, <1>3, <1>4, CursorInside, SMTT(30)
<1>7. c.prdt[1] = req.buffer[1] /\ c.pos = c.done
  BY <1>1, <1>3, <1>4, <1>5, <1>6
<1> QED BY <1>1, <1>2, <1>3, <1>5, <1>7 DEF c

(* The first free slot of a port without commands. *)
LEMMA FirstSlot == Least(AllSlots) = 0
<1>1. 0 \in AllSlots /\ \A j \in AllSlots : 0 <= j
  BY DEF AllSlots
<1>2. Least(AllSlots) \in AllSlots /\ \A j \in AllSlots : Least(AllSlots) <= j
  BY <1>1, Zenon DEF Least
<1> QED BY <1>1, <1>2 DEF AllSlots

-----------------------------------------------------------------------------
(* Every step keeps the places. *)
LEMMA NextPlaces == RequestOK /\ SlotsOK /\ PlacesOK /\ [Next]_vars => PlacesOK'
<1> SUFFICES ASSUME RequestOK, SlotsOK, PlacesOK, [Next]_vars PROVE PlacesOK'
  OBVIOUS
<1>1. ASSUME NEW r \in Requests, Read(r) PROVE PlacesOK'
  <2>1. req'.count = SectorCount(req'.len) /\ Len(req'.buffer) = 0 /\ into' = <<>> /\ mem' = mem
    BY <1>1 DEF Read
  <2> QED BY <2>1 DEF PlacesOK
<1>2. CASE NewBuffer
  <2> DEFINE b == [start |-> frame * FrameSectors,
                   sectors |-> Minimum(req.count - Len(req.buffer) * BufSectors, BufSectors)]
  <2>1. CASE frame = NumFrames
    BY <1>2, <2>1, Zenon DEF NewBuffer, PlacesOK, InCommand
  <2>2. CASE frame # NumFrames
    <3>1. /\ pc = "alloc" /\ into' = into
          /\ req' = [req EXCEPT !.buffer = Append(req.buffer, b)]
          /\ \E fill : mem' = [x \in Memory |-> IF x \in fill THEN Zero ELSE mem[x]]
      BY <1>2, <2>2, Zenon DEF NewBuffer
    <3>2. mem' \in [Memory -> Int]
      BY <3>1 DEF PlacesOK, Zero
    <3>3. req.buffer \in Seq(Buffers) /\ b \in Buffers /\ frame \in Nat /\ frame < NumFrames
      <4>1. frame \in Nat /\ frame < NumFrames /\ req.buffer \in Seq(Buffers) /\ req.count \in Nat
        BY <2>2 DEF RequestOK
      <4>2. Len(req.buffer) \in Nat /\ Len(req.buffer) * BufSectors < req.count
        BY <3>1, <4>1 DEF RequestOK
      <4>3. frame * FrameSectors \in Nat /\ Len(req.buffer) * BufSectors \in Nat
        BY <4>1, <4>2
      <4>4. b.sectors \in Nat
        BY <4>1, <4>2, <4>3 DEF Minimum
      <4> QED BY <4>1, <4>3, <4>4 DEF Buffers
    <3> DEFINE a == Append(req.buffer, b)
    <3>4. b.start = frame * FrameSectors
      OBVIOUS
    <3>5. req'.buffer = a /\ req'.count = req.count /\ req'.len = req.len
      BY <3>1 DEF RequestOK
    <3> HIDE DEF b
    <3>6. \A k \in 1 .. Len(a) : a[k] = b \/ (k \in 1 .. Len(req.buffer) /\ a[k] = req.buffer[k])
      BY <3>3
    <3> HIDE DEF a
    <3>7. \A k \in 1 .. Len(req'.buffer) :
            \E n \in Nat : n < NumFrames /\ req'.buffer[k].start = n * FrameSectors
      BY <3>3, <3>4, <3>5, <3>6, Zenon DEF PlacesOK
    <3>8. into' = <<>>
      BY <3>1 DEF PlacesOK
    <3> QED BY <3>2, <3>5, <3>7, <3>8 DEF PlacesOK
  <2> QED BY <2>1, <2>2
<1>3. ASSUME NEW s \in AllSlots, DevTransfer(s) PROVE PlacesOK'
  <2> DEFINE b == hw[s].prdt[hw[s].entry]
  <2>1. /\ hw[s] \in Commands /\ UNCHANGED <<pc, req, into>>
        /\ mem' = [mem EXCEPT ![b.start + hw[s].pos] = hw[s].lba + hw[s].done]
    BY <1>3, TransferFacts, Zenon DEF cpu
  <2>2. hw[s].lba + hw[s].done \in Int
    BY <2>1 DEF Commands
  <2>3. mem' \in [Memory -> Int]
    BY <2>1, <2>2, Zenon DEF PlacesOK
  <2> QED BY <2>1, <2>3 DEF PlacesOK
<1>4. CASE Issue \/ Record \/ RequestDone
  BY <1>4, Zenon DEF Issue, Record, RequestDone, PlacesOK, InCommand
<1>5. CASE BusyLoop \/ BusyDone \/ WaitDone
  BY <1>5, Zenon DEF BusyLoop, BusyDone, WaitDone, PlacesOK, InCommand
<1>6. CASE CopyBuffer
  BY <1>6, Zenon DEF CopyBuffer, PlacesOK, InCommand
<1>7. CASE Return
  BY <1>7, Zenon DEF Return, PlacesOK, InCommand
<1>8. CASE UNCHANGED <<pc, req, into, mem>>
  BY <1>8, Zenon DEF PlacesOK
<1>9. CASE NoFreeSlot \/ Panicked \/ UNCHANGED vars
  BY <1>8, <1>9, Zenon DEF NoFreeSlot, Panicked, vars
<1>10. CASE DevBusy \/ DevReady \/ \E s \in AllSlots : DevError(s) \/ DevComplete(s)
  BY <1>8, <1>10 DEF DevBusy, DevReady, DevError, DevComplete, cpu
<1> QED BY <1>1, <1>2, <1>3, <1>4, <1>5, <1>6, <1>7, <1>9, <1>10 DEF Next, Cpu, Device

(* The device writes the next sector behind the last one. *)
LEMMA FirstTransfer ==
  ASSUME RequestOK, SlotsOK, CursorsOK, FirstOK, NEW s \in AllSlots, DevTransfer(s)
  PROVE  FirstCommand' /\ FirstData'
<1> DEFINE c == hw[s]
           d == hw'[s]
           b == c.prdt[c.entry]
<1>1. /\ s \in ci /\ c \in Commands /\ c.done < c.count /\ UNCHANGED <<cpu, ci>>
      /\ d.lba = c.lba /\ d.count = c.count /\ d.done = c.done + 1
      /\ mem' = [mem EXCEPT ![b.start + c.pos] = c.lba + c.done]
  BY TransferFacts, Zenon
<1>2. UNCHANGED <<pc, req, offset, slot, cmds, warned, into, ci>>
  BY <1>1, Zenon DEF cpu
<1>3. FirstData'
  <2>1. ~FirstDone
    BY <1>1, Zenon DEF FirstOK, FirstData
  <2>2. ~FirstDone'
    BY <1>2, <2>1, Zenon DEF FirstDone
  <2> QED BY <2>2, Zenon DEF FirstData
<1>4. ASSUME pc \in InCommand, cmds = {}, Len(req.buffer) = 1
      PROVE  /\ slot = 0 /\ d.done <= d.count /\ slot = s
             /\ \A k \in 0 .. (d.done - 1) : mem'[req.buffer[1].start + k] = d.lba + k
  <2>1. slot = s /\ slot = 0
    <3>1. ci \subseteq {slot}
      BY <1>4 DEF SlotsOK, SlotAccounting, InCommand
    <3> QED BY <1>1, <1>4, <3>1 DEF FirstOK, FirstCommand
  <2>2. b = req.buffer[1] /\ c.pos = c.done /\ c.done < BufSectors
    <3>1. slot \in ci /\ hw[slot].done < hw[slot].count
      BY <1>1, <2>1, Zenon
    <3>2. LET e == hw[slot]
          IN e.prdt[e.entry] = req.buffer[1] /\ e.pos = e.done /\ e.done < BufSectors
      BY <1>4, <3>1, OneEntry, Zenon
    <3> QED BY <2>1, <3>2, Zenon
  <2>3. c.done \in Nat /\ c.count \in Nat /\ c.lba \in Nat
    BY <1>1, CommandFields, Zenon
  <2>4. \A k \in 0 .. (c.done - 1) : mem[req.buffer[1].start + k] = c.lba + k
    BY <1>4, <2>1 DEF FirstOK, FirstCommand
  <2>5. mem \in [Memory -> Int] /\ mem' = [mem EXCEPT ![req.buffer[1].start + c.done] = c.lba + c.done]
    BY <1>1, <2>2, Zenon DEF FirstOK, PlacesOK
  <2>6. PICK n \in Nat : n < NumFrames /\ req.buffer[1].start = n * FrameSectors
    BY <1>4 DEF FirstOK, PlacesOK
  <2>7. n * FrameSectors + c.done \in Memory /\ n * FrameSectors \in Nat
    BY <2>2, <2>3, <2>6, BufferInMemory
  <2> DEFINE a == n * FrameSectors
  <2> HIDE DEF c, d, b, a
  <2>8. ASSUME NEW k \in 0 .. c.done PROVE mem'[a + k] = c.lba + k
    <3>1. CASE k = c.done
      BY <2>5, <2>6, <2>7, <3>1 DEF a
    <3>2. CASE k # c.done
      <4>1. k \in 0 .. (c.done - 1) /\ a + k # a + c.done
        BY <2>3, <2>7, <3>2 DEF a
      <4>2. mem[a + k] = c.lba + k
        BY <2>4, <2>6, <4>1, Zenon DEF a
      <4>3. mem'[a + k] = mem[a + k]
        <5>1. k \in Nat /\ k < BufSectors
          BY <2>2, <2>3, <4>1
        <5>2. a + k \in Memory
          BY <2>6, <5>1, BufferInMemory, Zenon DEF a
        <5> DEFINE x == a + k
                   y == a + c.done
                   v == c.lba + c.done
        <5>3. x # y /\ x \in Memory /\ mem' = [mem EXCEPT ![y] = v]
          BY <2>5, <2>6, <4>1, <5>2, Zenon DEF a
        <5> HIDE DEF x, y, v
        <5>4. mem'[x] = mem[x]
          BY <2>5, <5>3
        <5> QED BY <5>4 DEF x
      <4> QED BY <4>2, <4>3
    <3> QED BY <3>1, <3>2
  <2>9. d.done <= d.count /\ d.done - 1 = c.done
    BY <1>1, <2>3
  <2> QED BY <1>1, <2>1, <2>6, <2>8, <2>9, Zenon DEF a
<1>5. FirstCommand'
  <2> SUFFICES ASSUME pc \in InCommand, cmds = {}, Len(req.buffer) = 1
               PROVE  /\ slot = 0 /\ hw'[slot].done <= hw'[slot].count /\ slot \in ci
                      /\ \A k \in 0 .. (hw'[slot].done - 1) :
                           mem'[req.buffer[1].start + k] = hw'[slot].lba + k
                      /\ pc = "record" /\ ~warned => slot \notin ci
    BY <1>2, Zenon DEF FirstCommand
  <2>1. ~(pc = "record" /\ ~warned)
    <3>1. slot = s
      BY <1>4
    <3> QED BY <1>1, <3>1, Zenon DEF FirstOK, FirstCommand
  <2> QED BY <1>1, <1>4, <2>1, Zenon
<1> QED BY <1>3, <1>5

(* The first command is put into slot 0, and nothing is done of it yet. *)
LEMMA FirstIssue ==
  ASSUME SlotSetsOK, RequestOK, SlotsOK, Issue
  PROVE  FirstCommand' /\ FirstData'
<1> DEFINE s == Least(FreeSlots)
           c == Command(offset, Minimum(req.count - offset, CmdSectors))
<1>1. /\ s \in AllSlots /\ slot' = s /\ hw' = [hw EXCEPT ![s] = c] /\ ci' = ci \cup {s}
      /\ pc' = "busy" /\ cmds' = cmds /\ c \in Commands
  BY IssueFacts
<1>2. cmds = {} => s = 0
  BY FirstSlot DEF FreeSlots
<1>3. c.done = 0 /\ c.count \in Nat
  BY <1>1, Zenon DEF Command, Commands
<1> HIDE DEF s, c
<1>4. hw'[slot'] = c
  BY <1>1 DEF SlotsOK
<1>5. slot' \in ci' /\ (cmds' = {} => slot' = 0)
  BY <1>1, <1>2
<1>6. hw'[slot'].done <= hw'[slot'].count /\ 0 .. (hw'[slot'].done - 1) = {}
  BY <1>3, <1>4, SMTT(30)
<1>7. FirstCommand'
  BY <1>1, <1>5, <1>6, Zenon DEF FirstCommand
<1>8. FirstData'
  BY <1>1 DEF FirstData, FirstDone
<1> QED BY <1>7, <1>8, Zenon

(* The first command is recorded: all its data is there. *)
LEMMA FirstRecord ==
  ASSUME RequestOK, SlotsOK, CursorsOK, FirstOK, Record
  PROVE  FirstCommand' /\ FirstData'
<1>1. /\ pc = "record" /\ pc' = "run" /\ cmds' = cmds \cup {slot}
      /\ UNCHANGED <<req, slot, warned, mem, hw, ci>>
  BY DEF Record
<1>2. FirstCommand'
  BY <1>1 DEF FirstCommand, InCommand
<1>3. ASSUME FirstDone'
      PROVE  /\ ci = {} /\ req.count <= BufSectors
             /\ \A k \in 0 .. (req.count - 1) : mem[req.buffer[1].start + k] = DeviceLba(req.sector) + k
  <2>1. cmds = {} /\ Len(req.buffer) = 1 /\ ~warned /\ pc \in InCommand
    BY <1>1, <1>3 DEF FirstDone, SlotsOK, InCommand
  <2>2. /\ slot \notin ci /\ hw[slot].done = hw[slot].count
        /\ \A k \in 0 .. (hw[slot].done - 1) : mem[req.buffer[1].start + k] = hw[slot].lba + k
    BY <1>1, <2>1, Zenon DEF FirstOK, FirstCommand
  <2>3. ci \subseteq {slot}
    BY <2>1, Zenon DEF SlotsOK, SlotAccounting, InCommand
  <2>4. /\ req.count <= BufSectors /\ hw[slot].count = req.count
        /\ hw[slot].lba = DeviceLba(req.sector)
    BY <2>1, OneCommand, Zenon
  <2> QED BY <2>2, <2>3, <2>4, Zenon
<1>4. FirstData'
  BY <1>1, <1>3 DEF FirstData, DeviceLba
<1> QED BY <1>2, <1>4

(* copy_into copies the only buffer in one turn. *)
LEMMA FirstCopy ==
  ASSUME RequestOK, FirstOK, CopyBuffer
  PROVE  FirstCommand' /\ FirstData'
<1> DEFINE size == BufSectors * SectorBytes
<1>1. pc = "copy" /\ Len(into) < req.len
      /\ UNCHANGED <<pc, req, offset, slot, cmds, warned, mem, hw, ci>>
  BY SMTT(30) DEF CopyBuffer
<1>2. FirstCommand'
  BY <1>1 DEF FirstCommand, InCommand
<1>3. ASSUME FirstDone PROVE into' = Expected
  <2>1. /\ Len(req.buffer) = 1 /\ req.count > 0 /\ req.count <= BufSectors
        /\ \A k \in 0 .. (req.count - 1) : mem[req.buffer[1].start + k] = DeviceLba(req.sector) + k
        /\ into = <<>> \/ into = Expected
    BY <1>1, <1>3, Zenon DEF FirstOK, FirstData, FirstDone
  <2>2. req.len \in Nat /\ req.count = SectorCount(req.len)
    BY DEF FirstOK, PlacesOK, RequestOK
  <2>3. /\ \A i \in 1 .. req.len : (i - 1) \div SectorBytes \in 0 .. (req.count - 1)
        /\ req.len <= size
    BY <2>1, <2>2, ReadSize, Zenon
  <2>4. into = <<>> /\ Len(into) = 0
    <3>1. Len(Expected) = req.len
      BY <2>2 DEF Expected
    <3> QED BY <1>1, <2>1, <2>2, <3>1
  <2>5. size \in Nat \ {0} /\ 0 \div size = 0
    <3>1. size \in Nat \ {0}
      OBVIOUS
    <3> HIDE DEF size
    <3>2. 0 * size <= 0 /\ 0 < (0 + 1) * size
      BY <3>1
    <3> QED BY <3>1, <3>2, Quotient
  <2>6. Minimum(req.len - Len(into), size) = req.len /\ Len(into) \div size + 1 = 1
    <3> HIDE DEF size
    <3> QED BY <2>2, <2>3, <2>4, <2>5 DEF Minimum
  <2>7. into' = <<>> \o [i \in 1 .. req.len |-> mem[req.buffer[1].start + (i - 1) \div SectorBytes]]
    <3> DEFINE Copied(n, k) == [i \in 1 .. n |-> mem[req.buffer[k].start + (i - 1) \div SectorBytes]]
    <3>1. into' = into \o Copied(Minimum(req.len - Len(into), size), Len(into) \div size + 1)
      BY DEF CopyBuffer
    <3> HIDE DEF Copied
    <3>2. into' = <<>> \o Copied(req.len, 1)
      BY <2>4, <2>6, <3>1, Zenon
    <3> QED BY <3>2, Zenon DEF Copied
  <2>8. [i \in 1 .. req.len |-> mem[req.buffer[1].start + (i - 1) \div SectorBytes]] = Expected
    BY <2>1, <2>3, Zenon DEF Expected
  <2>9. DeviceLba(req.sector) \in Int
    BY DEF DeviceLba, RequestOK
  <2>10. \A i \in 1 .. req.len : DeviceLba(req.sector) + (i - 1) \div SectorBytes \in Int
    BY <2>2, <2>3, <2>9
  <2>11. Expected \in Seq(Int)
    <3>1. Expected \in [1 .. req.len -> Int]
      BY <2>10 DEF Expected
    <3> QED BY <2>2, <3>1
  <2>12. <<>> \o Expected = Expected
    BY <2>11
  <2> QED BY <2>7, <2>8, <2>12, Zenon
<1>4. FirstDone' => FirstDone
  BY <1>1, Zenon DEF FirstDone
<1>5. Expected' = Expected /\ DeviceLba(req.sector)' = DeviceLba(req.sector)
  BY <1>1, Zenon DEF Expected, DeviceLba
<1>6. FirstData'
  <2> SUFFICES ASSUME FirstDone
               PROVE  /\ ci' = {} /\ req'.count <= BufSectors
                      /\ \A k \in 0 .. (req'.count - 1) :
                           mem'[req'.buffer[1].start + k] = DeviceLba(req.sector)' + k
                      /\ pc' = "copy" => into' = <<>> \/ into' = Expected'
                      /\ pc' = "idle" => into' = Expected'
    BY <1>4, Zenon DEF FirstData
  <2>1. ci = {} /\ req.count <= BufSectors
        /\ \A k \in 0 .. (req.count - 1) : mem[req.buffer[1].start + k] = DeviceLba(req.sector) + k
    BY Zenon DEF FirstOK, FirstData
  <2> QED BY <1>1, <1>3, <1>5, <2>1, Zenon
<1> QED BY <1>2, <1>6, Zenon

(* The other steps either leave the read alone or move it on. *)
LEMMA FirstOthers ==
  ASSUME RequestOK, SlotsOK, FirstOK,
         \/ \E r \in Requests : Read(r)
         \/ NewBuffer \/ BusyLoop \/ BusyDone \/ WaitDone \/ RequestDone \/ Return
         \/ \E s \in AllSlots : DevComplete(s)
         \/ UNCHANGED <<cpu, mem, hw, ci>>
  PROVE  FirstCommand' /\ FirstData'
<1>1. ASSUME NEW r \in Requests, Read(r) PROVE FirstCommand' /\ FirstData'
  <2>1. pc' \in {"alloc", "copy"} /\ (pc' = "copy" => ~(req'.count > 0))
    BY <1>1, SectorCountNat DEF Read
  <2> QED BY <2>1, Zenon DEF FirstCommand, FirstData, FirstDone, InCommand
<1>2. CASE NewBuffer
  <2>1. pc' \in {"alloc", "run", "panic"} /\ offset' = offset /\ offset = 0 /\ req'.count = req.count
    BY <1>2, Zenon DEF NewBuffer, RequestOK
  <2>2. req.count > 0
    <3>1. Len(req.buffer) \in Nat /\ req.count \in Nat /\ Len(req.buffer) * BufSectors < req.count
      BY <1>2 DEF NewBuffer, RequestOK
    <3>2. Len(req.buffer) * BufSectors >= 0
      BY <3>1
    <3> QED BY <3>1, <3>2
  <2>3. ~FirstDone'
    BY <2>1, <2>2, <1>2 DEF FirstDone, RequestOK
  <2>4. FirstCommand'
    BY <2>1 DEF FirstCommand, InCommand
  <2> QED BY <2>3, <2>4, Zenon DEF FirstData
<1>3. CASE BusyLoop \/ BusyDone \/ WaitDone
  <2>1. /\ pc \in InCommand /\ pc' \in InCommand
        /\ UNCHANGED <<req, slot, cmds, mem, hw, ci>>
    BY <1>3 DEF BusyLoop, BusyDone, WaitDone, InCommand
  <2>2. ~FirstDone'
    BY <2>1 DEF FirstDone, InCommand
  <2>3. pc' = "record" /\ ~warned' => ~(slot = 0 /\ slot \in ci)
    BY <1>3, Zenon DEF BusyLoop, BusyDone, WaitDone, StillWaiting
  <2>4. FirstCommand'
    BY <2>1, <2>3, Zenon DEF FirstCommand, FirstOK
  <2> QED BY <2>2, <2>4, Zenon DEF FirstData
<1>4. CASE RequestDone
  <2>1. /\ pc = "run" /\ offset >= req.count /\ pc' = "copy"
        /\ UNCHANGED <<req, offset, cmds, into, warned, mem, ci>>
    BY <1>4 DEF RequestDone
  <2>2. FirstDone' => FirstDone
    BY <2>1, Zenon DEF FirstDone
  <2>3. into = <<>>
    BY <2>1, Zenon DEF FirstOK, PlacesOK
  <2>4. FirstData'
    BY <2>1, <2>2, <2>3, Zenon DEF FirstOK, FirstData, DeviceLba
  <2>5. FirstCommand'
    BY <2>1, Zenon DEF FirstCommand, InCommand
  <2> QED BY <2>4, <2>5, Zenon
<1>5. CASE Return
  <2>1. /\ pc = "copy" /\ Len(into) = req.len /\ pc' = "idle"
        /\ UNCHANGED <<req, offset, cmds, into, warned, mem, ci>>
    BY <1>5 DEF Return
  <2>2. FirstDone' => FirstDone
    BY <2>1, Zenon DEF FirstDone
  <2>3. FirstDone => into # <<>>
    <3>1. req.len \in Nat /\ req.count = SectorCount(req.len)
      BY Zenon DEF FirstOK, PlacesOK, RequestOK
    <3>2. FirstDone => req.len > 0
      BY <3>1, ReadSize DEF FirstDone
    <3> QED BY <2>1, <3>2
  <2>4. FirstDone' => into' = Expected'
    BY <2>1, <2>2, <2>3, Zenon DEF FirstOK, FirstData, Expected, DeviceLba
  <2>5. FirstData'
    BY <2>1, <2>2, <2>4, Zenon DEF FirstOK, FirstData, DeviceLba
  <2>6. FirstCommand'
    BY <2>1 DEF FirstCommand, InCommand
  <2> QED BY <2>5, <2>6, Zenon
<1>6. ASSUME NEW s \in AllSlots, DevComplete(s) PROVE FirstCommand' /\ FirstData'
  <2>1. /\ s \in ci /\ hw[s].done = hw[s].count /\ ci' = ci \ {s}
        /\ UNCHANGED <<pc, req, offset, slot, cmds, into, warned, mem, hw>>
    BY <1>6 DEF DevComplete, cpu
  <2>2. ~FirstDone
    BY <2>1, Zenon DEF FirstOK, FirstData
  <2>3. ~FirstDone'
    BY <2>1, <2>2, Zenon DEF FirstDone
  <2>4. slot \notin ci' => slot \notin ci \/ slot = s
    BY <2>1, Zenon
  <2>5. slot \notin ci => slot \notin ci'
    BY <2>1
  <2>6. FirstCommand'
    BY <2>1, <2>4, <2>5, Zenon DEF FirstOK, FirstCommand
  <2> QED BY <2>3, <2>6, Zenon DEF FirstData
<1>7. CASE UNCHANGED <<cpu, mem, hw, ci>>
  BY <1>7, Zenon DEF cpu, FirstOK, FirstCommand, FirstData, FirstDone, Expected, DeviceLba
<1> QED BY <1>1, <1>2, <1>3, <1>4, <1>5, <1>6, <1>7, Zenon

(* Every step keeps the first read right. *)
LEMMA NextFirst ==
  ASSUME SlotSetsOK, RequestOK, SlotsOK, CursorsOK, FirstOK, [Next]_vars
  PROVE  FirstOK'
<1>1. PlacesOK'
  BY NextPlaces DEF FirstOK
<1>2. CASE NoFreeSlot \/ Panicked \/ UNCHANGED vars \/ DevBusy \/ DevReady
           \/ \E s \in AllSlots : DevError(s)
  <2>1. UNCHANGED <<cpu, mem, hw, ci>>
    BY <1>2, Zenon DEF NoFreeSlot, Panicked, vars, DevBusy, DevReady, DevError, cpu
  <2> QED BY <1>1, <2>1, FirstOthers DEF FirstOK
<1>3. CASE \/ \E r \in Requests : Read(r)
           \/ NewBuffer \/ BusyLoop \/ BusyDone \/ WaitDone \/ RequestDone \/ Return
           \/ \E s \in AllSlots : DevComplete(s)
  BY <1>1, <1>3, FirstOthers, Zenon DEF FirstOK
<1>4. CASE Issue \/ Record \/ CopyBuffer
  BY <1>1, <1>4, FirstIssue, FirstRecord, FirstCopy, Zenon DEF FirstOK
<1>5. ASSUME NEW s \in AllSlots, DevTransfer(s) PROVE FirstOK'
  BY <1>1, <1>5, FirstTransfer, Zenon DEF FirstOK
<1> QED BY <1>2, <1>3, <1>4, <1>5, Zenon DEF Next, Cpu, Device

(* Nothing is asked for at first. *)
LEMMA InitFirst ==
  ASSUME Init
  PROVE  FirstOK
<1>1. mem \in [Memory -> Int]
  BY DEF Init, Junk
<1>2. SectorCount(0) = 0
  <2>1. 0 + SectorBytes - 1 \in Nat /\ 0 * SectorBytes <= 0 + SectorBytes - 1
        /\ 0 + SectorBytes - 1 < (0 + 1) * SectorBytes
    OBVIOUS
  <2> QED BY <2>1, Quotient DEF SectorCount
<1>3. req.count = SectorCount(req.len) /\ Len(req.buffer) = 0 /\ pc = "idle" /\ req.count = 0
  BY <1>2 DEF Init
<1>4. 1 .. Len(req.buffer) = {} /\ Len(req.buffer) # 1 /\ pc \notin {"alloc", "run"} \cup InCommand
  BY <1>3 DEF InCommand
<1>5. PlacesOK
  BY <1>1, <1>3, <1>4, Zenon DEF PlacesOK
<1>6. FirstCommand /\ FirstData
  BY <1>4, Zenon DEF FirstCommand, FirstData, FirstDone
<1> QED BY <1>5, <1>6, Zenon DEF FirstOK

(* A read that returned without a warning has the sectors of the disk. *)
LEMMA FirstReadData ==
  ASSUME RequestOK, FirstOK
  PROVE  FirstReadExact
<1> SUFFICES ASSUME Returned, ~warned, cmds = {0}, Len(req.buffer) = 1,
                    req.sector + req.count <= Lba24 \/ req.sector > Lba28
             PROVE  into = DiskData
  BY Zenon DEF FirstReadExact
<1>1. into = Expected
  BY Zenon DEF FirstOK, FirstData, FirstDone, Returned
<1>2. req.sector \in Nat /\ req.count \in Nat /\ req.count > 0
  BY DEF RequestOK, Returned
<1>3. DeviceLba(req.sector) = req.sector
  <2>1. CASE req.sector > Lba28
    BY <2>1 DEF DeviceLba
  <2>2. CASE req.sector < Lba24
    <3> DEFINE n == req.sector
    <3>1. n \in Nat /\ n < Lba24
      BY <1>2, <2>2
    <3> HIDE DEF n
    <3>2. n % Lba24 = n
      BY <3>1
    <3> QED BY <3>2 DEF DeviceLba, n
  <2> QED BY <1>2, <2>1, <2>2
<1> QED BY <1>1, <1>3, Zenon DEF Expected, DiskData

-----------------------------------------------------------------------------
(***************************************************************************)
(* Why a read ends: what ReadEnds waits for.                               *)
(***************************************************************************)

(* Slots that suffice for the rest of a request suffice to its end.  The   *)
(* slot being run is counted as free until it is recorded.                 *)
Enough == free * CmdSectors >= req.count - offset
EnoughStep ==
  (pc # "idle" /\ Enough) => Enough' /\ ((pc = "run" /\ offset < req.count) => FreeSlots # {})

(* What the section uses of sets of slots, for any number of slots (lemma  *)
(* SlotCounts).                                                            *)
SlotCountsOK == \A S \in SUBSET AllSlots : Cardinality(S) \in Nat /\ (Cardinality(S) # 0 => S # {})

(* There is a free slot while Enough says so and something is left. *)
LEMMA EnoughFree ==
  ASSUME SlotCountsOK, RequestOK, SlotsOK, Enough, offset < req.count
  PROVE  free \in Int /\ free >= 1 /\ FreeSlots # {}
<1>1. FreeSlots \in SUBSET AllSlots /\ free = Cardinality(FreeSlots)
  BY Zenon DEF SlotsOK, SlotAccounting, FreeSlots
<1>2. free \in Nat /\ (free # 0 => FreeSlots # {})
  BY <1>1, Zenon DEF SlotCountsOK
<1>3. offset \in Nat /\ req.count \in Nat /\ CmdSectors \in Nat
  BY DEF RequestOK
<1>4. free # 0
  BY <1>3 DEF Enough
<1> QED BY <1>2, <1>4

(* Recording a command uses one slot for at most CmdSectors sectors. *)
LEMMA RecordEnough ==
  ASSUME SlotCountsOK, RequestOK, SlotsOK, Enough, Record
  PROVE  Enough'
<1>1. /\ offset' = offset + Minimum(req.count - offset, CmdSectors)
      /\ free' = free - 1 /\ req' = req /\ offset < req.count
  BY DEF Record, RequestOK, InCommand
<1>2. free \in Int /\ free >= 1
  BY <1>1, EnoughFree, Zenon
<1>3. offset \in Nat /\ req.count \in Nat /\ CmdSectors \in Nat
  BY DEF RequestOK
<1>4. (free - 1) * CmdSectors = free * CmdSectors - CmdSectors /\ (free - 1) * CmdSectors >= 0
  BY <1>2, <1>3
<1>5. free * CmdSectors \in Int /\ (free - 1) * CmdSectors \in Int
  BY <1>2, <1>3
<1> HIDE DEF Enough
<1>6. free * CmdSectors >= req.count - offset
  BY DEF Enough
<1>7. (free - 1) * CmdSectors >= req.count - offset'
  <2>1. CASE req.count - offset < CmdSectors
    BY <1>1, <1>3, <1>4, <2>1 DEF Minimum
  <2>2. CASE ~(req.count - offset < CmdSectors)
    <3>1. offset' = offset + CmdSectors
      BY <1>1, <2>2, Zenon DEF Minimum
    <3> QED BY <1>3, <1>4, <1>5, <1>6, <3>1
  <2> QED BY <2>1, <2>2
<1> QED BY <1>1, <1>7, Zenon DEF Enough

(* No other step of a read changes what is left, nor free_cmds. *)
LEMMA NextEnough ==
  ASSUME SlotCountsOK, RequestOK, SlotsOK, Next
  PROVE  EnoughStep
<1> SUFFICES ASSUME pc # "idle", Enough
             PROVE  Enough' /\ ((pc = "run" /\ offset < req.count) => FreeSlots # {})
  BY DEF EnoughStep
<1>1. offset < req.count => FreeSlots # {}
  BY EnoughFree, Zenon
<1>2. CASE Record
  BY <1>1, <1>2, RecordEnough, Zenon
<1>3. CASE free' = free /\ offset' = offset /\ req'.count = req.count
  BY <1>1, <1>3, Zenon DEF Enough
<1>4. CASE NewBuffer
  <2>1. free' = free /\ offset' = offset
    BY <1>4, Zenon DEF NewBuffer
  <2>2. req' = req \/ \E b : req' = [req EXCEPT !.buffer = b]
    BY <1>4, Zenon DEF NewBuffer
  <2>3. req \in [sector : Nat, len : Nat, count : Nat, buffer : Seq(Buffers)]
    BY Zenon DEF RequestOK
  <2> HIDE AhciConstants
  <2>4. req'.count = req.count
    BY <2>2, <2>3
  <2> QED BY <1>3, <2>1, <2>4, Zenon
<1>5. Record \/ NewBuffer \/ UNCHANGED <<free, offset, req>>
  BY Zenon DEF Next, Cpu, Read, Issue, NoFreeSlot, BusyLoop, BusyDone, WaitDone, RequestDone, CopyBuffer,
         Return, Panicked, Device, DevTransfer, DevComplete, DevBusy, DevReady, DevError, cpu, vars
<1> QED BY <1>2, <1>3, <1>4, <1>5, Zenon

(* At most one command of the device has begun. *)
OneStarted == \A s, t \in ci : Started(s) /\ Started(t) => s = t

(* The device begins a command only when no other one has begun. *)
LEMMA NextStarted ==
  ASSUME SlotSetsOK, RequestOK, SlotsOK, OneStarted, [Next]_vars
  PROVE  OneStarted'
<1>1. CASE hw' = hw /\ ci' \subseteq ci
  BY <1>1, Zenon DEF OneStarted, Started
<1>2. CASE Issue
  <2> DEFINE t == Least(FreeSlots)
             command == Command(offset, Minimum(req.count - offset, CmdSectors))
  <2>1. t \in AllSlots /\ t \notin ci /\ hw' = [hw EXCEPT ![t] = command] /\ ci' = ci \cup {t}
    BY <1>2, IssueFacts, Zenon
  <2>2. command.done = 0
    BY DEF Command
  <2> HIDE DEF t, command
  <2>3. hw'[t].done = 0 /\ \A s \in ci : hw'[s] = hw[s]
    BY <2>1, <2>2 DEF SlotsOK
  <2>4. ~(hw'[t].done > 0)
    BY <2>3
  <2>5. \A s, r \in ci' : hw'[s].done > 0 /\ hw'[r].done > 0 => s = r
    BY <2>1, <2>3, <2>4, Zenon DEF OneStarted, Started
  <2> QED BY <2>5, Zenon DEF OneStarted, Started
<1>3. ASSUME NEW s \in AllSlots, DevTransfer(s) PROVE OneStarted'
  <2>1. ci' = ci /\ ci \in SUBSET AllSlots /\ \A t \in AllSlots \ {s} : hw'[t] = hw[t]
    BY <1>3, TransferFacts DEF SlotsOK
  <2>2. \A t \in ci \ {s} : ~Started(t)
    BY <1>3, Zenon DEF DevTransfer
  <2>3. \A t \in ci \ {s} : ~Started(t)'
    BY <2>1, <2>2, Zenon DEF Started
  <2> QED BY <2>1, <2>3, Zenon DEF OneStarted
<1>4. (hw' = hw /\ ci' \subseteq ci) \/ Issue \/ \E s \in AllSlots : DevTransfer(s)
  BY Zenon DEF Next, Cpu, Read, NewBuffer, NoFreeSlot, BusyLoop, BusyDone, WaitDone, Record, RequestDone,
         CopyBuffer, Return, Panicked, Device, DevComplete, DevBusy, DevReady, DevError, cpu, vars
<1> QED BY <1>1, <1>2, <1>3, <1>4, Zenon

(* A device that has commands and no error can go on with one of them.     *)
(* This is what the loop on PxCI in run_command waits for, or the error.   *)
DeviceCanWork ==
  (ci # {} /\ ~tfes) =>
     \E s \in ci : \/ hw[s].done = hw[s].count
                   \/ hw[s].done < hw[s].count /\ \A t \in ci \ {s} : ~Started(t)

(* The command that has begun, or any if none has. *)
LEMMA StartedWorks ==
  ASSUME SlotsOK, CursorsOK, OneStarted
  PROVE  DeviceCanWork
<1> SUFFICES ASSUME NEW r \in ci
             PROVE  \E s \in ci : \/ hw[s].done = hw[s].count
                                  \/ hw[s].done < hw[s].count /\ \A t \in ci \ {s} : ~Started(t)
  BY Zenon DEF DeviceCanWork
<1>1. PICK s \in ci : \A t \in ci \ {s} : ~Started(t)
  BY Zenon DEF OneStarted
<1>2. hw[s] \in Commands /\ hw[s].done <= hw[s].count
  <2>1. hw[s] \in Commands
    BY DEF SlotsOK
  <2> QED BY <2>1, Zenon DEF CursorsOK, CommandOK
<1>3. hw[s].done = hw[s].count \/ hw[s].done < hw[s].count
  BY <1>2, CommandFields
<1> QED BY <1>1, <1>3, Zenon

-----------------------------------------------------------------------------
(* Sets of slots. *)
FS == INSTANCE FiniteSetTheorems
LOCAL INSTANCE WellFoundedInduction

(* The first free slot is a free slot. *)
LEMMA LeastElement ==
  ASSUME NEW S \in SUBSET Nat, S # {}
  PROVE  Least(S) \in S
<1>1. PICK x \in S : \A y \in S : ~(<<y, x>> \in OpToRel(<, Nat))
  BY WFMin, NatLessThanWellFounded, Zenon
<1>2. \A y \in S : ~(y < x)
  <2> SUFFICES ASSUME NEW y \in S, y < x PROVE FALSE
    OBVIOUS
  <2>1. <<y, x>> \in Nat \X Nat /\ <<y, x>>[1] = y /\ <<y, x>>[2] = x
    OBVIOUS
  <2>2. <<y, x>> \in OpToRel(<, Nat)
    BY <2>1, Zenon DEF OpToRel
  <2> QED BY <1>1, <2>2, Zenon
<1>3. \A y \in S : x <= y
  BY <1>2
<1> QED BY <1>3, Zenon DEF Least

(* The instance's operators are the ones AhciPort uses. *)
LEMMA SameSets ==
  ASSUME NEW S
  PROVE  (IsFiniteSet(S) <=> FS!IsFiniteSet(S)) /\ Cardinality(S) = FS!Cardinality(S)
<1>1. IsFiniteSet(S) <=> FS!IsFiniteSet(S)
  BY DEF IsFiniteSet, FS!IsFiniteSet
<1>2. Cardinality(S) = FS!Cardinality(S)
  BY Zenon DEF Cardinality, FS!Cardinality
<1> QED BY <1>1, <1>2, Zenon

(* SlotSetsOK for any number of slots. *)
LEMMA SlotSets == SlotSetsOK
<1>1. AllSlots = 0 .. (NumSlots - 1) /\ AllSlots \in SUBSET Nat
  BY DEF AllSlots
<1>2. FS!IsFiniteSet(AllSlots) /\ FS!Cardinality(AllSlots) = NumSlots
  <2>1. 0 \in Int /\ NumSlots - 1 \in Int /\ NumSlots - 1 - 0 + 1 = NumSlots /\ ~(0 > NumSlots - 1)
    OBVIOUS
  <2> QED BY <1>1, <2>1, FS!FS_Interval, SMTT(30)
<1>3. ASSUME NEW S \in SUBSET AllSlots, NEW s \in S
      PROVE  Cardinality(S \ {s}) = Cardinality(S) - 1
  <2>1. FS!IsFiniteSet(S)
    BY <1>2, FS!FS_Subset, Zenon
  <2>2. FS!Cardinality(S \ {s}) = FS!Cardinality(S) - 1
    BY <2>1, FS!FS_RemoveElement, Zenon
  <2> QED BY <2>2, SameSets, Zenon
<1>4. ASSUME NEW S \in SUBSET AllSlots, S # {}
      PROVE  Least(S) \in S
  BY <1>1, <1>4, LeastElement, SMTT(30)
<1>5. Cardinality(AllSlots) = NumSlots
  BY <1>2, SameSets
<1> QED BY <1>3, <1>4, <1>5, Zenon DEF SlotSetsOK

(* SlotCountsOK for any number of slots. *)
LEMMA SlotCounts == SlotCountsOK
<1>1. FS!IsFiniteSet(AllSlots)
  BY FS!FS_Interval DEF AllSlots
<1>2. ASSUME NEW S \in SUBSET AllSlots
      PROVE  Cardinality(S) \in Nat /\ (Cardinality(S) # 0 => S # {})
  <2>1. FS!IsFiniteSet(S)
    BY <1>1, FS!FS_Subset, Zenon
  <2>2. FS!Cardinality(S) \in Nat /\ FS!Cardinality({}) = 0
    BY <2>1, FS!FS_CardinalityType, FS!FS_EmptySet, Zenon
  <2> QED BY <2>2, SameSets, Zenon
<1> QED BY <1>2, Zenon DEF SlotCountsOK

-----------------------------------------------------------------------------
(* The theorems. *)

(* The invariant of requests and slots. *)
THEOREM SlotInvariance == Spec => [](RequestOK /\ SlotsOK)
<1>1. Init => RequestOK /\ SlotsOK
  BY InitRequest, InitSlots, SlotSets, Zenon
<1>2. RequestOK /\ SlotsOK /\ [Next]_vars => (RequestOK /\ SlotsOK)'
  BY NextRequest, NextSlots, SlotSets, Zenon
<1> QED BY <1>1, <1>2, PTL DEF Spec

(* SlotAccounting for any number of slots. *)
THEOREM AccountedSlots == Spec => []SlotAccounting
<1>1. SlotsOK => SlotAccounting
  BY DEF SlotsOK
<1> QED BY <1>1, SlotInvariance, PTL

(* LiveTablesKept for any number of slots: run_command takes a slot that   *)
(* the device does not work on, also after "port hung" or a disk error.    *)
THEOREM KeptTables == Spec => LiveTablesKept
<1>1. RequestOK /\ SlotsOK /\ [Next]_vars => [TablesKept]_vars
  BY TablesStep, SlotSets, Zenon
<1> QED BY <1>1, SlotInvariance, PTL DEF Spec, LiveTablesKept, TablesKept

(* The invariant of requests, slots and cursors. *)
THEOREM CursorInvariance == Spec => [](RequestOK /\ SlotsOK /\ CursorsOK)
<1>1. Init => RequestOK /\ SlotsOK /\ CursorsOK
  BY InitRequest, InitSlots, InitCursors, SlotSets, Zenon
<1>2. RequestOK /\ SlotsOK /\ CursorsOK /\ [Next]_vars => (RequestOK /\ SlotsOK /\ CursorsOK)'
  BY NextRequest, NextSlots, NextCursors, SlotSets, Zenon
<1> QED BY <1>1, <1>2, PTL DEF Spec

(* DmaCursorExact for any sizes, requests and interleavings: the device    *)
(* writes every sector where copy_into looks for it.                       *)
THEOREM ExactCursor == Spec => []DmaCursorExact
<1>1. RequestOK /\ SlotsOK /\ CursorsOK => DmaCursorExact
  BY CursorsExact, Zenon
<1> QED BY <1>1, CursorInvariance, PTL

(* The invariant with the first read. *)
THEOREM FirstInvariance == Spec => [](RequestOK /\ SlotsOK /\ CursorsOK /\ FirstOK)
<1>1. Init => FirstOK
  BY InitFirst, Zenon
<1>2. RequestOK /\ SlotsOK /\ CursorsOK /\ FirstOK /\ [Next]_vars => FirstOK'
  BY NextFirst, SlotSets, Zenon
<1> QED BY <1>1, <1>2, CursorInvariance, PTL DEF Spec

(* FirstReadExact for any sizes, sectors and devices: the first read of a  *)
(* port that needs one DmaBuffer and logs no warning fills the caller's    *)
(* buffer with the sectors asked for.                                      *)
THEOREM FirstRead == Spec => []FirstReadExact
<1>1. RequestOK /\ FirstOK => FirstReadExact
  BY FirstReadData
<1> QED BY <1>1, FirstInvariance, PTL

(* A read that starts with enough free slots for its sectors never waits   *)
(* for one: run_request uses one slot for each command it runs, also when  *)
(* run_command gives up with "port hung" or "disk error", so the slots     *)
(* last, and NoFreeSlot, the loop that waits for a slot, is not taken.     *)
THEOREM SlotsLast == Spec => [][EnoughStep]_vars
<1>1. RequestOK /\ SlotsOK /\ [Next]_vars => [EnoughStep]_vars
  BY NextEnough, SlotCounts, Zenon
<1> QED BY <1>1, SlotInvariance, PTL DEF Spec

(* DeviceCanWork for any sizes, requests and interleavings: what the loop  *)
(* on PxCI waits for is always within the device's reach, or the error     *)
(* that ends the loop has been reported.                                   *)
THEOREM WorkingDevice == Spec => []DeviceCanWork
<1>1. Init => OneStarted
  BY Zenon DEF Init, OneStarted
<1>2. RequestOK /\ SlotsOK /\ OneStarted /\ [Next]_vars => OneStarted'
  BY NextStarted, SlotSets, Zenon
<1>3. SlotsOK /\ CursorsOK /\ OneStarted => DeviceCanWork
  BY StartedWorks, Zenon
<1> QED BY <1>1, <1>2, <1>3, CursorInvariance, PTL DEF Spec

=============================================================================
