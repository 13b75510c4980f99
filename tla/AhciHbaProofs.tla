---------------------------- MODULE AhciHbaProofs ---------------------------
(* Proofs about AhciHba for every number of ports. *)
EXTENDS AhciHba, TLAPS

Flags == {"ST", "CR", "FRE", "FR"}

(* Where the boot thread is in start_hba, which runs without interrupts. *)
InStartHba == pc \in {"probe", "stop", "stopping", "starting"}

(* The ports a driver is found for. *)
Active == {p \in Ports : link[p] = "active"}

(* Types of the variables. *)
TypeOK ==
  /\ enabled \in BOOLEAN /\ saved \in BOOLEAN
  /\ pc \in {"start", "locked", "probe", "stop", "stopping", "starting", "test", "issue",
             "wait", "done", "panic"}
  /\ port \in 0 .. NumPorts
  /\ hpc \in {None, "read", "write", "lock", "ports", "port"}
  /\ hport \in 0 .. NumPorts
  /\ driver \in {None, "thread", "handler"}
  /\ inner \in [Ports -> {None, "thread"}]
  /\ ports \in SUBSET Ports
  /\ list \in [Ports -> {"firmware", "driver"}]
  /\ link \in [Ports -> Links]
  /\ ghc \in BOOLEAN
  /\ is \in SUBSET Ports
  /\ cmd \in [Ports -> SUBSET Flags]
  /\ (pc \in {"stop", "stopping", "starting", "issue", "wait"} => port < NumPorts)
  /\ (hpc = "port" => hport < NumPorts)

(* Who holds AhciDriver.inner: the boot thread from LockDriver to the end  *)
(* of start or for ever after a panic, the handler while it is in its loop *)
(* over the ports.                                                         *)
DriverHeld ==
  /\ (pc \notin {"start", "done"}) <=> driver = "thread"
  /\ (hpc \in {"ports", "port"}) <=> driver = "handler"

(* The adapter is told to interrupt in start_hba and not before, and no    *)
(* interrupt is taken there.                                               *)
Uninterrupted ==
  /\ pc \in {"start", "locked"} => ~ghc /\ hpc = None
  /\ InStartHba => ~enabled /\ hpc = None
  /\ pc = "panic" => (ports = Active \/ (~enabled /\ hpc = None))

(* start_hba has an entry for every active port that it has passed. *)
PortsFound ==
  /\ pc \in {"start", "locked"} => ports = {}
  /\ InStartHba => ports = {p \in Active : p < port}
  /\ pc \in {"stop", "stopping", "starting"} => link[port] = "active"
  /\ pc \in {"test", "issue", "wait", "done"} => ports = Active

Inv == TypeOK /\ DriverHeld /\ Uninterrupted /\ PortsFound

-----------------------------------------------------------------------------
USE AhciHbaConstants DEF Ports

(* The firmware's state satisfies the invariant. *)
LEMMA InitInv == Init => Inv
<1> SUFFICES ASSUME Init PROVE Inv
  OBVIOUS
<1> USE DEF Init, Flags
<1>1. TypeOK
  <2>1. \A p \in Ports : cmd[p] \in SUBSET Flags
    BY Zenon
  <2>2. cmd \in [Ports -> SUBSET Flags]
    BY <2>1
  <2>3. enabled \in BOOLEAN /\ saved \in BOOLEAN /\ ghc \in BOOLEAN
    BY Zenon
  <2>4. /\ inner \in [Ports -> {None, "thread"}] /\ list \in [Ports -> {"firmware", "driver"}]
        /\ link \in [Ports -> Links]
    OBVIOUS
  <2> QED BY <2>2, <2>3, <2>4 DEF TypeOK
<1>2. DriverHeld /\ Uninterrupted /\ PortsFound
  BY DEF DriverHeld, Uninterrupted, PortsFound, InStartHba
<1> QED BY <1>1, <1>2 DEF Inv

(* The boot thread, one step per action. *)
LEMMA ThreadInv ==
  ASSUME Inv, Thread \/ ReadDone(TRUE) \/ OutOfMemory
  PROVE  Inv'
<1> USE DEF Inv, TypeOK, DriverHeld, Uninterrupted, PortsFound, InStartHba, Active, At, Flags, Links,
            thread, handler, locks, device
<1>1. CASE LockDriver
  BY <1>1 DEF LockDriver
<1>2. CASE StartHba
  <2>1. TypeOK'
    <3>1. enabled' \in BOOLEAN /\ saved' \in BOOLEAN /\ ghc' \in BOOLEAN
      BY <1>2, Zenon DEF StartHba
    <3>2. port' \in 0 .. NumPorts
      BY <1>2 DEF StartHba
    <3> QED BY <1>2, <3>1, <3>2 DEF StartHba
  <2>2. DriverHeld' /\ Uninterrupted'
    BY <1>2 DEF StartHba
  <2>3. ports' = {} /\ {p \in Active' : p < port'} = {} /\ pc' = "probe"
    BY <1>2 DEF StartHba
  <2>4. PortsFound'
    BY <2>3
  <2> QED BY <2>1, <2>2, <2>4
<1>3. CASE Probe
  BY <1>3 DEF Probe
<1>4. CASE StopCmd
  BY <1>4 DEF StopCmd
<1>5. CASE SetUpPort
  BY <1>5 DEF SetUpPort
<1>6. CASE StartCmd
  BY <1>6 DEF StartCmd
<1>7. CASE HbaStarted
  BY <1>7 DEF HbaStarted
<1>8. CASE NoPort
  BY <1>8 DEF NoPort
<1>9. CASE LockPort
  BY <1>9 DEF LockPort
<1>10. CASE Issue
  BY <1>10 DEF Issue
<1>11. ASSUME NEW hung \in BOOLEAN, ReadDone(hung) PROVE Inv'
  BY <1>11 DEF ReadDone
<1>12. CASE UnlockDriver
  BY <1>12 DEF UnlockDriver
<1>13. CASE OutOfMemory
  BY <1>13 DEF OutOfMemory
<1> QED BY <1>1, <1>2, <1>3, <1>4, <1>5, <1>6, <1>7, <1>8, <1>9, <1>10, <1>11, <1>12, <1>13, Zenon
        DEF Thread

(* The handler. *)
LEMMA HandlerInv ==
  ASSUME Inv, Interrupt \/ Handler
  PROVE  Inv'
<1> USE DEF Inv, TypeOK, DriverHeld, Uninterrupted, PortsFound, InStartHba, Active, Flags, Links,
            thread, handler, locks, device
<1>1. CASE Interrupt
  BY <1>1, Zenon DEF Interrupt
<1>2. CASE ReadGlobal
  BY <1>2 DEF ReadGlobal
<1>3. CASE WriteGlobal
  BY <1>3, Zenon DEF WriteGlobal
<1>4. CASE LockPorts
  BY <1>4 DEF LockPorts
<1>5. CASE ReadPort
  BY <1>5 DEF ReadPort
<1>6. CASE WritePort
  BY <1>6 DEF WritePort
<1>7. CASE Iret
  BY <1>7 DEF Iret
<1> QED BY <1>1, <1>2, <1>3, <1>4, <1>5, <1>6, <1>7, Zenon DEF Handler

(* The adapter changes none of what the invariant relates. *)
LEMMA DeviceInv ==
  ASSUME Inv, NEW p \in Ports, Device(p) \/ DevReport(p)
  PROVE  Inv'
<1> USE DEF Inv, TypeOK, DriverHeld, Uninterrupted, PortsFound, InStartHba, Active, Flags,
            thread, handler, locks
<1>1. ASSUME NEW run \in {"ST", "FRE"}, NEW running \in {"CR", "FR"}, DevCmd(p, run, running)
      PROVE  Inv'
  <2>1. cmd' \in [Ports -> SUBSET Flags]
    BY <1>1 DEF DevCmd
  <2> QED BY <2>1, <1>1 DEF DevCmd
<1>2. CASE DevComplete(p)
  BY <1>2 DEF DevComplete
<1>3. CASE DevError(p)
  BY <1>3 DEF DevError
<1>4. CASE DevReport(p)
  BY <1>4 DEF DevReport
<1>5. CASE DevRaise(p)
  <2>1. is' \in SUBSET Ports
    BY <1>5, Zenon DEF DevRaise
  <2> QED BY <1>5, <2>1 DEF DevRaise
<1> QED BY <1>1, <1>2, <1>3, <1>4, <1>5, Zenon DEF Device

(* Every step keeps the invariant. *)
LEMMA NextInv == Inv /\ [Next]_vars => Inv'
<1> SUFFICES ASSUME Inv, [Next]_vars PROVE Inv'
  OBVIOUS
<1>1. CASE UNCHANGED vars \/ Spin
  <2>1. UNCHANGED vars
    BY <1>1 DEF Spin
  <2> QED BY <2>1 DEF vars, thread, handler, locks, device, Inv, TypeOK, DriverHeld, Uninterrupted,
                      PortsFound, InStartHba, Active
<1> QED BY <1>1, ThreadInv, HandlerInv, DeviceInv, Zenon DEF Next

(* The invariant behind the three theorems below, for start_driver, the    *)
(* handler ahci and the adapter.                                           *)
THEOREM Invariance == Spec => []Inv
BY InitInv, NextInv, PTL DEF Spec

(* HangWindow for every number of ports: an interrupt that finds           *)
(* AhciDriver.inner held by the boot thread has arrived in the test reads  *)
(* or after a panic in them, never in start_hba.                           *)
THEOREM HangOnlyInTests == Spec => []HangWindow
<1>1. Inv => HangWindow
  BY DEF Inv, TypeOK, DriverHeld, Uninterrupted, PortsFound, InStartHba, Active, HangWindow
<1> QED BY <1>1, Invariance, PTL

(* ListsQuiet for every number of ports: a command list is written only    *)
(* when both engines of its port have stopped.                             *)
THEOREM QuietLists == Spec => ListsQuiet
<1> DEFINE Quiet == \A p \in Ports : list'[p] # list[p] => cmd[p] \cap {"CR", "FR"} = {}
<1>1. Inv /\ [Next]_vars => [Quiet]_vars
  <2> SUFFICES ASSUME Inv, Next PROVE Quiet
    OBVIOUS
  <2>1. CASE SetUpPort
    BY <2>1 DEF SetUpPort, Stopped, At, Inv, TypeOK
  <2>2. CASE UNCHANGED list
    BY <2>2
  <2> QED BY <2>1, <2>2, Zenon
      DEF Next, Thread, Handler, Device, LockDriver, StartHba, Probe, StopCmd, StartCmd, HbaStarted,
        NoPort, LockPort, Issue, ReadDone, UnlockDriver, OutOfMemory, Interrupt, ReadGlobal,
        WriteGlobal, LockPorts, ReadPort, WritePort, Iret, DevCmd, DevComplete, DevError, DevReport,
        DevRaise, Spin, thread, vars
<1> QED BY <1>1, Invariance, PTL DEF Spec, ListsQuiet

(* A handler that finds AhciDriver.inner held by the thread it interrupted *)
(* stays where it is, and so does the lock: start_driver releases it only  *)
(* after the handler has returned.                                         *)
HangLasts == [][(hpc # None /\ driver = "thread") => UNCHANGED <<hpc, driver, pc>>]_vars

(* HangLasts for every number of ports. *)
THEOREM HangsForEver == Spec => HangLasts
<1> DEFINE Lasts == (hpc # None /\ driver = "thread") => UNCHANGED <<hpc, driver, pc>>
<1>1. Inv /\ [Next]_vars => [Lasts]_vars
  <2> SUFFICES ASSUME Inv, Next, hpc # None, driver = "thread"
               PROVE  UNCHANGED <<hpc, driver, pc>>
    OBVIOUS
  <2>1. ~Thread /\ ~ReadDone(TRUE) /\ ~OutOfMemory
    BY DEF Thread, At, LockDriver, StartHba, Probe, StopCmd, SetUpPort, StartCmd, HbaStarted, NoPort,
           LockPort, Issue, ReadDone, UnlockDriver, OutOfMemory
  <2>2. ~Interrupt /\ ~Handler
    BY DEF Handler, Interrupt, ReadGlobal, WriteGlobal, LockPorts, ReadPort, WritePort, Iret, Inv, DriverHeld
  <2> QED BY <2>1, <2>2, Zenon DEF Next, Device, DevCmd, DevComplete, DevError, DevReport, DevRaise, Spin,
                            thread, handler, locks, vars
<1> QED BY <1>1, Invariance, PTL DEF Spec, HangLasts

-----------------------------------------------------------------------------
(***************************************************************************)
(* What the boot thread and the handler wait for.  The invariant below     *)
(* says why none of their waits is for themselves or for what the adapter  *)
(* does not do.                                                            *)
(***************************************************************************)
Status == {"DHRS", "TFES"}

(* The thread holds the lock of the port whose test read it runs. *)
PortHeld ==
  /\ \A p \in Ports : inner[p] = "thread" <=> (pc \in {"issue", "wait"} /\ p = port)
  /\ pc \in {"issue", "wait"} => port \in ports

(* Who has told the engines of a port to run. *)
Engines ==
  /\ pc = "stopping" => cmd[port] \cap {"ST", "FRE"} = {}
  /\ pc = "starting" => "ST" \notin cmd[port]
  /\ \A p \in ports : "ST" \in cmd[p]

(* Each port is given one command; an error in it is seen while its read   *)
(* waits, for no handler gets past AhciDriver.inner to clear it.           *)
Tested ==
  /\ pc \in {"start", "locked", "probe", "stop", "stopping", "starting"} => issued = {} /\ failed = {}
  /\ pc \in {"test", "issue", "wait"} =>
       \A p \in issued \cup failed : p < port \/ (pc = "wait" /\ p = port)
  /\ (pc = "wait" /\ port \in failed) => "TFES" \in pxis[port]

(* Interrupts are on for every port found. *)
Reporting ==
  /\ pc \notin {"start", "locked"} => ghc
  /\ pc = "starting" => port \in pxie
  /\ ports \subseteq pxie

ServedInv ==
  /\ Inv
  /\ issued \in SUBSET Ports /\ failed \in SUBSET Ports /\ pxis \in [Ports -> SUBSET Status]
  /\ PortHeld /\ Engines /\ Tested /\ Reporting

(* Nothing is issued or held at the start. *)
LEMMA InitServed == Init => ServedInv
<1> SUFFICES ASSUME Init PROVE ServedInv
  OBVIOUS
<1>1. pxis \in [Ports -> SUBSET Status]
  BY DEF Init, Status
<1>2. PortHeld
  BY DEF Init, PortHeld
<1> QED BY <1>1, <1>2, InitInv, Zenon DEF Init, ServedInv, Engines, Tested, Reporting

(* The boot thread. *)
LEMMA ThreadServed ==
  ASSUME ServedInv, Thread \/ ReadDone(TRUE) \/ OutOfMemory
  PROVE  ServedInv'
<1> USE DEF PortHeld, Engines, Tested, Reporting, At, handler, locks, device
<1>0. /\ TypeOK /\ PortsFound /\ Inv'
      /\ issued \in SUBSET Ports /\ failed \in SUBSET Ports /\ pxis \in [Ports -> SUBSET Status]
      /\ PortHeld /\ Engines /\ Tested /\ Reporting
  BY ThreadInv, Zenon DEF ServedInv, Inv
<1>1. CASE LockDriver
  BY <1>0, <1>1 DEF LockDriver, ServedInv
<1>2. CASE StartHba
  BY <1>0, <1>2 DEF StartHba, ServedInv
<1>3. CASE Probe
  BY <1>0, <1>3 DEF Probe, ServedInv
<1>4. CASE StopCmd
  BY <1>0, <1>4 DEF StopCmd, ServedInv, TypeOK, PortsFound, InStartHba
<1>5. CASE SetUpPort
  BY <1>0, <1>5 DEF SetUpPort, ServedInv, TypeOK, PortsFound, InStartHba
<1>6. CASE StartCmd
  BY <1>0, <1>6 DEF StartCmd, ServedInv, TypeOK
<1>7. CASE HbaStarted
  BY <1>0, <1>7 DEF HbaStarted, ServedInv
<1>8. CASE NoPort
  BY <1>0, <1>8 DEF NoPort, ServedInv, TypeOK
<1>9. CASE LockPort
  BY <1>0, <1>9 DEF LockPort, ServedInv, TypeOK
<1>10. CASE Issue
  BY <1>0, <1>10 DEF Issue, ServedInv, TypeOK
<1>11. ASSUME NEW hung \in BOOLEAN, ReadDone(hung) PROVE ServedInv'
  BY <1>0, <1>11 DEF ReadDone, ServedInv, TypeOK
<1>12. CASE UnlockDriver
  BY <1>0, <1>12 DEF UnlockDriver, ServedInv
<1>13. CASE OutOfMemory
  BY <1>0, <1>13 DEF OutOfMemory, ServedInv
<1> QED BY <1>1, <1>2, <1>3, <1>4, <1>5, <1>6, <1>7, <1>8, <1>9, <1>10, <1>11, <1>12, <1>13, Zenon
        DEF Thread

(* The handler changes PxIS only when the thread waits for no command. *)
LEMMA HandlerServed ==
  ASSUME ServedInv, Interrupt \/ Handler
  PROVE  ServedInv'
<1>0. /\ TypeOK /\ DriverHeld /\ Inv'
      /\ issued \in SUBSET Ports /\ failed \in SUBSET Ports /\ pxis \in [Ports -> SUBSET Status]
      /\ PortHeld /\ Engines /\ Tested /\ Reporting
  BY HandlerInv DEF ServedInv, Inv
<1>1. UNCHANGED <<thread, inner, cmd, issued, failed>>
  BY Zenon DEF Handler, Interrupt, ReadGlobal, WriteGlobal, LockPorts, ReadPort, WritePort, Iret,
               locks, device
<1>2. UNCHANGED <<pc, port, ports, ghc, pxie>>
  BY <1>1, Zenon DEF thread
<1>3. CASE UNCHANGED pxis
  BY <1>0, <1>1, <1>2, <1>3 DEF ServedInv, PortHeld, Engines, Tested, Reporting
<1>4. CASE WritePort
  <2>1. pc # "wait"
    BY <1>0, <1>4 DEF WritePort, DriverHeld
  <2>2. pxis' \in [Ports -> SUBSET Status]
    BY <1>0, <1>4 DEF WritePort, TypeOK
  <2> QED BY <1>0, <1>1, <1>2, <2>1, <2>2 DEF ServedInv, PortHeld, Engines, Tested, Reporting
<1> QED BY <1>3, <1>4, Zenon
        DEF Handler, Interrupt, ReadGlobal, WriteGlobal, LockPorts, ReadPort, Iret, device

(* The adapter touches no flag but CR and FR, and clears no status. *)
LEMMA DeviceServed ==
  ASSUME ServedInv, NEW p \in Ports, Device(p) \/ DevReport(p)
  PROVE  ServedInv'
<1>0. /\ TypeOK /\ Inv'
      /\ issued \in SUBSET Ports /\ failed \in SUBSET Ports /\ pxis \in [Ports -> SUBSET Status]
      /\ PortHeld /\ Engines /\ Tested /\ Reporting
  BY DeviceInv DEF ServedInv, Inv
<1>1. UNCHANGED <<thread, inner>>
  BY Zenon DEF Device, DevCmd, DevComplete, DevError, DevReport, DevRaise, locks
<1>2. UNCHANGED <<pc, port, ports, ghc, pxie, inner>>
  BY <1>1, Zenon DEF thread
<1>3. ASSUME NEW run \in {"ST", "FRE"}, NEW running \in {"CR", "FR"}, DevCmd(p, run, running)
      PROVE  ServedInv'
  <2>1. \A q \in Ports, flag \in {"ST", "FRE"} : flag \in cmd'[q] <=> flag \in cmd[q]
    BY <1>0, <1>3 DEF DevCmd, TypeOK
  <2>2. port \in Ports \/ pc \notin {"stopping", "starting"}
    BY <1>0 DEF TypeOK
  <2>3. ports \subseteq Ports
    BY <1>0 DEF TypeOK
  <2>4. Engines'
    BY <1>0, <1>2, <2>1, <2>2, <2>3 DEF Engines
  <2>5. UNCHANGED <<pxis, issued, failed>>
    BY <1>3 DEF DevCmd
  <2> QED BY <1>0, <1>2, <2>4, <2>5 DEF ServedInv, PortHeld, Tested, Reporting
<1>4. ASSUME UNCHANGED cmd, issued' \in SUBSET issued, failed' \in SUBSET (failed \cup issued),
             pxis' \in [Ports -> SUBSET Status], \A q \in Ports : pxis[q] \subseteq pxis'[q],
             \A q \in failed' \ failed : "TFES" \in pxis'[q]
      PROVE  ServedInv'
  <2>1. issued' \in SUBSET Ports /\ failed' \in SUBSET Ports
    BY <1>0, <1>4
  <2>2. Tested'
    BY <1>0, <1>2, <1>4, <2>1, Zenon DEF Tested
  <2> QED BY <1>0, <1>2, <1>4, <2>1, <2>2 DEF ServedInv, PortHeld, Engines, Reporting
<1>5. CASE DevComplete(p)
  BY <1>0, <1>4, <1>5 DEF DevComplete, Status
<1>6. CASE DevError(p)
  BY <1>0, <1>4, <1>6 DEF DevError, Status
<1>7. CASE DevReport(p)
  BY <1>0, <1>4, <1>7 DEF DevReport, Status
<1>8. CASE DevRaise(p)
  BY <1>0, <1>4, <1>8 DEF DevRaise
<1> QED BY <1>3, <1>5, <1>6, <1>7, <1>8, Zenon DEF Device

(* Every step keeps the invariant. *)
LEMMA NextServed == ServedInv /\ [Next]_vars => ServedInv'
<1> SUFFICES ASSUME ServedInv, [Next]_vars PROVE ServedInv'
  OBVIOUS
<1>1. CASE UNCHANGED vars \/ Spin
  <2>1. UNCHANGED vars
    BY <1>1 DEF Spin
  <2>2. Inv'
    BY NextInv DEF ServedInv
  <2> QED BY <2>1, <2>2 DEF vars, thread, locks, device, ServedInv, PortHeld, Engines, Tested, Reporting
<1> QED BY <1>1, ThreadServed, HandlerServed, DeviceServed, Zenon DEF Next

(* The invariant behind the three theorems below. *)
THEOREM Served == Spec => []ServedInv
BY InitServed, NextServed, PTL DEF Spec

(* A handler that has not interrupted a holder of AhciDriver.inner finds   *)
(* every lock it takes free: the driver's each time it takes it, and those *)
(* of all ports in its loop.                                               *)
HandlerUnblocked ==
  (hpc # None /\ driver # "thread") =>
     /\ hpc \in {"read", "write", "lock"} => driver = None
     /\ \A p \in Ports : inner[p] = None

(* HandlerUnblocked for every number of ports: HandlerReturns needs only   *)
(* that the handler goes on.                                               *)
THEOREM UnblockedHandler == Spec => []HandlerUnblocked
<1>1. ServedInv => HandlerUnblocked
  <2> SUFFICES ASSUME ServedInv, hpc # None, driver # "thread"
               PROVE  /\ hpc \in {"read", "write", "lock"} => driver = None
                      /\ \A p \in Ports : inner[p] = None
    BY DEF HandlerUnblocked
  <2>1. TypeOK /\ DriverHeld /\ PortHeld
    BY DEF ServedInv, Inv
  <2>2. hpc \in {"read", "write", "lock"} => driver = None
    BY <2>1 DEF TypeOK, DriverHeld
  <2>3. pc \in {"start", "done"}
    BY <2>1 DEF DriverHeld
  <2>4. \A p \in Ports : inner[p] = None
    BY <2>1, <2>3 DEF TypeOK, PortHeld
  <2> QED BY <2>2, <2>4
<1> QED BY <1>1, Served, PTL

(* Each loop of the boot thread waits for what the adapter does by itself: *)
(* stop_cmd and start_cmd have cleared the flags that CR and FR follow,    *)
(* and the test read waits for a command that is over, has failed for all  *)
(* to see, or is in the hands of a port that is told to run.               *)
LoopsServed ==
  /\ At("stopping") => cmd[port] \cap {"ST", "FRE"} = {}
  /\ At("starting") => "ST" \notin cmd[port]
  /\ At("wait") => \/ port \notin issued \/ "TFES" \in pxis[port]
                   \/ port \notin failed /\ "ST" \in cmd[port]

(* LoopsServed for every number of ports: StartEnds needs only that the    *)
(* thread goes on and that the adapter does its part.                      *)
THEOREM ServedLoops == Spec => []LoopsServed
<1>1. ServedInv => LoopsServed
  <2> SUFFICES ASSUME ServedInv PROVE LoopsServed
    OBVIOUS
  <2>1. Engines /\ Tested /\ PortsFound /\ TypeOK
    BY DEF ServedInv, Inv
  <2>2. pc = "wait" => "ST" \in cmd[port]
    <3>1. pc = "wait" => port \in ports
      BY DEF ServedInv, PortHeld
    <3> QED BY <2>1, <3>1 DEF Engines
  <2> QED BY <2>1, <2>2 DEF LoopsServed, Engines, Tested, At
<1> QED BY <1>1, Served, PTL

(* Once start has ended, GHC.IE is set and every port found may interrupt: *)
(* a status that arrives is reported.                                      *)
StatusReported == pc = "done" => ghc /\ ports = Active /\ ports \subseteq pxie

(* StatusReported for every number of ports: StatusServed needs only that  *)
(* the adapter reports and that interrupts are taken.                      *)
THEOREM ReportedStatus == Spec => []StatusReported
<1>1. ServedInv => StatusReported
  BY DEF ServedInv, Inv, PortsFound, Reporting, StatusReported
<1> QED BY <1>1, Served, PTL
=============================================================================
