------------------------------ MODULE AhciHba -------------------------------
(***************************************************************************)
(* The start of the AHCI driver (drivers/ahci/mod.rs): AhciDriver::start,  *)
(* start_driver, start_hba and HbaPort::start on the boot thread, the      *)
(* interrupt handler ahci (arch/x86_64/interrupts.rs) on top of it, and    *)
(* the host bus adapter.  Both sides take AhciDriver.inner and             *)
(* AhciPort.inner, spinning locks.  The test read of each port is one      *)
(* command here; AhciPort models it in full, KernelLocks the log calls.    *)
(***************************************************************************)
EXTENDS Naturals, Option

CONSTANT NumPorts   \* 32

ASSUME AhciHbaConstants ==
  /\ NumPorts \in Nat
  /\ None \notin {"thread", "handler", "read", "write", "lock", "ports", "port"}

Ports == 0 .. (NumPorts - 1)
Links == {"unimplemented", "absent", "active", "reserved"}

VARIABLES
  enabled,   \* RFLAGS.IF
  saved,     \* what without_interrupts restores
  pc,        \* where the boot thread is in AhciDriver::start
  port,      \* the port it is at
  hpc,       \* where the handler is, or None
  hport,     \* the port it is at
  gstatus,   \* the IS it has read
  status,    \* the PxIS it has read last
  driver,    \* who holds AhciDriver.inner for writing, or None
  inner,     \* port -> who holds AhciPort.inner for writing, or None
  ports,     \* the entries of AhciProtected.ports that are Some
  list,      \* port -> who wrote its command list last
  link,      \* port -> its bit of PI, and PxSSTS
  ghc,       \* GHC.IE
  is,        \* IS: the ports that ask for an interrupt
  cmd,       \* port -> the flags ST, CR, FRE and FR of PxCMD
  pxis,      \* port -> PxIS
  pxie,      \* the ports whose PxIE is set
  issued,    \* the ports with a command in PxCI
  failed     \* the ports that have stopped after an error

thread == <<saved, pc, port, ports, list, ghc, pxie>>
handler == <<hpc, hport, gstatus, status>>
locks == <<driver, inner>>
device == <<link, is, cmd, pxis, issued, failed>>
vars == <<enabled, thread, handler, locks, device>>

(* As the firmware leaves the adapter: its ports run or are stopped, and   *)
(* it polls.                                                               *)
Init ==
  /\ enabled \in BOOLEAN /\ saved = FALSE
  /\ pc = "start" /\ port = 0
  /\ hpc = None /\ hport = 0 /\ gstatus = {} /\ status = {}
  /\ driver = None /\ inner = [p \in Ports |-> None]
  /\ ports = {} /\ list = [p \in Ports |-> "firmware"]
  /\ link \in [Ports -> Links]
  /\ ghc = FALSE /\ is = {} /\ pxie = {} /\ issued = {} /\ failed = {}
  /\ cmd \in [Ports -> {{}, {"ST", "CR", "FRE", "FR"}}]
  /\ pxis \in [Ports -> {{}, {"DHRS"}}]

-----------------------------------------------------------------------------
(* The boot thread runs when the handler does not. *)
At(label) == hpc = None /\ pc = label

(* AhciDriver::start, and start_driver up to without_interrupts. *)
LockDriver ==
  /\ At("start") /\ driver = None
  /\ driver' = "thread"
  /\ pc' = "locked"
  /\ UNCHANGED <<enabled, saved, port, ports, list, ghc, pxie, handler, inner, device>>

StartHbaInterruptible ==
  /\ At("locked")
  /\ saved' = enabled
  /\ ghc' = TRUE
  /\ port' = 0 /\ pc' = "probe"
  /\ UNCHANGED <<enabled, ports, list, pxie, handler, locks, device>>

(* without_interrupts, and start_hba up to its loop. *)
StartHba ==
  /\ At("locked")
  /\ saved' = enabled /\ enabled' = FALSE
  /\ ghc' = TRUE
  /\ port' = 0 /\ pc' = "probe"
  /\ UNCHANGED <<ports, list, pxie, handler, locks, device>>

(* HbaPort::probe; HbaSataStatus panics on a code it does not know. *)
Probe ==
  /\ At("probe") /\ port < NumPorts
  /\ IF link[port] \in {"active", "reserved"}
     THEN pc' = (IF link[port] = "active" THEN "stop" ELSE "panic") /\ UNCHANGED port
     ELSE port' = port + 1 /\ UNCHANGED pc
  /\ UNCHANGED <<enabled, saved, ports, list, ghc, pxie, handler, locks, device>>

StopCmdKeepsFre ==
  /\ At("stop")
  /\ cmd' = [cmd EXCEPT ![port] = @ \ {"ST"}]
  /\ pc' = "stopping"
  /\ UNCHANGED <<enabled, saved, port, ports, list, ghc, pxie, handler, locks,
                 link, is, pxis, issued, failed>>

(* stop_cmd, up to its loop. *)
StopCmd ==
  /\ At("stop")
  /\ cmd' = [cmd EXCEPT ![port] = @ \ {"ST", "FRE"}]
  /\ pc' = "stopping"
  /\ UNCHANGED <<enabled, saved, port, ports, list, ghc, pxie, handler, locks,
                 link, is, pxis, issued, failed>>

(* The loop of stop_cmd ends. *)
StoppedNoFr == "CR" \notin cmd[port]

Stopped == cmd[port] \cap {"FR", "CR"} = {}

(* HbaPort::start: the command list, PxIS read and written back, PxIE, and *)
(* PxCMD, whose flags CR and FR cannot be written.                         *)
SetUpPort ==
  /\ At("stopping") /\ Stopped
  /\ list' = [list EXCEPT ![port] = "driver"]
  /\ pxis' = [pxis EXCEPT ![port] = {}]
  /\ pxie' = pxie \cup {port}
  /\ cmd' = [cmd EXCEPT ![port] = @ \cap {"CR", "FR"}]
  /\ pc' = "starting"
  /\ UNCHANGED <<enabled, saved, port, ports, ghc, handler, locks, link, is, issued, failed>>

(* start_cmd after its loop, and the entry of the ports array. *)
StartCmd ==
  /\ At("starting") /\ "CR" \notin cmd[port]
  /\ cmd' = [cmd EXCEPT ![port] = @ \cup {"FRE", "ST"}]
  /\ ports' = ports \cup {port}
  /\ port' = port + 1 /\ pc' = "probe"
  /\ UNCHANGED <<enabled, saved, list, ghc, pxie, handler, locks, link, is, pxis, issued, failed>>

(* The end of start_hba and of without_interrupts. *)
HbaStarted ==
  /\ At("probe") /\ port = NumPorts
  /\ enabled' = saved
  /\ port' = 0 /\ pc' = "test"
  /\ UNCHANGED <<saved, ports, list, ghc, pxie, handler, locks, device>>

-----------------------------------------------------------------------------
(* The test read of a port: AhciPort::run_request locks the port. *)
NoPort ==
  /\ At("test") /\ port < NumPorts /\ port \notin ports
  /\ port' = port + 1
  /\ UNCHANGED <<enabled, saved, pc, ports, list, ghc, pxie, handler, locks, device>>

LockPort ==
  /\ At("test") /\ port \in ports /\ inner[port] = None
  /\ inner' = [inner EXCEPT ![port] = "thread"]
  /\ pc' = "issue"
  /\ UNCHANGED <<enabled, saved, port, ports, list, ghc, pxie, handler, driver, device>>

Issue ==
  /\ At("issue")
  /\ issued' = issued \cup {port}
  /\ pc' = "wait"
  /\ UNCHANGED <<enabled, saved, port, ports, list, ghc, pxie, handler, locks,
                 link, is, cmd, pxis, failed>>

(* run_command returns: completed or a disk error, or "port hung". *)
ReadDone(hung) ==
  /\ At("wait")
  /\ hung \/ port \notin issued \/ "TFES" \in pxis[port]
  /\ inner' = [inner EXCEPT ![port] = None]
  /\ port' = port + 1 /\ pc' = "test"
  /\ UNCHANGED <<enabled, saved, ports, list, ghc, pxie, handler, driver, device>>

UnlockDriver ==
  /\ At("test") /\ port = NumPorts
  /\ driver' = None
  /\ pc' = "done"
  /\ UNCHANGED <<enabled, saved, port, ports, list, ghc, pxie, handler, inner, device>>

(* pmm_alloc, for a command list or a DMA buffer. *)
OutOfMemory ==
  /\ (At("stopping") /\ Stopped) \/ (At("test") /\ port \in ports)
  /\ pc' = "panic"
  /\ UNCHANGED <<enabled, saved, port, ports, list, ghc, pxie, handler, locks, device>>

-----------------------------------------------------------------------------
(* The CPU takes an interrupt. *)
Interrupt ==
  /\ enabled /\ hpc = None /\ ghc /\ is # {}
  /\ hpc' = "read" /\ enabled' = FALSE
  /\ UNCHANGED <<thread, hport, gstatus, status, locks, device>>

(* get_hba takes AhciDriver.inner for reading, once for each access. *)
ReadGlobal ==
  /\ hpc = "read" /\ driver = None
  /\ gstatus' = is
  /\ hpc' = "write"
  /\ UNCHANGED <<enabled, thread, hport, status, locks, device>>

WriteGlobal ==
  /\ hpc = "write" /\ driver = None
  /\ is' = is \ gstatus
  /\ hpc' = "lock"
  /\ UNCHANGED <<enabled, thread, hport, gstatus, status, locks, link, cmd, pxis, issued, failed>>

LockPorts ==
  /\ hpc = "lock" /\ driver = None
  /\ driver' = "handler"
  /\ hport' = 0 /\ hpc' = "ports"
  /\ UNCHANGED <<enabled, thread, gstatus, status, inner, device>>

ReadPortKeepsGuard ==
  /\ hpc = "ports" /\ hport < NumPorts
  /\ IF hport \in ports
     THEN /\ inner[hport] = None
          /\ inner' = [inner EXCEPT ![hport] = "handler"]
          /\ status' = pxis[hport] /\ hpc' = "port" /\ UNCHANGED hport
     ELSE hport' = hport + 1 /\ UNCHANGED <<hpc, status, inner>>
  /\ UNCHANGED <<enabled, thread, gstatus, driver, device>>

(* The guard of port.inner is dropped at the end of the statement. *)
ReadPort ==
  /\ hpc = "ports" /\ hport < NumPorts
  /\ IF hport \in ports
     THEN inner[hport] = None /\ status' = pxis[hport] /\ hpc' = "port" /\ UNCHANGED hport
     ELSE hport' = hport + 1 /\ UNCHANGED <<hpc, status>>
  /\ UNCHANGED <<enabled, thread, gstatus, locks, device>>

WritePortInverted ==
  /\ hpc = "port" /\ inner[hport] = None
  /\ pxis' = [pxis EXCEPT ![hport] = @ \cap status]
  /\ hport' = hport + 1 /\ hpc' = "ports"
  /\ UNCHANGED <<enabled, thread, gstatus, status, locks, link, is, cmd, issued, failed>>

WritePort ==
  /\ hpc = "port" /\ inner[hport] = None
  /\ pxis' = [pxis EXCEPT ![hport] = @ \ status]
  /\ hport' = hport + 1 /\ hpc' = "ports"
  /\ UNCHANGED <<enabled, thread, gstatus, status, locks, link, is, cmd, issued, failed>>

(* The end of the loop, and iretq. *)
Iret ==
  /\ hpc = "ports" /\ hport = NumPorts
  /\ driver' = None
  /\ hpc' = None /\ enabled' = TRUE
  /\ UNCHANGED <<thread, hport, gstatus, status, inner, device>>

-----------------------------------------------------------------------------
(* The adapter: CR follows ST and FR follows FRE. *)
DevCmd(p, run, running) ==
  /\ (run \in cmd[p]) # (running \in cmd[p])
  /\ cmd' = [cmd EXCEPT ![p] = IF run \in @ THEN @ \cup {running} ELSE @ \ {running}]
  /\ UNCHANGED <<enabled, thread, handler, locks, link, is, pxis, issued, failed>>

DevComplete(p) ==
  /\ p \in issued \ failed /\ "CR" \in cmd[p]
  /\ issued' = issued \ {p}
  /\ pxis' = [pxis EXCEPT ![p] = @ \cup {"DHRS"}]
  /\ UNCHANGED <<enabled, thread, handler, locks, link, is, cmd, failed>>

DevError(p) ==
  /\ p \in issued \ failed /\ "CR" \in cmd[p]
  /\ failed' = failed \cup {p}
  /\ pxis' = [pxis EXCEPT ![p] = @ \cup {"TFES"}]
  /\ UNCHANGED <<enabled, thread, handler, locks, link, is, cmd, issued>>

(* A FIS the adapter receives unasked, such as the first one of a device. *)
DevReport(p) ==
  /\ "FR" \in cmd[p]
  /\ pxis' = [pxis EXCEPT ![p] = @ \cup {"DHRS"}]
  /\ UNCHANGED <<enabled, thread, handler, locks, link, is, cmd, issued, failed>>

DevRaise(p) ==
  /\ p \in pxie \ is /\ pxis[p] # {}
  /\ is' = is \cup {p}
  /\ UNCHANGED <<enabled, thread, handler, locks, link, cmd, pxis, issued, failed>>

-----------------------------------------------------------------------------
Thread ==
  \/ LockDriver \/ StartHba \/ Probe \/ StopCmd \/ SetUpPort \/ StartCmd \/ HbaStarted
  \/ NoPort \/ LockPort \/ Issue \/ ReadDone(FALSE) \/ UnlockDriver

Handler == ReadGlobal \/ WriteGlobal \/ LockPorts \/ ReadPort \/ WritePort \/ Iret

Device(p) ==
  \/ DevCmd(p, "ST", "CR") \/ DevCmd(p, "FRE", "FR")
  \/ DevComplete(p) \/ DevError(p) \/ DevRaise(p)

(* maink's loop, the panic handler's, and spinning on a lock. *)
Spin ==
  /\ \/ At("done") \/ At("panic")
     \/ hpc # None /\ driver # None
  /\ UNCHANGED vars

Next ==
  \/ Thread \/ ReadDone(TRUE) \/ OutOfMemory \/ Interrupt \/ Handler \/ Spin
  \/ \E p \in Ports : Device(p) \/ DevReport(p)

(* The CPU runs on and takes interrupts; the adapter follows PxCMD, works  *)
(* on its commands and reports them.                                       *)
Spec ==
  /\ Init /\ [][Next]_vars
  /\ WF_vars(Thread) /\ WF_vars(Interrupt) /\ WF_vars(Handler)
  /\ \A p \in Ports : WF_vars(Device(p))

-----------------------------------------------------------------------------
(* HbaPort::start writes a port's command list only while the adapter does *)
(* not use it: stop_cmd has waited for both engines, which the firmware    *)
(* may have left running, to stop.                                         *)
ListsQuiet == [][\A p \in Ports : list'[p] # list[p] => cmd[p] \cap {"CR", "FR"} = {}]_vars

(* An interrupt that arrives while the boot thread holds the driver's lock *)
(* finds it held for ever.  without_interrupts keeps such an interrupt     *)
(* away from start_hba, which turns the adapter's interrupts on: it can    *)
(* only arrive in the test reads, when every port found is set up.         *)
HangWindow ==
  (hpc # None /\ driver = "thread") =>
     /\ pc \in {"test", "issue", "wait", "panic"}
     /\ ports = {p \in Ports : link[p] = "active"}

(* The handler returns when the thread it interrupted holds no lock of the *)
(* driver: it takes AhciDriver.inner three times and each AhciPort.inner   *)
(* twice, and never waits for itself.                                      *)
HandlerReturns == (hpc # None /\ driver # "thread") ~> (hpc = None)

(* Once the driver is started and can be interrupted, no status of a port  *)
(* is left unacknowledged, though the handler clears IS before PxIS and    *)
(* the device sets both while it runs.                                     *)
StatusServed ==
  \A p \in Ports :
    (pc = "done" /\ (enabled \/ hpc # None) /\ p \in ports /\ pxis[p] # {}) ~> (pxis[p] = {})

(* AhciDriver::start ends, or panics, unless an interrupt stops it: the    *)
(* loops of stop_cmd, start_cmd and run_command wait for what the adapter  *)
(* does.                                                                   *)
StartEnds == (pc = "start") ~> (pc \in {"done", "panic"} \/ hpc # None)
=============================================================================
