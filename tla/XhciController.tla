--------------------------- MODULE XhciController ---------------------------
(***************************************************************************)
(* XhciImpl::init and XhciImpl::probe (drivers/xhci/mod.rs), once the      *)
(* registers are mapped, and the host controller.  update_volatile reads a *)
(* register, changes the value and writes it back; for USBCMD, which the   *)
(* controller changes too, that is two steps.  A register holds what the   *)
(* firmware or a reset left in it, what the driver means to write, or the  *)
(* contents of a fresh page, where the code reads through an address.      *)
(***************************************************************************)
EXTENDS Integers, Option

CONSTANTS
  NumInterrupters,   \* HCSPARAMS1, as the driver reads them
  NumPorts

ASSUME XhciConstants ==
  /\ NumInterrupters \in Nat /\ NumPorts \in Nat
  /\ \A flags \in SUBSET {"RS", "HCRST", "INTE"} : flags # None

Interrupters == 0 .. (NumInterrupters - 1)
Ports == 0 .. (NumPorts - 1)

VARIABLES
  pc,        \* where init is
  copy,      \* the USBCMD that update_volatile has read, or None
  i,         \* the interrupter or port a loop is at
  cmd,       \* USBCMD: the flags RS, HCRST and INTE
  halted,    \* USBSTS.HCH
  notReady,  \* USBSTS.CNR
  regs,      \* CONFIG, DCBAAP and CRCR
  rings,     \* interrupter -> its registers
  enabled,   \* the ports with PORTSC.PED
  cic,       \* HCCPARAMS2.CIC
  rung,      \* doorbell 0 has been rung
  raced      \* a register was written while the controller was resetting

driver == <<pc, copy, i>>
controller == <<cmd, halted, notReady, regs, rings, enabled>>
xhciVars == <<driver, controller, cic, rung, raced>>

RegsFrom(origin) == [r \in {"config", "dcbaap", "crcr"} |-> origin]
RingsFrom(origin) == [n \in Interrupters |-> [erstsz |-> origin, erdp |-> origin, erstba |-> origin]]

(* The segment table's size and base are read from pages just allocated. *)
NewRing == [erstsz |-> "page", erdp |-> "driver", erstba |-> "page"]

(* As the firmware leaves the controller. *)
XhciInit ==
  /\ pc = "ready" /\ copy = None /\ i = 0
  /\ cmd \in {{}, {"RS"}, {"RS", "INTE"}}
  /\ halted = ("RS" \notin cmd)
  /\ notReady \in BOOLEAN
  /\ regs = RegsFrom("firmware") /\ rings = RingsFrom("firmware")
  /\ enabled \in SUBSET Ports
  /\ cic \in BOOLEAN /\ rung = FALSE /\ raced = FALSE

-----------------------------------------------------------------------------
Resetting == "HCRST" \in cmd \/ notReady

(* The closures given to USBCMD's update_volatile. *)
UpdatedKeepsRun(flags) ==
  CASE pc = "stop"   -> flags
    [] pc = "reset"  -> flags \cup {"HCRST"}
    [] pc = "enable" -> flags \cup {"INTE"}
    [] pc = "run"    -> flags \cup {"RS"}

Updated(flags) ==
  CASE pc = "stop"   -> flags \ {"RS"}
    [] pc = "reset"  -> flags \cup {"HCRST"}
    [] pc = "enable" -> flags \cup {"INTE"}
    [] pc = "run"    -> flags \cup {"RS"}

Then == [stop |-> "stopping", reset |-> "config", enable |-> "scratchpad", run |-> "running"]

ReadCmd ==
  /\ pc \in DOMAIN Then /\ copy = None
  /\ copy' = cmd
  /\ UNCHANGED <<pc, i, controller, cic, rung, raced>>

WriteCmd ==
  /\ pc \in DOMAIN Then /\ copy # None
  /\ cmd' = Updated(copy)
  /\ copy' = None
  /\ raced' = (raced \/ Resetting)
  /\ pc' = Then[pc]
  /\ UNCHANGED <<i, halted, notReady, regs, rings, enabled, cic, rung>>

(* The loops that wait for the controller. *)
WaitReady ==
  /\ pc = "ready" /\ ~notReady
  /\ pc' = "stop"
  /\ UNCHANGED <<copy, i, controller, cic, rung, raced>>

WaitStop ==
  /\ pc = "stopping" /\ "RS" \notin cmd
  /\ pc' = "reset"
  /\ UNCHANGED <<copy, i, controller, cic, rung, raced>>

WaitRunNot ==
  /\ pc = "running"
  /\ pc' = "doorbell"
  /\ UNCHANGED <<copy, i, controller, cic, rung, raced>>

WaitRun ==
  /\ pc = "running" /\ ~halted
  /\ pc' = "doorbell"
  /\ UNCHANGED <<copy, i, controller, cic, rung, raced>>

-----------------------------------------------------------------------------
Write(reg, from, to) ==
  /\ pc = from
  /\ regs' = [regs EXCEPT ![reg] = "driver"]
  /\ raced' = (raced \/ Resetting)
  /\ pc' = to
  /\ UNCHANGED <<copy, i, cmd, halted, notReady, rings, cic, rung>>

SetSlots == Write("config", "config", "ports") /\ UNCHANGED enabled

(* PORTSC.PED is cleared by writing back the one that was read. *)
PowerPorts ==
  /\ pc = "ports"
  /\ enabled' = {}
  /\ raced' = (raced \/ Resetting)
  /\ pc' = "dcbaap"
  /\ UNCHANGED <<copy, i, cmd, halted, notReady, regs, rings, cic, rung>>

SetDcbaap == Write("dcbaap", "dcbaap", "crcr") /\ UNCHANGED enabled

SetCrcr == Write("crcr", "crcr", "interrupters") /\ UNCHANGED enabled

(* The interrupters that have been set up are those below i. *)
LastInterrupterEarly == i = NumInterrupters - 1

LastInterrupter == i = NumInterrupters

SetInterrupter ==
  /\ pc = "interrupters" /\ ~LastInterrupter
  /\ rings' = [rings EXCEPT ![i] = NewRing]
  /\ raced' = (raced \/ Resetting)
  /\ i' = i + 1
  /\ UNCHANGED <<pc, copy, cmd, halted, notReady, regs, enabled, cic, rung>>

InterruptersSet ==
  /\ pc = "interrupters" /\ LastInterrupter
  /\ pc' = "enable" /\ i' = 0
  /\ UNCHANGED <<copy, controller, cic, rung, raced>>

(* The buffer array, and the first device context. *)
SetScratchpad ==
  /\ pc = "scratchpad"
  /\ pc' = "run"
  /\ UNCHANGED <<copy, i, controller, cic, rung, raced>>

(* addralloc. *)
OutOfMemory ==
  /\ pc \in {"dcbaap", "scratchpad"} \/ (pc = "interrupters" /\ ~LastInterrupter)
  /\ pc' = "panic"
  /\ UNCHANGED <<copy, i, controller, cic, rung, raced>>

RingDoorbell ==
  /\ pc = "doorbell"
  /\ rung' = TRUE
  /\ raced' = (raced \/ Resetting)
  /\ pc' = "info"
  /\ UNCHANGED <<copy, i, controller, cic>>

EnableConfigInfo ==
  /\ pc = "info"
  /\ raced' = (raced \/ (cic /\ Resetting))
  /\ pc' = "resetports" /\ i' = 0
  /\ UNCHANGED <<copy, controller, cic, rung>>

(* The reset bit is set in the iterator's copy of a port, and so stays. *)
ResetPort ==
  /\ pc = "resetports" /\ i < NumPorts
  /\ IF i \in enabled THEN pc' = "copywait" /\ UNCHANGED i ELSE i' = i + 1 /\ UNCHANGED pc
  /\ UNCHANGED <<copy, controller, cic, rung, raced>>

(* The end of the loop, and probe, which changes copies only. *)
Probe ==
  /\ pc = "resetports" /\ i = NumPorts
  /\ pc' = "done"
  /\ UNCHANGED <<copy, i, controller, cic, rung, raced>>

-----------------------------------------------------------------------------
(* The controller. *)
DevReady ==
  /\ notReady /\ notReady' = FALSE
  /\ UNCHANGED <<driver, cmd, halted, regs, rings, enabled, cic, rung, raced>>

DevHalt ==
  /\ "RS" \notin cmd /\ ~halted /\ halted' = TRUE
  /\ UNCHANGED <<driver, cmd, notReady, regs, rings, enabled, cic, rung, raced>>

DevRun ==
  /\ "RS" \in cmd /\ halted /\ ~Resetting /\ halted' = FALSE
  /\ UNCHANGED <<driver, cmd, notReady, regs, rings, enabled, cic, rung, raced>>

DevReset ==
  /\ "HCRST" \in cmd
  /\ cmd' = {} /\ halted' = TRUE
  /\ notReady' \in BOOLEAN
  /\ regs' = RegsFrom("reset") /\ rings' = RingsFrom("reset")
  /\ enabled' = {}
  /\ UNCHANGED <<driver, cic, rung, raced>>

(* A port that a device is connected to trains its link. *)
DevPort(p) ==
  /\ p \notin enabled /\ ~Resetting
  /\ enabled' = enabled \cup {p}
  /\ UNCHANGED <<driver, cmd, halted, notReady, regs, rings, cic, rung, raced>>

-----------------------------------------------------------------------------
Driver ==
  \/ ReadCmd \/ WriteCmd \/ WaitReady \/ WaitStop \/ WaitRun
  \/ SetSlots \/ PowerPorts \/ SetDcbaap \/ SetCrcr \/ SetInterrupter \/ InterruptersSet
  \/ SetScratchpad \/ RingDoorbell \/ EnableConfigInfo \/ ResetPort \/ Probe

(* The loops that wait, the panic handler's and maink's. *)
Spinning == pc \in {"ready", "stopping", "running", "copywait", "panic", "done"}

XhciNext ==
  \/ Driver \/ OutOfMemory
  \/ DevReady \/ DevHalt \/ DevRun \/ DevReset \/ (\E p \in Ports : DevPort(p))
  \/ Spinning /\ UNCHANGED xhciVars

(* The CPU goes on, and the controller does what it is told. *)
XhciSpec ==
  /\ XhciInit /\ [][XhciNext]_xhciVars
  /\ WF_xhciVars(Driver)
  /\ WF_xhciVars(DevReady) /\ WF_xhciVars(DevHalt) /\ WF_xhciVars(DevRun) /\ WF_xhciVars(DevReset)

-----------------------------------------------------------------------------
(* When init rings the doorbell every ring and array it made is known to   *)
(* the controller: nothing it wrote has been lost in the reset, unless the *)
(* reset, which it does not wait for, outlived its first write.            *)
RegistersKept ==
  (rung /\ ~raced) =>
    /\ \A r \in DOMAIN regs : regs[r] = "driver"
    /\ \A n \in Interrupters : rings[n] = NewRing
    /\ "INTE" \in cmd

(* The doorbell is rung only on a controller that has left the halted      *)
(* state, with the same exception.                                         *)
DoorbellWhileRunning == [][rung' # rung => (~halted \/ raced')]_xhciVars

(* init ends, or panics, or comes to the loop on a copy of an enabled      *)
(* port: its other loops wait for what the controller does by itself.  A   *)
(* reset that outlives a write may clear RS after it was set, and then the *)
(* controller never leaves the halted state.                               *)
InitEnds == (pc = "ready") ~> (pc \in {"done", "panic", "copywait"} \/ raced)
=============================================================================
