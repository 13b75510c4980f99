------------------------------ MODULE PciInit -------------------------------
(***************************************************************************)
(* The boot thread's walk over the PCI bus (drivers/pci_impl.rs, init) and *)
(* what it drives: AML start-up and interrupt routing (acpi_impl.rs), the  *)
(* APICs (apic_impl.rs), the IDT (arch/x86_64/interrupts.rs), MSI-X        *)
(* vectors, and the registration and the start of the AHCI and XHCI        *)
(* drivers.  The machine it finds is chosen in Init and does not change.   *)
(***************************************************************************)
EXTENDS Integers, Sequences, FiniteSets, FiniteSetsExt, SequencesExt, Option

CONSTANTS
  Machines,       \* the machines to boot on, see hw below
  LastVector,     \* 255
  FirstVector,    \* 32, the first vector irqalloc looks at
  EarlyHandlers,  \* vector -> handler, set by the IDT before the INTx handlers
  LateHandlers    \* vector -> handler, set after them

Vectors == 0 .. LastVector
Pins == 1 .. 4              \* INTA .. INTD
Kinds == {"Unknown", "SataController", "UsbController", "Other"}

(* What an entry of an IDT may hold, None where it is missing. *)
Handlers ==
  {EarlyHandlers[v] : v \in DOMAIN EarlyHandlers} \cup {LateHandlers[v] : v \in DOMAIN LateHandlers}
    \cup {"pin", "msi_x", None}

ASSUME PciConstants ==
  /\ FirstVector \in Nat /\ LastVector \in Nat
  /\ None # "msi_x" /\ None \notin [Vectors -> Handlers]

VARIABLES
  hw,       \* mcfg: the MCFG table is there; apic: the interrupt model is APIC;
            \* aml: "missing" tables, "bad" AML or "ok"; bus: the functions in
            \* bus order, each with its kind, whether its header is of type
            \* Normal, its number of MSI-X entries or None, whether their BAR
            \* is valid, whether a USB port is enabled, and prt: None or the
            \* IRQ, or None, of each pin
  pc,
  scan,     \* the functions mcfg_brute_force returns
  dev,      \* the number of functions of scan taken so far
  step,     \* loop index: MSI-X entries done, or drivers tried
  table,    \* PCI_TABLE: headers and drivers (field devices of the code)
  held,     \* PCI_TABLE is locked for writing across steps
  count,    \* PCI_DRIVER_COUNT
  intx,     \* INTA_IRQ .. INTD_IRQ
  idt,      \* IDT, or None before its first use
  loaded,   \* IDT_CLONE, the table the CPU uses, or None
  apicOn,   \* APIC_IS_INITIALIZED; interrupts are enabled
  routed,   \* MSI-X entries written: <<function, entry>> -> vector
  xhci      \* the header the XHCI driver was made from, or None

vars == <<hw, pc, scan, dev, step, table, held, count, intx, idt, loaded, apicOn, routed, xhci>>
tabled == <<table, held, count, xhci>>
vectored == <<intx, idt, loaded, apicOn, routed>>

Init ==
  /\ hw \in Machines
  /\ pc = "init" /\ scan = <<>> /\ dev = 0 /\ step = 0
  /\ table = [headers |-> <<>>, drivers |-> <<>>] /\ held = FALSE /\ count = 0
  /\ intx = [p \in Pins |-> 0] /\ idt = None /\ loaded = None /\ apicOn = FALSE
  /\ routed = [x \in {} |-> 0] /\ xhci = None

Function == hw.bus[scan[dev]]

-----------------------------------------------------------------------------
(* interrupts::IDT; a pin that was not routed has INTx_IRQ 0. *)
NewIdt(irqs) ==
  [v \in Vectors |->
     IF v \in DOMAIN LateHandlers THEN LateHandlers[v]
     ELSE IF \E p \in Pins : irqs[p] = v THEN "pin"
     ELSE IF v \in DOMAIN EarlyHandlers THEN EarlyHandlers[v] ELSE None]

(* IDT is built when it is first used. *)
Idt(irqs) == IF idt = None THEN NewIdt(irqs) ELSE idt

(* interrupts::init: IDT_CLONE is cloned once. *)
Load(table_) == loaded' = IF loaded = None THEN table_ ELSE loaded

FreeVectors(table_) == {v \in FirstVector .. LastVector : table_[v] = None}

(* irqalloc; it panics when there is no free vector. *)
IrqAllocFixed(table_) == FirstVector

IrqAlloc(table_) == Min(FreeVectors(table_))

-----------------------------------------------------------------------------
(* init and aml_init, up to the loop over the functions. *)
InitAml ==
  /\ pc = "init"
  /\ pc' = IF hw.mcfg /\ hw.aml # "missing" THEN "scan" ELSE "panic"
  /\ UNCHANGED <<hw, scan, dev, step, tabled, vectored>>

(* mcfg_brute_force: the first function of each kind, none of kind Unknown. *)
Firsts ==
  {i \in DOMAIN hw.bus : /\ hw.bus[i].kind # "Unknown"
                         /\ \A j \in 1 .. (i - 1) : hw.bus[j].kind # hw.bus[i].kind}

McfgBruteForce ==
  /\ pc = "scan"
  /\ scan' = SetToSortSeq(Firsts, <)
  /\ pc' = "function"
  /\ UNCHANGED <<hw, dev, step, tabled, vectored>>

(* The next function: register_headers. *)
RegisterHeaders ==
  /\ pc = "function" /\ dev < Len(scan) /\ ~held
  /\ dev' = dev + 1
  /\ table' = [table EXCEPT !.headers = Append(@, scan[dev + 1])]
  /\ pc' = "route"
  /\ UNCHANGED <<hw, scan, step, held, count, xhci, vectored>>

InitDone ==
  /\ pc = "function" /\ dev = Len(scan)
  /\ pc' = "done"
  /\ UNCHANGED <<hw, scan, dev, step, tabled, vectored>>

(* init_all_available_apics; it panics without an APIC. *)
ApicsReady == apicOn \/ hw.apic

(* aml_route: the pins, then the IDT, then the APICs and interrupts. *)
AmlRouteApicFirst ==
  /\ pc = "route" /\ hw.aml = "ok" /\ Function.prt # None
  /\ apicOn' = hw.apic
  /\ intx' = [p \in Pins |-> IF Function.prt[p] = None THEN intx[p]
                             ELSE Function.prt[p] + FirstVector]
  /\ pc' = IF hw.apic THEN "register" ELSE "panic"
  /\ UNCHANGED <<hw, scan, dev, step, tabled, idt, loaded, routed>>

AmlRoute ==
  /\ pc = "route" /\ hw.aml = "ok" /\ Function.prt # None
  /\ intx' = [p \in Pins |-> IF Function.prt[p] = None THEN intx[p]
                             ELSE Function.prt[p] + FirstVector]
  /\ idt' = Idt(intx')
  /\ Load(idt')
  /\ apicOn' = ApicsReady
  /\ pc' = IF apicOn' THEN "register" ELSE "panic"
  /\ UNCHANGED <<hw, scan, dev, step, tabled, routed>>

AmlRouteNothing ==
  /\ pc = "route" /\ (hw.aml # "ok" \/ Function.prt = None)
  /\ pc' = IF hw.aml = "ok" THEN "register" ELSE "panic"
  /\ UNCHANGED <<hw, scan, dev, step, tabled, vectored>>

(* register_device_driver *)
RegisterDeviceDriver(driver) ==
  /\ ~held
  /\ table' = [table EXCEPT !.drivers = Append(@, driver)]
  /\ count' = Len(table'.drivers)

(* ahci_init, for a SATA controller. *)
AhciInit ==
  /\ pc = "register"
  /\ IF Function.kind = "SataController" THEN RegisterDeviceDriver("ahci")
     ELSE UNCHANGED <<table, count>>
  /\ pc' = IF Function.msix = None THEN "lock"
           ELSE IF Function.normal /\ ~Function.bar THEN "panic" ELSE "msix"
  /\ step' = 0
  /\ UNCHANGED <<hw, scan, dev, held, xhci, vectored>>

RouteMsixUnregistered ==
  /\ pc = "msix" /\ step < Function.msix
  /\ FreeVectors(Idt(intx)) # {}
  /\ routed' = [x \in DOMAIN routed \cup {<<scan[dev], step>>} |->
                  IF x = <<scan[dev], step>> THEN IrqAlloc(Idt(intx)) ELSE routed[x]]
  /\ step' = step + 1
  /\ idt' = Idt(intx)
  /\ Load(idt')
  /\ UNCHANGED <<hw, pc, scan, dev, tabled, intx, apicOn>>

(* One MSI-X entry: irqalloc, route_irq and register_handler. *)
RouteMsix ==
  /\ pc = "msix" /\ step < Function.msix
  /\ IF FreeVectors(Idt(intx)) = {}
     THEN pc' = "panic" /\ idt' = Idt(intx) /\ UNCHANGED <<step, routed, loaded>>
     ELSE LET irq == IrqAlloc(Idt(intx))
          IN /\ step' = step + 1
             /\ routed' = [x \in DOMAIN routed \cup {<<scan[dev], step>>} |->
                             IF x = <<scan[dev], step>> THEN irq ELSE routed[x]]
             /\ idt' = [Idt(intx) EXCEPT ![irq] = "msi_x"]
             /\ Load(idt')
             /\ UNCHANGED pc
  /\ UNCHANGED <<hw, scan, dev, tabled, intx, apicOn>>

(* xhci_init, for a USB controller that has MSI-X; it looks its header up. *)
XhciInit ==
  /\ pc = "msix" /\ step = Function.msix
  /\ IF Function.kind # "UsbController"
     THEN pc' = "lock" /\ UNCHANGED <<table, count, xhci>>
     ELSE LET usb == {i \in DOMAIN table.headers : hw.bus[table.headers[i]].kind = "UsbController"}
          IN IF usb = {} THEN pc' = "panic" /\ UNCHANGED <<table, count, xhci>>
             ELSE /\ xhci' = table.headers[Min(usb)]
                  /\ RegisterDeviceDriver("xhci")
                  /\ pc' = "lock"
  /\ UNCHANGED <<hw, scan, dev, step, held, vectored>>

-----------------------------------------------------------------------------
(* The loop over PCI_TABLE.write().devices: the lock is kept throughout. *)
LockTable ==
  /\ pc = "lock" /\ ~held
  /\ held' = TRUE
  /\ step' = 0
  /\ pc' = "drivers"
  /\ UNCHANGED <<hw, scan, dev, table, count, xhci, vectored>>

Handles(driver, kind) ==
  \/ driver = "ahci" /\ kind = "SataController"
  \/ driver = "xhci" /\ kind = "UsbController"

(* AhciDriver::start starts the only driver; XhciProtected::start starts. *)
Starts(driver) == driver = "ahci" => count = 1

(***************************************************************************)
(* start_driver of the AHCI driver panics on another type of header.       *)
(* XhciImpl::init does nothing without registers, which another type of    *)
(* header does not give; with a port that is enabled it sets the reset bit *)
(* in a copy of the port's register and waits for the copy to change.      *)
(***************************************************************************)
AfterStart(driver) ==
  IF driver = "ahci" /\ ~Function.normal THEN "panic"
  ELSE IF driver = "xhci" /\ hw.bus[xhci].normal /\ hw.bus[xhci].ports THEN "ports"
  ELSE "drivers"

TryDriverSticks ==
  /\ pc = "drivers" /\ step < Len(table.drivers)
  /\ LET driver == table.drivers[step + 1]
     IN IF Handles(driver, Function.kind) /\ Starts(driver)
        THEN pc' = AfterStart(driver) /\ step' = step + 1
        ELSE UNCHANGED <<pc, step>>
  /\ UNCHANGED <<hw, scan, dev, table, held, count, xhci, vectored>>

TryDriver ==
  /\ pc = "drivers" /\ step < Len(table.drivers)
  /\ LET driver == table.drivers[step + 1]
     IN pc' = IF Handles(driver, Function.kind) /\ Starts(driver)
              THEN AfterStart(driver) ELSE pc
  /\ step' = step + 1
  /\ UNCHANGED <<hw, scan, dev, table, held, count, xhci, vectored>>

UnlockTable ==
  /\ pc = "drivers" /\ step = Len(table.drivers)
  /\ held' = FALSE
  /\ pc' = "function"
  /\ UNCHANGED <<hw, scan, dev, step, table, count, xhci, vectored>>

(* After init maink draws for ever; a panic and the wait for ports loop. *)
Stopped == pc \in {"done", "panic", "ports"} /\ UNCHANGED vars

BootStep ==
  \/ InitAml \/ McfgBruteForce \/ RegisterHeaders \/ InitDone \/ AmlRoute \/ AmlRouteNothing
  \/ AhciInit \/ RouteMsix \/ XhciInit \/ LockTable \/ TryDriver \/ UnlockTable

Next == BootStep \/ Stopped

(* The boot thread is the only thread, and it runs. *)
Spec == Init /\ [][Next]_vars /\ WF_vars(BootStep)

-----------------------------------------------------------------------------
(* Every MSI-X entry has a vector of its own, whose handler in IDT is      *)
(* msi_x: irqalloc takes a vector that nothing uses, the fixed handlers,   *)
(* the pins and the entries of other functions included.                   *)
VectorsOwn ==
  /\ \A x, y \in DOMAIN routed : routed[x] = routed[y] => x = y
  /\ \A x \in DOMAIN routed : idt[routed[x]] = "msi_x"

(* Interrupts are not enabled before the CPU has an IDT: aml_route loads   *)
(* it before it sets the APICs up.                                         *)
IdtBeforeInterrupts == apicOn => loaded # None

(* A handler in IDT is never replaced: register_handler only fills entries *)
(* that irqalloc found missing.                                            *)
HandlersKept ==
  [][\A v \in Vectors : (idt # None /\ idt[v] # None) => idt'[v] = idt[v]]_vars

(* The walk over the bus ends, or stops at a panic or at an enabled USB    *)
(* port: no step waits for PCI_TABLE while init itself holds it.           *)
BootEnds == <>(pc \in {"done", "panic", "ports"})

(* register_handler puts a handler in force: the CPU's IDT has a handler   *)
(* for every MSI-X vector that was routed.                                 *)
VectorsLoaded == \A x \in DOMAIN routed : loaded[routed[x]] = "msi_x"
=============================================================================
