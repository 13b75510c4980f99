--------------------------- MODULE PciInitProofs ----------------------------
(* Proofs about PciInit: for any machine, any number of vectors and any    *)
(* fixed handlers.                                                         *)
EXTENDS PciInit, WellFoundedInduction, TLAPS

(* The IDT and its copy are missing or are tables of handlers. *)
TypeOK ==
  /\ idt = None \/ idt \in [Vectors -> Handlers]
  /\ loaded = None \/ loaded \in [Vectors -> Handlers]
  /\ apicOn \in BOOLEAN

(* Every MSI-X entry routed has a vector whose entry of the IDT is msi_x. *)
Routed ==
  /\ \A x \in DOMAIN routed : idt # None /\ routed[x] \in Vectors /\ idt[routed[x]] = "msi_x"
  /\ \A x, y \in DOMAIN routed : routed[x] = routed[y] => x = y

Inv == TypeOK /\ Routed /\ IdtBeforeInterrupts

-----------------------------------------------------------------------------
USE PciConstants DEF Vectors

(* Min takes an element of a set of vectors that is not empty. *)
LEMMA MinElement ==
  ASSUME NEW S \in SUBSET Nat, S # {}
  PROVE  Min(S) \in S
<1>1. PICK x \in S : \A y \in S : ~(<<y, x>> \in OpToRel(<, Nat))
  BY WFMin, NatLessThanWellFounded, Zenon
<1>2. \A y \in S : ~(y < x)
  <2> SUFFICES ASSUME NEW y \in S, y < x PROVE FALSE
    OBVIOUS
  <2>1. <<y, x>> \in Nat \X Nat /\ <<y, x>>[1] = y /\ <<y, x>>[2] = x
    OBVIOUS
  <2>2. <<y, x>> \in OpToRel(<, Nat)
    BY <2>1, Zenon DEF OpToRel
  <2> QED BY <1>1, <2>2, Zenon
<1>3. \A y \in S : x <= y
  BY <1>2
<1> QED BY <1>3, Zenon DEF Min

(* irqalloc finds a vector of the table whose entry is missing. *)
LEMMA IrqAllocFree ==
  ASSUME NEW t, FreeVectors(t) # {}
  PROVE  IrqAlloc(t) \in Vectors /\ t[IrqAlloc(t)] = None
<1>1. IrqAlloc(t) \in FreeVectors(t)
  <2>1. FreeVectors(t) \in SUBSET Nat
    BY DEF FreeVectors
  <2> QED BY <2>1, MinElement, Zenon DEF IrqAlloc
<1> QED BY <1>1 DEF FreeVectors

(* The IDT is a table of handlers when it is used. *)
LEMMA IdtTable ==
  ASSUME TypeOK, NEW irqs
  PROVE  Idt(irqs) \in [Vectors -> Handlers]
<1>1. NewIdt(irqs) \in [Vectors -> Handlers]
  BY DEF NewIdt, Handlers
<1> QED BY <1>1 DEF TypeOK, Idt

(* Nothing is routed, and there is no IDT, before the walk. *)
LEMMA InitInv == Init => Inv
BY Zenon DEF Init, Inv, TypeOK, Routed, IdtBeforeInterrupts

(* The steps that change the IDT, the CPU's table, the APICs or the MSI-X  *)
(* entries are those of aml_route and of the loop over the entries.        *)
LEMMA OtherSteps ==
  ASSUME BootStep
  PROVE  AmlRoute \/ RouteMsix \/ UNCHANGED vectored
BY Zenon DEF BootStep, vectored, InitAml, McfgBruteForce, RegisterHeaders, InitDone, AmlRouteNothing, AhciInit,
       XhciInit, LockTable, TryDriver, UnlockTable

(* aml_route leaves a table that is there alone, and loads it first. *)
LEMMA AmlRouteInv ==
  ASSUME Inv, AmlRoute
  PROVE  Inv' /\ (idt # None => idt' = idt)
<1>1. idt' = Idt(intx') /\ idt' \in [Vectors -> Handlers] /\ idt' # None
  BY IdtTable DEF Inv, AmlRoute
<1>2. idt # None => idt' = idt
  BY <1>1 DEF Idt
<1>3. Routed'
  BY <1>2 DEF Inv, Routed, AmlRoute
<1>4. loaded' # None /\ (loaded' = idt' \/ loaded' = loaded)
  BY <1>1 DEF AmlRoute, Load
<1>5. apicOn' \in BOOLEAN
  BY Zenon DEF AmlRoute, ApicsReady, Inv, TypeOK
<1>6. TypeOK'
  BY <1>1, <1>4, <1>5 DEF Inv, TypeOK
<1> QED BY <1>2, <1>3, <1>4, <1>6 DEF Inv, IdtBeforeInterrupts

(* An MSI-X entry gets a vector that was free, or init panics. *)
LEMMA RouteMsixInv ==
  ASSUME Inv, RouteMsix
  PROVE  Inv' /\ (idt # None => \A v \in Vectors : idt[v] # None => idt'[v] = idt[v])
<1>1. Idt(intx) \in [Vectors -> Handlers] /\ Idt(intx) # None
  BY IdtTable DEF Inv
<1>2. idt # None => Idt(intx) = idt
  BY DEF Idt
<1>3. CASE FreeVectors(Idt(intx)) = {}
  <2>1. idt' = Idt(intx) /\ routed' = routed /\ loaded' = loaded /\ apicOn' = apicOn
    BY <1>3 DEF RouteMsix
  <2> QED BY <1>1, <1>2, <2>1 DEF Inv, TypeOK, Routed, IdtBeforeInterrupts
<1>4. CASE FreeVectors(Idt(intx)) # {}
  <2> DEFINE irq == IrqAlloc(Idt(intx))
             entry == <<scan[dev], step>>
  <2>1. irq \in Vectors /\ Idt(intx)[irq] = None
    BY <1>4, IrqAllocFree
  <2>2. /\ routed' = [x \in DOMAIN routed \cup {entry} |-> IF x = entry THEN irq ELSE routed[x]]
        /\ idt' = [Idt(intx) EXCEPT ![irq] = "msi_x"]
        /\ loaded' = IF loaded = None THEN idt' ELSE loaded
        /\ apicOn' = apicOn
    BY <1>4 DEF RouteMsix, Load
  <2> HIDE DEF irq, entry
  <2>3. idt' \in [Vectors -> Handlers] /\ idt' # None
    BY <1>1, <2>1, <2>2, SMTT(30) DEF Handlers
  <2>4. \A v \in Vectors : (idt # None /\ idt[v] # None) => idt'[v] = idt[v]
    BY <1>1, <1>2, <2>1, <2>2
  <2>5. idt'[irq] = "msi_x"
    BY <1>1, <2>1, <2>2
  <2>6. \A x \in DOMAIN routed : routed[x] \in Vectors /\ routed[x] # irq /\ idt'[routed[x]] = "msi_x"
    BY <1>2, <2>1, <2>4 DEF Inv, Routed
  <2>7. Routed'
    BY <2>1, <2>2, <2>3, <2>5, <2>6 DEF Inv, Routed
  <2>8. TypeOK' /\ IdtBeforeInterrupts'
    BY <2>2, <2>3 DEF Inv, TypeOK, IdtBeforeInterrupts
  <2> QED BY <2>4, <2>7, <2>8 DEF Inv
<1> QED BY <1>3, <1>4

(* Every step keeps the invariant and the handlers in the IDT. *)
LEMMA NextInv ==
  ASSUME Inv, [Next]_vars
  PROVE  Inv' /\ (idt # None => \A v \in Vectors : idt[v] # None => idt'[v] = idt[v])
<1>1. CASE UNCHANGED vectored
  BY <1>1 DEF vectored, Inv, TypeOK, Routed, IdtBeforeInterrupts
<1>2. CASE UNCHANGED vars
  BY <1>1, <1>2 DEF vars, vectored
<1> QED BY <1>1, <1>2, OtherSteps, AmlRouteInv, RouteMsixInv, Zenon DEF Next, Stopped

(* The invariant of the vectors. *)
THEOREM Invariance == Spec => []Inv
BY InitInv, NextInv, PTL DEF Spec

(* VectorsOwn for any machine: irqalloc gives every MSI-X entry a vector   *)
(* that no fixed handler, pin or other entry has.                          *)
THEOREM OwnVectors == Spec => []VectorsOwn
<1>1. Inv => VectorsOwn
  BY DEF Inv, Routed, VectorsOwn
<1> QED BY <1>1, Invariance, PTL

(* IdtBeforeInterrupts for any machine: aml_route never enables interrupts *)
(* on a CPU without an IDT.                                                *)
THEOREM IdtFirst == Spec => []IdtBeforeInterrupts
BY Invariance, PTL DEF Inv

(* HandlersKept for any machine: register_handler replaces no handler. *)
THEOREM KeptHandlers == Spec => HandlersKept
<1> DEFINE Kept == \A v \in Vectors : (idt # None /\ idt[v] # None) => idt'[v] = idt[v]
<1>1. Inv /\ [Next]_vars => [Kept]_vars
  BY NextInv
<1> QED BY <1>1, Invariance, PTL DEF Spec, HandlersKept

-----------------------------------------------------------------------------
(* The places between register_headers and the next function. *)
AtFunction == {"route", "register", "msix", "lock", "drivers"}

(* PCI_TABLE: its headers are those of the functions taken so far, and it  *)
(* stays locked only in the loop over the drivers and where that loop ends *)
(* the walk.                                                               *)
TableOK ==
  /\ dev \in Nat /\ step \in Nat
  /\ table \in [headers : Seq({scan[k] : k \in Nat}), drivers : Seq({"ahci", "xhci"})]
  /\ Len(table.headers) = dev
  /\ held \in BOOLEAN
  /\ held => pc \in {"drivers", "panic", "ports"}
  /\ pc \in {"init", "scan"} => dev = 0 /\ table.headers = <<>>
  /\ pc \in AtFunction => dev > 0 /\ table.headers[dev] = scan[dev]
  /\ xhci # None => hw.bus[xhci].kind = "UsbController"

(* init never takes PCI_TABLE's lock while it holds it: no call of         *)
(* register_headers or register_device_driver, nor the loop over the       *)
(* drivers, waits for init itself.                                         *)
OwnLockFree == pc \in {"function", "register", "msix", "lock"} => ~held

(* xhci_init finds a header: that of the function it is called for has     *)
(* been registered, so its search through PCI_TABLE never ends in a panic; *)
(* and the header it makes the driver from is that of a USB controller.    *)
HeaderFound ==
  /\ pc = "msix" => \E k \in DOMAIN table.headers : hw.bus[table.headers[k]] = Function
  /\ xhci # None => hw.bus[xhci].kind = "UsbController"

LEMMA InitTable == Init => TableOK
<1> SUFFICES ASSUME Init PROVE TableOK
  OBVIOUS
<1>1. table \in [headers : Seq({scan[k] : k \in Nat}), drivers : Seq({"ahci", "xhci"})]
  BY DEF Init
<1>2. held \in BOOLEAN
  BY Zenon DEF Init
<1> QED BY <1>1, <1>2 DEF Init, TableOK, AtFunction

(* register_device_driver appends a driver. *)
LEMMA RegisterTable ==
  ASSUME NEW H, table \in [headers : H, drivers : Seq({"ahci", "xhci"})],
         NEW driver \in {"ahci", "xhci"}, RegisterDeviceDriver(driver)
  PROVE  /\ table' \in [headers : H, drivers : Seq({"ahci", "xhci"})]
         /\ table'.headers = table.headers
         /\ ~held
BY SMTT(30) DEF RegisterDeviceDriver

(* Every step keeps TableOK, one step per action. *)
LEMMA NextTable == TableOK /\ [Next]_vars => TableOK'
<1> SUFFICES ASSUME TableOK, [Next]_vars PROVE TableOK'
  OBVIOUS
<1> USE DEF TableOK, AtFunction, tabled, vectored
<1>1. CASE InitAml
  BY <1>1 DEF InitAml
<1>2. CASE McfgBruteForce
  <2> DEFINE H == {scan'[k] : k \in Nat}
  <2>1. table.headers = <<>> /\ table' = table
    BY <1>2, Zenon DEF McfgBruteForce
  <2> HIDE DEF H
  <2>2. table' \in [headers : Seq(H), drivers : Seq({"ahci", "xhci"})]
    BY <2>1
  <2> QED BY <1>2, <2>1, <2>2, Zenon DEF McfgBruteForce, H
<1>3. CASE RegisterHeaders
  <2> DEFINE H == {scan[k] : k \in Nat}
  <2>1. scan[dev + 1] \in H
    OBVIOUS
  <2>2. table \in [headers : Seq(H), drivers : Seq({"ahci", "xhci"})]
    OBVIOUS
  <2> HIDE DEF H, TableOK
  <2>3. Append(table.headers, scan[dev + 1]) \in Seq(H)
    BY <2>1, <2>2
  <2>4. table' = [headers |-> Append(table.headers, scan[dev + 1]), drivers |-> table.drivers]
    BY <1>3, <2>2, Zenon DEF RegisterHeaders
  <2>5. /\ table'.headers = Append(table.headers, scan[dev + 1])
        /\ table' \in [headers : Seq(H), drivers : Seq({"ahci", "xhci"})]
    BY <2>2, <2>3, <2>4
  <2>6. Len(table'.headers) = dev + 1 /\ table'.headers[dev + 1] = scan[dev + 1]
    BY <2>5 DEF TableOK, H
  <2> QED BY <1>3, <2>5, <2>6, SMTT(30) DEF RegisterHeaders, H, TableOK
<1>4. CASE InitDone
  BY <1>4 DEF InitDone
<1>5. CASE AmlRoute
  BY <1>5 DEF AmlRoute
<1>6. CASE AmlRouteNothing
  BY <1>6 DEF AmlRouteNothing
<1>7. CASE AhciInit
  <2>1. CASE Function.kind = "SataController"
    <3>1. RegisterDeviceDriver("ahci")
      BY <1>7, <2>1 DEF AhciInit
    <3> QED BY <1>7, <3>1, RegisterTable DEF AhciInit
  <2>2. CASE Function.kind # "SataController"
    BY <1>7, <2>2 DEF AhciInit
  <2> QED BY <2>1, <2>2
<1>8. CASE RouteMsix
  BY <1>8 DEF RouteMsix
<1>9. CASE XhciInit
  <2> DEFINE usb == {k \in DOMAIN table.headers : hw.bus[table.headers[k]].kind = "UsbController"}
  <2>1. CASE Function.kind = "UsbController" /\ usb # {}
    <3>1. RegisterDeviceDriver("xhci") /\ xhci' = table.headers[Min(usb)] /\ pc' = "lock"
      BY <1>9, <2>1 DEF XhciInit
    <3>2. hw.bus[xhci'].kind = "UsbController"
      <4>1. usb \in SUBSET Nat
        OBVIOUS
      <4>2. Min(usb) \in usb
        BY <2>1, <4>1, MinElement, Zenon
      <4> QED BY <3>1, <4>2, Zenon
    <3>3. /\ table' \in [headers : Seq({scan[k] : k \in Nat}), drivers : Seq({"ahci", "xhci"})]
          /\ table'.headers = table.headers /\ ~held
      BY <3>1, RegisterTable, Zenon
    <3> QED BY <1>9, <3>1, <3>2, <3>3, Zenon DEF XhciInit
  <2>2. CASE Function.kind # "UsbController" \/ usb = {}
    BY <1>9, <2>2 DEF XhciInit
  <2> QED BY <2>1, <2>2
<1>10. CASE LockTable
  BY <1>10 DEF LockTable
<1>11. CASE TryDriver
  BY <1>11 DEF TryDriver, AfterStart
<1>12. CASE UnlockTable
  BY <1>12, Zenon DEF UnlockTable
<1>13. CASE Stopped \/ UNCHANGED vars
  BY <1>13, SMTT(30) DEF Stopped, vars
<1> QED BY <1>1, <1>2, <1>3, <1>4, <1>5, <1>6, <1>7, <1>8, <1>9, <1>10, <1>11, <1>12, <1>13, Zenon
        DEF Next, BootStep

(* The invariant of PCI_TABLE. *)
THEOREM TableInvariance == Spec => []TableOK
BY InitTable, NextTable, PTL DEF Spec

(* OwnLockFree for any machine: the safety half of BootEnds. *)
THEOREM NeverWaitsForItself == Spec => []OwnLockFree
<1>1. TableOK => OwnLockFree
  BY DEF TableOK, OwnLockFree
<1> QED BY <1>1, TableInvariance, PTL

(* HeaderFound for any machine. *)
THEOREM FoundHeader == Spec => []HeaderFound
<1>1. TableOK => HeaderFound
  BY DEF TableOK, AtFunction, HeaderFound, Function
<1> QED BY <1>1, TableInvariance, PTL
=============================================================================
