----------------------------- MODULE MCPciInit ------------------------------
(* Instances of PciInit for TLC: a vector space of 12 with 4 exceptions,   *)
(* two IRQ lines, and machines with up to three functions.                 *)
EXTENDS PciInit

MCEarlyHandlers == [v \in {0, 11} |-> IF v = 0 THEN "sigfpe" ELSE "spurious"]
MCLateHandlers == [v \in {6} |-> "task_sched"]

Routes == {None, <<0, 1, 1, None>>, <<1, None, 0, 1>>}

Fn(kind, normal, msix, bar, ports, prt) ==
  [kind |-> kind, normal |-> normal, msix |-> msix, bar |-> bar, ports |-> ports, prt |-> prt]

Functions ==
  {Fn("SataController", n, m, TRUE, FALSE, r) : n \in BOOLEAN, m \in {None, 2}, r \in Routes}
    \cup {Fn("UsbController", n, m, n, p, r) :
            n \in BOOLEAN, m \in {None, 0, 2}, p \in BOOLEAN, r \in Routes}
    \cup {Fn("Other", TRUE, m, b, FALSE, None) : m \in {1, 5}, b \in BOOLEAN}
    \cup {Fn("Unknown", TRUE, None, FALSE, FALSE, None)}

Buses == UNION {[1 .. n -> Functions] : n \in 0 .. 2}
           \cup {b \in [1 .. 3 -> Functions] :
                   /\ b[1].kind = "UsbController" /\ b[2].kind = "Other" /\ b[3].kind = "SataController"
                   /\ b[1].prt # None /\ b[3].msix = 2}

Machine(mcfg, apic, aml, bus) == [mcfg |-> mcfg, apic |-> apic, aml |-> aml, bus |-> bus]

MCMachines ==
  {Machine(TRUE, TRUE, "ok", b) : b \in Buses}
    \cup {Machine(m, a, l, b) : m \in BOOLEAN, a \in BOOLEAN, l \in {"missing", "bad", "ok"},
                                b \in [1 .. 1 -> Functions]}
=============================================================================
