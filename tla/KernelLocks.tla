----------------------------- MODULE KernelLocks ----------------------------
(***************************************************************************)
(* The kernel's locks on the boot CPU, where a thread is interrupted by    *)
(* handlers: IrqGuard and Mutex (drivers/ahci/util/sync.rs), IrqLock and   *)
(* Printk (common/mod.rs) and the handlers that log                        *)
(* (arch/x86_64/interrupts.rs).  Guards are dropped when they fall out of  *)
(* scope, that is in the reverse order of their making.                    *)
(***************************************************************************)
EXTENDS Naturals, Sequences, Option

CONSTANTS
  SharedMutexes,   \* mutexes that handlers use too; all take them with lock_irq
  ThreadMutexes,   \* mutexes of the thread alone, which takes them with lock
  Printk,          \* the IrqLock of PRINTK
  MaxDepth,        \* bound on nested guards of one context
  MaxWork          \* bound on the guards one run of a handler makes

Mutexes == SharedMutexes \cup ThreadMutexes
Locks == Mutexes \cup {Printk}
Contexts == {"thread", "handler"}

ASSUME KernelLocksConstants ==
  /\ SharedMutexes \cap ThreadMutexes = {} /\ Printk \notin Mutexes /\ None \notin Locks \cup Contexts
  /\ MaxDepth \in Nat /\ MaxWork \in Nat

VARIABLES
  enabled,   \* RFLAGS.IF
  handling,  \* a handler runs
  work,      \* guards the handler is still to make
  owner,     \* lock -> the context that holds it, or None
  op,        \* what a context is in the middle of, see Idle, Want and Dropping
  guards,    \* context -> its guards, the newest last
  halted     \* the CPU is in hlt with interrupts disabled

vars == <<enabled, handling, work, owner, op, guards, halted>>

(* A guard: its lock, whether making it disabled interrupts (off), and     *)
(* whether dropping it enables them (irq: fields locked and irq_lock).     *)
Guard(lock, off, irq) == [lock |-> lock, off |-> off, irq |-> irq]

Idle == [at |-> "idle", guard |-> Guard(None, FALSE, FALSE)]
Want(guard) == [at |-> "want", guard |-> guard]          \* in inner.lock() or write()
Dropping(guard) == [at |-> "dropping", guard |-> guard]  \* unlocked, interrupts as they were

Init ==
  /\ enabled = TRUE /\ handling = FALSE /\ work = 0 /\ halted = FALSE
  /\ owner = [l \in Locks |-> None]
  /\ op = [c \in Contexts |-> Idle] /\ guards = [c \in Contexts |-> <<>>]

-----------------------------------------------------------------------------
Running(c) == ~halted /\ (c = "handler") = handling
Ready(c) == Running(c) /\ op[c].at = "idle"

Holds(c, l) == \E i \in DOMAIN guards[c] : guards[c][i].lock = l

(* A context makes a guard for a lock it does not hold; log makes none. *)
MayMake(c, l) ==
  /\ Ready(c) /\ Len(guards[c]) < MaxDepth
  /\ ~Holds(c, Printk) /\ (l # None => ~Holds(c, l))
  /\ IF c = "handler" THEN work > 0 /\ work' = work - 1 ELSE UNCHANGED work

(* IrqGuard::new; without_interrupts, around map_page!, does the same. *)
IrqGuardNew(c) ==
  /\ MayMake(c, None)
  /\ guards' = [guards EXCEPT ![c] = Append(@, Guard(None, TRUE, enabled))]
  /\ enabled' = FALSE
  /\ UNCHANGED <<handling, owner, op, halted>>

(* Mutex::lock, up to inner.lock(). *)
Lock(c, m) ==
  /\ m \in ThreadMutexes /\ c = "thread" /\ MayMake(c, m)
  /\ op' = [op EXCEPT ![c] = Want(Guard(m, FALSE, FALSE))]
  /\ UNCHANGED <<enabled, handling, owner, guards, halted>>

(* Mutex::lock_irq, up to inner.lock(). *)
LockIrq(c, m) ==
  /\ m \in SharedMutexes /\ MayMake(c, m)
  /\ op' = [op EXCEPT ![c] = Want(Guard(m, TRUE, enabled))]
  /\ enabled' = FALSE
  /\ UNCHANGED <<handling, owner, guards, halted>>

(* Printk::log, up to write(). *)
Log(c) ==
  /\ MayMake(c, Printk)
  /\ op' = [op EXCEPT ![c] = Want(Guard(Printk, FALSE, FALSE))]
  /\ UNCHANGED <<enabled, handling, owner, guards, halted>>

(* The lock is free. *)
Acquire(c) ==
  /\ Running(c) /\ op[c].at = "want"
  /\ LET g == op[c].guard
     IN /\ owner[g.lock] = None
        /\ owner' = [owner EXCEPT ![g.lock] = c]
        /\ guards' = [guards EXCEPT ![c] = Append(@, g)]
  /\ op' = [op EXCEPT ![c] = Idle]
  /\ UNCHANGED <<enabled, handling, work, halted>>

(* The lock is taken: a mutex spins, IrqRelaxStrategy::relax halts the CPU *)
(* with interrupts disabled, and nothing is left to wake it.               *)
Relax(c) ==
  /\ Running(c) /\ op[c].at = "want" /\ owner[op[c].guard.lock] # None
  /\ halted' = (op[c].guard.lock = Printk)
  /\ UNCHANGED <<enabled, handling, work, owner, op, guards>>

Newest(c) == guards[c][Len(guards[c])]
Pop(c) == guards' = [guards EXCEPT ![c] = SubSeq(@, 1, Len(@) - 1)]

DropForgetsMutex(c) ==
  /\ Ready(c) /\ guards[c] # <<>>
  /\ op' = [op EXCEPT ![c] = Dropping(Newest(c))]
  /\ owner' = IF Newest(c).lock = Printk THEN [owner EXCEPT ![Printk] = None] ELSE owner
  /\ Pop(c)
  /\ UNCHANGED <<enabled, handling, work, halted>>

DropForgetsPrintk(c) ==
  /\ Ready(c) /\ guards[c] # <<>>
  /\ op' = [op EXCEPT ![c] = Dropping(Newest(c))]
  /\ owner' = IF Newest(c).lock \in Mutexes THEN [owner EXCEPT ![Newest(c).lock] = None] ELSE owner
  /\ Pop(c)
  /\ UNCHANGED <<enabled, handling, work, halted>>

(* Drop of a guard: the lock first. *)
Drop(c) ==
  /\ Ready(c) /\ guards[c] # <<>>
  /\ op' = [op EXCEPT ![c] = Dropping(Newest(c))]
  /\ owner' = IF Newest(c).lock = None THEN owner ELSE [owner EXCEPT ![Newest(c).lock] = None]
  /\ Pop(c)
  /\ UNCHANGED <<enabled, handling, work, halted>>

DropEnableAlways(c) ==
  /\ Running(c) /\ op[c].at = "dropping"
  /\ enabled' = (enabled \/ op[c].guard.off)
  /\ op' = [op EXCEPT ![c] = Idle]
  /\ UNCHANGED <<handling, work, owner, guards, halted>>

(* Drop of a guard: then interrupts, if making it disabled them. *)
DropEnable(c) ==
  /\ Running(c) /\ op[c].at = "dropping"
  /\ enabled' = (enabled \/ op[c].guard.irq)
  /\ op' = [op EXCEPT ![c] = Idle]
  /\ UNCHANGED <<handling, work, owner, guards, halted>>

-----------------------------------------------------------------------------
(* An interrupt: the CPU runs the handler with interrupts disabled. *)
Interrupt ==
  /\ ~halted /\ enabled /\ ~handling
  /\ handling' = TRUE /\ enabled' = FALSE
  /\ work' \in 0 .. MaxWork
  /\ UNCHANGED <<owner, op, guards, halted>>

(* The end of a handler; iretq restores RFLAGS. *)
Iret ==
  /\ Ready("handler") /\ work = 0 /\ guards["handler"] = <<>>
  /\ handling' = FALSE /\ enabled' = TRUE
  /\ UNCHANGED <<work, owner, op, guards, halted>>

Stopped == halted /\ UNCHANGED vars

Step(c) ==
  \/ IrqGuardNew(c) \/ Log(c) \/ \E m \in Mutexes : Lock(c, m) \/ LockIrq(c, m)
  \/ Acquire(c) \/ Relax(c) \/ Drop(c) \/ DropEnable(c)

Next == Interrupt \/ Iret \/ Stopped \/ \E c \in Contexts : Step(c)

(* The CPU goes on executing the handler. *)
Spec == Init /\ [][Next]_vars /\ WF_vars(Iret \/ Step("handler"))

-----------------------------------------------------------------------------
(* lock_irq "disables interrupts while the lock is held", IrqGuard does so *)
(* until it is dropped, and "when dropped, interrupts are enabled again",  *)
(* however guards are nested: interrupts are off while a guard says so,    *)
(* and back in a thread without such a guard.                              *)
InterruptsMatchGuards ==
  /\ \A c \in Contexts : (\E i \in DOMAIN guards[c] : guards[c][i].off) => ~enabled
  /\ (/\ ~handling /\ op["thread"] = Idle
      /\ \A i \in DOMAIN guards["thread"] : ~guards["thread"][i].off) => enabled

(* A handler never finds a mutex taken: drop of a MutexGuard frees the     *)
(* mutex before it enables interrupts.                                     *)
HandlerFindsMutexFree ==
  (handling /\ op["handler"].at = "want" /\ op["handler"].guard.lock # Printk)
     => owner[op["handler"].guard.lock] = None

(* A handler returns, unless it interrupted a thread that holds PRINTK.    *)
HandlerReturns == (handling /\ owner[Printk] # "thread") ~> ~handling

=============================================================================
