------------------------- MODULE KernelLocksProofs --------------------------
(* Proofs about KernelLocks: any sets of mutexes, guards nested to any     *)
(* depth and handlers of any length.                                       *)
EXTENDS KernelLocks, Integers, TLAPS

Guards == [lock : Locks \cup {None}, off : BOOLEAN, irq : BOOLEAN]
Ops == [at : {"idle", "want", "dropping"}, guard : Guards]

(* Types of the variables. *)
TypeOK ==
  /\ enabled \in BOOLEAN /\ handling \in BOOLEAN /\ halted \in BOOLEAN
  /\ work \in Nat
  /\ owner \in [Locks -> Contexts \cup {None}]
  /\ op \in [Contexts -> Ops]
  /\ guards \in [Contexts -> Seq(Guards)]
  /\ \A c \in Contexts : op[c].at = "idle" => op[c] = Idle
  /\ \A c \in Contexts : op[c].at = "want" => op[c].guard.lock \in Locks

(* What is said of a sequence of guards s.  Some guard, or one of the      *)
(* first n, disabled interrupts.                                           *)
OffIn(s, n) == \E i \in 1 .. n : s[i].off
Off(s) == OffIn(s, Len(s))

(* The first guard that disabled interrupts is the one that enables them. *)
FirstEnables(s) == \A i \in 1 .. Len(s) : s[i].irq <=> (s[i].off /\ ~OffIn(s, i - 1))

(* None enables interrupts. *)
Quiet(s) == \A i \in 1 .. Len(s) : ~s[i].irq

(* Those of mutexes that handlers use disabled interrupts. *)
SharedOff(s) == \A i \in 1 .. Len(s) : s[i].lock \in SharedMutexes => s[i].off

(* One is of lock l; no two are of the same lock. *)
Has(s, l) == \E i \in 1 .. Len(s) : s[i].lock = l
Distinct(s) == \A i, j \in 1 .. Len(s) : (s[i].lock = s[j].lock /\ s[i].lock # None) => i = j

(* Interrupts are disabled by the guards of the thread, op included: the   *)
(* guard that is being made or dropped; or by a handler, which interrupts  *)
(* a thread that has no guard that disables them.                          *)
Disabled ==
  /\ FirstEnables(guards["thread"])
  /\ op["thread"].guard.irq <=> op["thread"].guard.off /\ ~Off(guards["thread"])
  /\ ~handling =>
       /\ enabled <=> ~Off(guards["thread"]) /\ ~op["thread"].guard.off
       /\ guards["handler"] = <<>> /\ op["handler"] = Idle
  /\ handling =>
       /\ ~enabled /\ ~Off(guards["thread"]) /\ ~op["thread"].guard.off
       /\ Quiet(guards["handler"]) /\ ~op["handler"].guard.irq

(* A guard of a mutex that handlers use disables interrupts; handlers take *)
(* no other mutex.                                                         *)
Shared ==
  /\ \A c \in Contexts : SharedOff(guards[c])
  /\ \A c \in Contexts : op[c].guard.lock \in SharedMutexes => op[c].guard.off
  /\ op["handler"].at = "want" => op["handler"].guard.lock \notin ThreadMutexes

(* The locks that are taken are those of the guards, one each. *)
Owned ==
  /\ \A l \in Locks : \A c \in Contexts : owner[l] = c <=> Has(guards[c], l)
  /\ \A c \in Contexts : Distinct(guards[c])
  /\ \A c \in Contexts : op[c].at = "want" => ~Has(guards[c], op[c].guard.lock)

Inv == TypeOK /\ Disabled /\ Shared /\ Owned

(* A lock is held by the thread or by the handler, never by both: the      *)
(* handler that interrupts the holder cannot take the lock.                *)
MutualExclusion == \A l \in Locks : ~(Holds("thread", l) /\ Holds("handler", l))

-----------------------------------------------------------------------------
USE KernelLocksConstants DEF Contexts, Locks, Mutexes

(* What SubSeq returns, and when two sequences are the same. *)
LEMMA SubSeqProperties ==
  ASSUME NEW S, NEW s, NEW m \in Int, NEW n \in Int, \A k \in m .. n : s[k] \in S
  PROVE  /\ SubSeq(s, m, n) \in Seq(S)
         /\ Len(SubSeq(s, m, n)) = IF m <= n THEN n - m + 1 ELSE 0
         /\ \A k \in 1 .. (n - m + 1) : SubSeq(s, m, n)[k] = s[m + k - 1]
OBVIOUS

LEMMA SeqEqual ==
  ASSUME NEW S, NEW s \in Seq(S), NEW t \in Seq(S), Len(s) = Len(t),
         \A k \in 1 .. Len(s) : s[k] = t[k]
  PROVE  s = t
OBVIOUS

(* A sequence of guards with one more. *)
LEMMA Appended ==
  ASSUME NEW s \in Seq(Guards), NEW e \in Guards
  PROVE  LET t == Append(s, e)
         IN /\ t \in Seq(Guards) /\ t # <<>>
            /\ Off(t) <=> Off(s) \/ e.off
            /\ FirstEnables(t) <=> FirstEnables(s) /\ (e.irq <=> (e.off /\ ~Off(s)))
            /\ Quiet(t) <=> Quiet(s) /\ ~e.irq
            /\ SharedOff(t) <=> SharedOff(s) /\ (e.lock \in SharedMutexes => e.off)
            /\ \A l : Has(t, l) <=> Has(s, l) \/ e.lock = l
            /\ Distinct(t) <=> Distinct(s) /\ (e.lock # None => ~Has(s, e.lock))
<1> DEFINE t == Append(s, e)
           n == Len(s)
<1>1. /\ t \in Seq(Guards) /\ t # <<>> /\ n \in Nat /\ Len(t) = n + 1
      /\ \A i \in 1 .. n : t[i] = s[i]
      /\ t[n + 1] = e
  OBVIOUS
<1> HIDE DEF t
<1>2. \A k \in 0 .. n : OffIn(t, k) <=> OffIn(s, k)
  BY <1>1 DEF OffIn
<1>3. Off(t) <=> Off(s) \/ e.off
  BY <1>1 DEF Off, OffIn
<1>4. FirstEnables(t) <=> FirstEnables(s) /\ (e.irq <=> (e.off /\ ~Off(s)))
  <2>1. FirstEnables(t) <=> /\ \A i \in 1 .. n : t[i].irq <=> (t[i].off /\ ~OffIn(t, i - 1))
                            /\ t[n + 1].irq <=> (t[n + 1].off /\ ~OffIn(t, n))
    BY <1>1 DEF FirstEnables
  <2> QED BY <1>1, <1>2, <2>1 DEF FirstEnables, Off
<1>5. Quiet(t) <=> Quiet(s) /\ ~e.irq
  BY <1>1 DEF Quiet
<1>6. SharedOff(t) <=> SharedOff(s) /\ (e.lock \in SharedMutexes => e.off)
  BY <1>1 DEF SharedOff
<1>7. \A l : Has(t, l) <=> Has(s, l) \/ e.lock = l
  BY <1>1 DEF Has
<1>8. Distinct(t) <=> Distinct(s) /\ (e.lock # None => ~Has(s, e.lock))
  <2>1. Distinct(t) => Distinct(s)
    BY <1>1 DEF Distinct
  <2>2. Distinct(t) => (e.lock # None => ~Has(s, e.lock))
    BY <1>1 DEF Distinct, Has
  <2>3. Distinct(s) /\ (e.lock # None => ~Has(s, e.lock)) => Distinct(t)
    <3> SUFFICES ASSUME Distinct(s), e.lock # None => ~Has(s, e.lock),
                        NEW i \in 1 .. (n + 1), NEW j \in 1 .. (n + 1),
                        t[i].lock = t[j].lock, t[i].lock # None
                 PROVE  i = j
      BY <1>1 DEF Distinct
    <3>1. (i \in 1 .. n \/ i = n + 1) /\ (j \in 1 .. n \/ j = n + 1)
      BY <1>1
    <3> QED BY <1>1, <3>1, Zenon DEF Distinct, Has
  <2> QED BY <2>1, <2>2, <2>3
<1> QED BY <1>1, <1>3, <1>4, <1>5, <1>6, <1>7, <1>8 DEF t

(* A sequence that is not empty is its front and its last guard. *)
LEMMA Popped ==
  ASSUME NEW s \in Seq(Guards), s # <<>>
  PROVE  LET t == SubSeq(s, 1, Len(s) - 1)
         IN t \in Seq(Guards) /\ s[Len(s)] \in Guards /\ s = Append(t, s[Len(s)])
<1> DEFINE t == SubSeq(s, 1, Len(s) - 1)
<1>1. Len(s) \in Nat /\ Len(s) > 0 /\ \A i \in 1 .. Len(s) : s[i] \in Guards
  OBVIOUS
<1>2. t \in Seq(Guards) /\ Len(t) = Len(s) - 1 /\ \A i \in 1 .. (Len(s) - 1) : t[i] = s[i]
  <2> DEFINE n == Len(s) - 1
  <2>1. n \in Int /\ 1 \in Int /\ n - 1 + 1 = n /\ n >= 0 /\ \A i \in 1 .. n : s[i] \in Guards
    BY <1>1
  <2> HIDE DEF n
  <2>2. /\ SubSeq(s, 1, n) \in Seq(Guards)
        /\ Len(SubSeq(s, 1, n)) = IF 1 <= n THEN n - 1 + 1 ELSE 0
        /\ \A i \in 1 .. n - 1 + 1 : SubSeq(s, 1, n)[i] = s[1 + i - 1]
    BY <2>1, SubSeqProperties
  <2>3. Len(SubSeq(s, 1, n)) = n /\ \A i \in 1 .. n : SubSeq(s, 1, n)[i] = s[i]
    BY <2>1, <2>2
  <2> QED BY <2>2, <2>3 DEF n
<1> HIDE DEF t
<1>3. Append(t, s[Len(s)]) \in Seq(Guards) /\ Len(Append(t, s[Len(s)])) = Len(s)
  BY <1>1, <1>2
<1>4. \A i \in 1 .. Len(s) : Append(t, s[Len(s)])[i] = s[i]
  BY <1>1, <1>2
<1>5. s = Append(t, s[Len(s)])
  <2> DEFINE u == Append(t, s[Len(s)])
  <2>1. u \in Seq(Guards) /\ Len(s) = Len(u) /\ \A i \in 1 .. Len(s) : s[i] = u[i]
    BY <1>3, <1>4
  <2> HIDE DEF u
  <2>2. s = u
    BY <2>1, SeqEqual
  <2> QED BY <2>2 DEF u
<1> QED BY <1>1, <1>2, <1>5 DEF t

(* A context without guards. *)
LEMMA NoGuards ==
  /\ <<>> \in Seq(Guards) /\ ~Off(<<>>) /\ FirstEnables(<<>>) /\ Quiet(<<>>) /\ SharedOff(<<>>)
  /\ Distinct(<<>>) /\ \A l : ~Has(<<>>, l)
BY DEF Off, OffIn, FirstEnables, Quiet, SharedOff, Distinct, Has

(* Guards are records of their three fields. *)
LEMMA GuardFields ==
  ASSUME NEW lock \in Locks \cup {None}, NEW off \in BOOLEAN, NEW irq \in BOOLEAN
  PROVE  /\ Guard(lock, off, irq) \in Guards
         /\ Guard(lock, off, irq).lock = lock
         /\ Guard(lock, off, irq).off = off
         /\ Guard(lock, off, irq).irq = irq
BY DEF Guard, Guards

(* No operation is under way. *)
LEMMA IdleFields ==
  /\ Idle \in Ops /\ Idle.at = "idle"
  /\ Idle.guard.lock = None /\ ~Idle.guard.off /\ ~Idle.guard.irq
BY GuardFields, Zenon DEF Idle, Ops

(* No lock is taken at first. *)
LEMMA InitInv == Init => Inv
<1> SUFFICES ASSUME Init PROVE Inv
  OBVIOUS
<1>1. \A c \in Contexts : guards[c] = <<>> /\ op[c] = Idle
  BY DEF Init
<1>2. TypeOK
  <2>1. enabled \in BOOLEAN /\ handling \in BOOLEAN /\ halted \in BOOLEAN
    BY Zenon DEF Init
  <2>2. owner \in [Locks -> Contexts \cup {None}]
    BY DEF Init
  <2>3. op \in [Contexts -> Ops] /\ guards \in [Contexts -> Seq(Guards)]
    BY IdleFields DEF Init
  <2> QED BY <1>1, <2>1, <2>2, <2>3, IdleFields DEF Init, TypeOK
<1>3. Disabled
  BY <1>1, NoGuards, IdleFields DEF Init, Disabled
<1>4. Shared
  BY <1>1, NoGuards, IdleFields DEF Shared
<1>5. Owned
  BY <1>1, NoGuards, IdleFields DEF Init, Owned
<1> QED BY <1>2, <1>3, <1>4, <1>5 DEF Inv

-----------------------------------------------------------------------------
(* A context that may make a guard is running, idle, and does not hold the *)
(* lock; its work stays a number.                                          *)
LEMMA Making ==
  ASSUME Inv, NEW c \in Contexts, NEW l, MayMake(c, l)
  PROVE  /\ op[c] = Idle /\ (c = "handler" <=> handling)
         /\ work' \in Nat
         /\ l # None => ~Has(guards[c], l)
<1>1. guards[c] \in Seq(Guards)
  BY DEF Inv, TypeOK
<1>2. DOMAIN guards[c] = 1 .. Len(guards[c])
  BY <1>1
<1>3. op[c] = Idle /\ (c = "handler" <=> handling)
  BY Zenon DEF MayMake, Ready, Running, Inv, TypeOK
<1>4. work' \in Nat
  <2>1. work \in Nat
    BY Zenon DEF Inv, TypeOK
  <2>2. (work > 0 /\ work' = work - 1) \/ work' = work
    BY Zenon DEF MayMake
  <2> QED BY <2>1, <2>2
<1>5. l # None => ~Has(guards[c], l)
  BY <1>2, Zenon DEF MayMake, Holds, Has
<1> QED BY <1>3, <1>4, <1>5

(* IrqGuard::new appends a guard. *)
LEMMA IrqGuardNewInv ==
  ASSUME Inv, NEW c \in Contexts, IrqGuardNew(c)
  PROVE  Inv'
<1> DEFINE g == Guard(None, TRUE, enabled)
           s == guards[c]
<1>1. g \in Guards /\ g.lock = None /\ g.off /\ (g.irq <=> enabled)
  <2>1. None \in Locks \cup {None} /\ TRUE \in BOOLEAN /\ enabled \in BOOLEAN
    BY Zenon DEF Inv, TypeOK
  <2>2. g \in Guards /\ g.lock = None /\ g.off = TRUE /\ g.irq = enabled
    BY <2>1, GuardFields, Zenon
  <2> QED BY <2>2, Zenon
<1>2. /\ op[c] = Idle /\ (c = "handler" <=> handling) /\ work' \in Nat
      /\ enabled' = FALSE /\ UNCHANGED <<handling, owner, op, halted>>
      /\ guards' = [guards EXCEPT ![c] = Append(s, g)]
      /\ s \in Seq(Guards)
  BY Making DEF IrqGuardNew, Inv, TypeOK
<1> HIDE DEF g
<1>3. /\ guards'[c] = Append(s, g)
      /\ \A d \in Contexts \ {c} : guards'[d] = guards[d]
      /\ guards' \in [Contexts -> Seq(Guards)]
  BY <1>1, <1>2, Appended DEF Inv, TypeOK
<1>4. TypeOK'
  BY <1>2, <1>3, Zenon DEF Inv, TypeOK
<1>5. Disabled'
  <2>1. Off(guards'[c]) /\ (FirstEnables(s) /\ (g.irq <=> ~Off(s)) => FirstEnables(guards'[c]))
    BY <1>1, <1>2, <1>3, Appended
  <2>2. Quiet(s) /\ ~g.irq => Quiet(guards'[c])
    BY <1>1, <1>2, <1>3, Appended
  <2> QED BY <1>1, <1>2, <1>3, <2>1, <2>2, IdleFields DEF Inv, Disabled
<1>6. Shared'
  <2>1. SharedOff(guards'[c]) <=> SharedOff(s)
    BY <1>1, <1>2, <1>3, Appended
  <2> QED BY <1>2, <1>3, <2>1 DEF Inv, Shared
<1>7. Owned'
  <2>1. (\A l \in Locks : Has(guards'[c], l) <=> Has(s, l)) /\ (Distinct(guards'[c]) <=> Distinct(s))
    BY <1>1, <1>2, <1>3, Appended
  <2> QED BY <1>2, <1>3, <2>1 DEF Inv, Owned, TypeOK
<1> QED BY <1>4, <1>5, <1>6, <1>7 DEF Inv

(* Mutex::lock, lock_irq and Printk::log: a guard is being made. *)
LEMMA WantInv ==
  ASSUME Inv, NEW c \in Contexts, NEW l \in Locks, NEW off \in BOOLEAN,
         MayMake(c, l),
         l \in SharedMutexes => off,
         c = "handler" => l \notin ThreadMutexes,
         op' = [op EXCEPT ![c] = Want(Guard(l, off, off /\ enabled))],
         enabled' = (enabled /\ ~off),
         UNCHANGED <<handling, owner, guards, halted>>
  PROVE  Inv'
<1> DEFINE g == Guard(l, off, off /\ enabled)
<1>1. /\ g \in Guards /\ g.lock = l /\ g.off = off /\ g.irq = (off /\ enabled)
  BY GuardFields DEF Inv, TypeOK
<1>2. /\ op[c] = Idle /\ (c = "handler" <=> handling) /\ work' \in Nat
      /\ ~Has(guards[c], l)
  BY Making
<1> HIDE DEF g
<1>3. Want(g) \in Ops /\ Want(g).at = "want" /\ Want(g).guard = g
  BY <1>1 DEF Want, Ops
<1>4. /\ op' \in [Contexts -> Ops] /\ op'[c] = Want(g)
      /\ \A d \in Contexts \ {c} : op'[d] = op[d]
  BY <1>3 DEF Inv, TypeOK, g
<1>5. TypeOK'
  <2>1. enabled' \in BOOLEAN
    BY Zenon DEF Inv, TypeOK
  <2> QED BY <1>1, <1>2, <1>3, <1>4, <2>1 DEF Inv, TypeOK
<1>6. Disabled'
  BY <1>1, <1>2, <1>3, <1>4, IdleFields DEF Inv, TypeOK, Disabled
<1>7. Shared'
  BY <1>1, <1>3, <1>4 DEF Inv, Shared
<1>8. Owned'
  BY <1>1, <1>2, <1>3, <1>4 DEF Inv, Owned
<1> QED BY <1>5, <1>6, <1>7, <1>8 DEF Inv

(* The lock is free and the guard is made. *)
LEMMA AcquireInv ==
  ASSUME Inv, NEW c \in Contexts, Acquire(c)
  PROVE  Inv'
<1> DEFINE g == op[c].guard
           s == guards[c]
<1>1. /\ g \in Guards /\ g.lock \in Locks /\ owner[g.lock] = None
      /\ s \in Seq(Guards) /\ (c = "handler" <=> handling) /\ op[c].at = "want"
  BY DEF Inv, TypeOK, Ops, Acquire, Running
<1>2. /\ guards' = [guards EXCEPT ![c] = Append(s, g)]
      /\ owner' = [owner EXCEPT ![g.lock] = c]
      /\ op' = [op EXCEPT ![c] = Idle]
      /\ UNCHANGED <<enabled, handling, work, halted>>
  BY DEF Acquire
<1>3. /\ guards'[c] = Append(s, g)
      /\ \A d \in Contexts \ {c} : guards'[d] = guards[d]
      /\ guards' \in [Contexts -> Seq(Guards)]
  BY <1>1, <1>2, Appended DEF Inv, TypeOK
<1>4. op' \in [Contexts -> Ops] /\ op'[c] = Idle /\ \A d \in Contexts \ {c} : op'[d] = op[d]
  BY <1>2, IdleFields DEF Inv, TypeOK
<1>5. TypeOK'
  <2>1. owner' \in [Locks -> Contexts \cup {None}]
    BY <1>1, <1>2 DEF Inv, TypeOK
  <2> QED BY <1>2, <1>3, <1>4, <2>1, IdleFields DEF Inv, TypeOK
<1>6. Disabled'
  <2>1. /\ Off(guards'[c]) <=> Off(s) \/ g.off
        /\ FirstEnables(guards'[c]) <=> FirstEnables(s) /\ (g.irq <=> (g.off /\ ~Off(s)))
        /\ Quiet(guards'[c]) <=> Quiet(s) /\ ~g.irq
    BY <1>1, <1>3, Appended
  <2> QED BY <1>1, <1>2, <1>3, <1>4, <2>1, IdleFields DEF Inv, Disabled
<1>7. Shared'
  <2>1. SharedOff(guards'[c]) <=> SharedOff(s) /\ (g.lock \in SharedMutexes => g.off)
    BY <1>1, <1>3, Appended
  <2> QED BY <1>3, <1>4, <2>1, IdleFields, Zenon DEF Inv, Shared
<1>8. Owned'
  <2>1. /\ \A l : Has(guards'[c], l) <=> Has(s, l) \/ g.lock = l
        /\ Distinct(guards'[c]) <=> Distinct(s) /\ (g.lock # None => ~Has(s, g.lock))
    BY <1>1, <1>3, Appended
  <2>2. \A l \in Locks : owner'[l] = IF l = g.lock THEN c ELSE owner[l]
    BY <1>1, <1>2 DEF Inv, TypeOK
  <2> HIDE DEF g
  <2>3. \A d \in Contexts : ~Has(guards[d], g.lock)
    BY <1>1 DEF Inv, Owned
  <2>4. \A l \in Locks : \A d \in Contexts : owner'[l] = d <=> Has(guards'[d], l)
    <3> SUFFICES ASSUME NEW l \in Locks, NEW d \in Contexts
                 PROVE  owner'[l] = d <=> Has(guards'[d], l)
      OBVIOUS
    <3>1. owner[l] = d <=> Has(guards[d], l)
      BY Zenon DEF Inv, Owned
    <3>2. CASE d = c
      <4>1. Has(guards'[d], l) <=> Has(guards[d], l) \/ g.lock = l
        BY <2>1, <3>2, Zenon
      <4>2. owner'[l] = IF l = g.lock THEN d ELSE owner[l]
        BY <2>2, <3>2, Zenon
      <4> QED BY <3>1, <4>1, <4>2, Zenon
    <3>3. CASE d # c
      <4>1. guards'[d] = guards[d]
        BY <1>3, <3>3, Zenon
      <4>2. owner'[l] = IF l = g.lock THEN c ELSE owner[l]
        BY <2>2, Zenon
      <4>3. CASE l = g.lock
        <5>1. ~Has(guards[d], l)
          BY <2>3, <4>3, Zenon
        <5> QED BY <3>3, <4>1, <4>2, <4>3, <5>1, Zenon
      <4>4. CASE l # g.lock
        BY <3>1, <4>1, <4>2, <4>4, Zenon
      <4> QED BY <4>3, <4>4, Zenon
    <3> QED BY <3>2, <3>3, Zenon
  <2>5. \A d \in Contexts : Distinct(guards'[d])
    BY <1>3, <2>1, <2>3, Zenon DEF Inv, Owned
  <2>6. \A d \in Contexts : op'[d].at = "want" => ~Has(guards'[d], op'[d].guard.lock)
    BY <1>3, <1>4, IdleFields DEF Inv, Owned
  <2> QED BY <2>4, <2>5, <2>6 DEF Owned
<1> QED BY <1>5, <1>6, <1>7, <1>8 DEF Inv

(* Drop frees the lock of the newest guard. *)
LEMMA DropInv ==
  ASSUME Inv, NEW c \in Contexts, Drop(c)
  PROVE  Inv'
<1> DEFINE s == guards[c]
           t == SubSeq(s, 1, Len(s) - 1)
           g == s[Len(s)]
<1>1. s \in Seq(Guards) /\ s # <<>> /\ op[c] = Idle /\ (c = "handler" <=> handling)
  BY DEF Inv, TypeOK, Drop, Ready, Running
<1>2. t \in Seq(Guards) /\ g \in Guards /\ s = Append(t, g)
  BY <1>1, Popped
<1>3. /\ op' = [op EXCEPT ![c] = Dropping(g)]
      /\ owner' = IF g.lock = None THEN owner ELSE [owner EXCEPT ![g.lock] = None]
      /\ guards' = [guards EXCEPT ![c] = t]
      /\ UNCHANGED <<enabled, handling, work, halted>>
  BY DEF Drop, Newest, Pop
<1> HIDE DEF t, g
<1>4. Dropping(g) \in Ops /\ Dropping(g).at = "dropping" /\ Dropping(g).guard = g
  BY <1>2 DEF Dropping, Ops
<1>5. op' \in [Contexts -> Ops] /\ op'[c] = Dropping(g) /\ \A d \in Contexts \ {c} : op'[d] = op[d]
  BY <1>3, <1>4 DEF Inv, TypeOK
<1>6. /\ guards'[c] = t
      /\ \A d \in Contexts \ {c} : guards'[d] = guards[d]
      /\ guards' \in [Contexts -> Seq(Guards)]
  BY <1>2, <1>3 DEF Inv, TypeOK
<1>7. TypeOK'
  <2>1. owner' \in [Locks -> Contexts \cup {None}]
    BY <1>3, Zenon DEF Inv, TypeOK
  <2> QED BY <1>3, <1>4, <1>5, <1>6, <2>1 DEF Inv, TypeOK
<1>8. Disabled'
  <2>1. /\ Off(s) <=> Off(t) \/ g.off
        /\ FirstEnables(s) <=> FirstEnables(t) /\ (g.irq <=> (g.off /\ ~Off(t)))
        /\ Quiet(s) <=> Quiet(t) /\ ~g.irq
    BY <1>2, Appended
  <2> QED BY <1>1, <1>3, <1>4, <1>5, <1>6, <2>1, IdleFields DEF Inv, Disabled
<1>9. Shared'
  <2>1. SharedOff(s) <=> SharedOff(t) /\ (g.lock \in SharedMutexes => g.off)
    BY <1>2, Appended
  <2> QED BY <1>4, <1>5, <1>6, <2>1 DEF Inv, Shared
<1>10. Owned'
  <2>1. /\ \A l : Has(s, l) <=> Has(t, l) \/ g.lock = l
        /\ Distinct(s) <=> Distinct(t) /\ (g.lock # None => ~Has(t, g.lock))
    BY <1>2, Appended
  <2>2. \A l \in Locks : owner'[l] = IF l = g.lock THEN None ELSE owner[l]
    BY <1>3 DEF Inv, TypeOK
  <2>3. \A d \in Contexts \ {c} : g.lock \in Locks => ~Has(guards[d], g.lock)
    BY <2>1 DEF Inv, Owned
  <2>4. \A l \in Locks : \A d \in Contexts : owner'[l] = d <=> Has(guards'[d], l)
    BY <1>6, <2>1, <2>2, <2>3 DEF Inv, Owned
  <2>5. \A d \in Contexts : Distinct(guards'[d])
    BY <1>6, <2>1 DEF Inv, Owned
  <2>6. \A d \in Contexts : op'[d].at = "want" => ~Has(guards'[d], op'[d].guard.lock)
    BY <1>4, <1>5, <1>6 DEF Inv, Owned
  <2> QED BY <2>4, <2>5, <2>6 DEF Owned
<1> QED BY <1>7, <1>8, <1>9, <1>10 DEF Inv

(* Drop enables interrupts if the guard disabled them. *)
LEMMA DropEnableInv ==
  ASSUME Inv, NEW c \in Contexts, DropEnable(c)
  PROVE  Inv'
<1>1. /\ c = "handler" <=> handling
      /\ enabled' = (enabled \/ op[c].guard.irq)
      /\ op' = [op EXCEPT ![c] = Idle]
      /\ UNCHANGED <<handling, work, owner, guards, halted>>
  BY Zenon DEF DropEnable, Running
<1>2. op' \in [Contexts -> Ops] /\ op'[c] = Idle /\ \A d \in Contexts \ {c} : op'[d] = op[d]
  BY <1>1, IdleFields DEF Inv, TypeOK
<1>3. TypeOK'
  <2>1. op[c].guard.irq \in BOOLEAN
    BY DEF Inv, TypeOK, Ops, Guards
  <2>2. enabled' \in BOOLEAN
    BY <1>1, <2>1, Zenon DEF Inv, TypeOK
  <2> QED BY <1>1, <1>2, <2>2, IdleFields DEF Inv, TypeOK
<1>4. Disabled'
  BY <1>1, <1>2, IdleFields, Zenon DEF Inv, TypeOK, Disabled
<1>5. Shared' /\ Owned'
  BY <1>1, <1>2, IdleFields DEF Inv, Shared, Owned
<1> QED BY <1>3, <1>4, <1>5 DEF Inv

(* An interrupt, and the return from its handler. *)
LEMMA InterruptInv == Inv /\ (Interrupt \/ Iret) => Inv'
<1> SUFFICES ASSUME Inv, Interrupt \/ Iret PROVE Inv'
  OBVIOUS
<1>1. CASE Interrupt
  <2>1. TypeOK'
    <3>1. work' \in Nat
      BY <1>1 DEF Interrupt
    <3>2. enabled' \in BOOLEAN /\ handling' \in BOOLEAN /\ halted' \in BOOLEAN
      BY <1>1, Zenon DEF Interrupt, Inv, TypeOK
    <3> QED BY <1>1, <3>1, <3>2 DEF Interrupt, Inv, TypeOK
  <2>2. Disabled'
    BY <1>1, NoGuards, IdleFields DEF Interrupt, Inv, Disabled
  <2> QED BY <1>1, <2>1, <2>2 DEF Interrupt, Inv, Shared, Owned
<1>2. CASE Iret
  <2>1. op["handler"] = Idle
    BY <1>2 DEF Iret, Ready, Inv, TypeOK
  <2> QED BY <1>2, <2>1, NoGuards, IdleFields, Zenon DEF Iret, Ready, Running, Inv, TypeOK, Disabled, Shared, Owned
<1> QED BY <1>1, <1>2

(* Every step keeps the invariant. *)
LEMMA NextInv == Inv /\ [Next]_vars => Inv'
<1> SUFFICES ASSUME Inv, [Next]_vars PROVE Inv'
  OBVIOUS
<1>1. ASSUME NEW c \in Contexts, Step(c) PROVE Inv'
  <2>1. CASE IrqGuardNew(c)
    BY <2>1, IrqGuardNewInv
  <2>2. ASSUME NEW m \in Mutexes, Lock(c, m) PROVE Inv'
    <3>1. /\ m \in ThreadMutexes /\ c = "thread" /\ MayMake(c, m)
          /\ op' = [op EXCEPT ![c] = Want(Guard(m, FALSE, FALSE))]
          /\ UNCHANGED <<enabled, handling, owner, guards, halted>>
      BY <2>2 DEF Lock
    <3>2. m \notin SharedMutexes /\ (FALSE /\ enabled) = FALSE /\ enabled' = (enabled /\ ~FALSE)
      BY <3>1 DEF Inv, TypeOK
    <3> QED BY <3>1, <3>2, WantInv, Zenon
  <2>3. ASSUME NEW m \in Mutexes, LockIrq(c, m) PROVE Inv'
    <3>1. /\ m \in SharedMutexes /\ MayMake(c, m)
          /\ op' = [op EXCEPT ![c] = Want(Guard(m, TRUE, enabled))]
          /\ enabled' = FALSE
          /\ UNCHANGED <<handling, owner, guards, halted>>
      BY <2>3 DEF LockIrq
    <3>2. m \notin ThreadMutexes /\ (TRUE /\ enabled) = enabled /\ enabled' = (enabled /\ ~TRUE)
      BY <3>1, Zenon DEF Inv, TypeOK
    <3> QED BY <3>1, <3>2, WantInv, Zenon
  <2>4. CASE Log(c)
    <3>1. /\ MayMake(c, Printk)
          /\ op' = [op EXCEPT ![c] = Want(Guard(Printk, FALSE, FALSE))]
          /\ UNCHANGED <<enabled, handling, owner, guards, halted>>
      BY <2>4 DEF Log
    <3>2. Printk \notin Mutexes /\ (FALSE /\ enabled) = FALSE /\ enabled' = (enabled /\ ~FALSE)
      BY <3>1 DEF Inv, TypeOK
    <3> QED BY <3>1, <3>2, WantInv, Zenon
  <2>5. CASE Acquire(c)
    BY <2>5, AcquireInv
  <2>6. CASE Relax(c)
    <3>1. halted' \in BOOLEAN
      BY <2>6, Zenon DEF Relax
    <3> QED BY <2>6, <3>1 DEF Relax, Inv, TypeOK, Disabled, Shared, Owned
  <2>7. CASE Drop(c)
    BY <2>7, DropInv
  <2>8. CASE DropEnable(c)
    BY <2>8, DropEnableInv
  <2> QED BY <1>1, <2>1, <2>2, <2>3, <2>4, <2>5, <2>6, <2>7, <2>8 DEF Step
<1>2. CASE UNCHANGED vars
  BY <1>2 DEF vars, Inv, TypeOK, Disabled, Shared, Owned
<1> QED BY <1>1, <1>2, InterruptInv DEF Next, Stopped

-----------------------------------------------------------------------------
(* The inductive invariant of the guards, the locks and RFLAGS.IF. *)
THEOREM Invariance == Spec => []Inv
BY InitInv, NextInv, PTL DEF Spec

(* InterruptsMatchGuards for guards nested to any depth. *)
THEOREM GuardsDecide == Spec => []InterruptsMatchGuards
<1>1. Inv => InterruptsMatchGuards
  <2> SUFFICES ASSUME Inv PROVE InterruptsMatchGuards
    OBVIOUS
  <2>1. \A c \in Contexts : DOMAIN guards[c] = 1 .. Len(guards[c])
    BY DEF Inv, TypeOK
  <2>2. \A c \in Contexts : (\E i \in DOMAIN guards[c] : guards[c][i].off) <=> Off(guards[c])
    BY <2>1 DEF Off, OffIn
  <2> QED BY <2>2, NoGuards, IdleFields DEF Inv, TypeOK, Disabled, InterruptsMatchGuards
<1> QED BY <1>1, Invariance, PTL

(* A thread that a handler can interrupt holds none of the mutexes that    *)
(* handlers use.                                                           *)
LEMMA FoundFree == ASSUME Inv PROVE HandlerFindsMutexFree
<1> SUFFICES ASSUME handling, op["handler"].at = "want", op["handler"].guard.lock # Printk
             PROVE  owner[op["handler"].guard.lock] = None
  BY DEF HandlerFindsMutexFree
<1> DEFINE l == op["handler"].guard.lock
<1>1. l \in SharedMutexes /\ l \in Locks /\ ~Has(guards["handler"], l)
  BY DEF Inv, TypeOK, Shared, Owned
<1>2. ~Has(guards["thread"], l)
  BY <1>1 DEF Inv, Disabled, Shared, SharedOff, Has, Off, OffIn
<1>3. owner[l] \in Contexts \cup {None}
  BY <1>1 DEF Inv, TypeOK
<1> QED BY <1>1, <1>2, <1>3 DEF Inv, Owned

(* HandlerFindsMutexFree for any number of mutexes: a handler never spins  *)
(* on a mutex, which nobody could then free.                               *)
THEOREM MutexFree == Spec => []HandlerFindsMutexFree
<1>1. Inv => HandlerFindsMutexFree
  BY FoundFree
<1> QED BY <1>1, Invariance, PTL

(* MutualExclusion for any locks. *)
THEOREM Exclusion == Spec => []MutualExclusion
<1>1. Inv => MutualExclusion
  <2> SUFFICES ASSUME Inv PROVE MutualExclusion
    OBVIOUS
  <2>1. \A c \in Contexts : \A l : Holds(c, l) <=> Has(guards[c], l)
    <3>1. \A c \in Contexts : guards[c] \in Seq(Guards)
      BY Zenon DEF Inv, TypeOK
    <3>2. \A c \in Contexts : DOMAIN guards[c] = 1 .. Len(guards[c])
      BY <3>1
    <3> QED BY <3>2, Zenon DEF Holds, Has
  <2> QED BY <2>1 DEF Inv, Owned, MutualExclusion
<1> QED BY <1>1, Invariance, PTL

(* A context that runs and wants a lock finds it free, and the CPU goes    *)
(* on, with one exception: a handler that logs on top of a thread that     *)
(* holds PRINTK.                                                           *)
OnlyWait ==
  /\ \A c \in Contexts :
       ((c = "handler") = handling /\ op[c].at = "want") =>
          \/ owner[op[c].guard.lock] = None
          \/ c = "handler" /\ op[c].guard.lock = Printk /\ owner[Printk] = "thread"
  /\ halted => handling /\ owner[Printk] = "thread"

(* The part of it about the locks follows from the invariant. *)
LEMMA WantedFree ==
  ASSUME Inv, NEW c \in Contexts, (c = "handler") = handling, op[c].at = "want"
  PROVE  \/ owner[op[c].guard.lock] = None
         \/ c = "handler" /\ op[c].guard.lock = Printk /\ owner[Printk] = "thread"
<1> DEFINE l == op[c].guard.lock
<1>1. l \in Locks /\ owner[l] \in Contexts \cup {None} /\ owner[l] # c
  BY DEF Inv, TypeOK, Owned
<1>2. CASE c = "thread"
  <2>1. guards["handler"] = <<>>
    BY <1>2 DEF Inv, TypeOK, Disabled
  <2>2. owner[l] # "handler"
    BY <1>1, <2>1 DEF Inv, Owned, Has
  <2> QED BY <1>1, <1>2, <2>2
<1>3. CASE c = "handler"
  <2>1. HandlerFindsMutexFree
    BY FoundFree
  <2> QED BY <1>1, <1>3, <2>1, Zenon DEF HandlerFindsMutexFree
<1> QED BY <1>2, <1>3 DEF Contexts

(* OnlyWait for any set of mutexes: HandlerReturns needs only that the     *)
(* handler goes on.                                                        *)
THEOREM WaitsOnlyToLog == Spec => []OnlyWait
<1> DEFINE Halts == halted => handling /\ owner[Printk] = "thread"
<1>1. Init => Halts
  BY DEF Init
<1>2. Inv /\ Halts /\ [Next]_vars => Halts'
  <2> SUFFICES ASSUME Inv, Halts, [Next]_vars, halted' PROVE handling' /\ owner'[Printk] = "thread"
    OBVIOUS
  <2>1. CASE halted
    <3>1. UNCHANGED vars
      BY <2>1, Zenon DEF Next, Interrupt, Iret, Ready, Running, Stopped, Step, IrqGuardNew, MayMake,
                         Log, Lock, LockIrq, Acquire, Relax, Drop, DropEnable
    <3> QED BY <2>1, <3>1 DEF vars
  <2>2. CASE ~halted
    <3>1. PICK c \in Contexts : Relax(c)
      BY <2>2, Zenon DEF Next, Interrupt, Iret, Stopped, Step, IrqGuardNew, Log, Lock, LockIrq,
                         Acquire, Drop, DropEnable, vars
    <3>2. /\ (c = "handler") = handling /\ op[c].at = "want" /\ owner[op[c].guard.lock] # None
          /\ UNCHANGED <<handling, owner>>
      BY <3>1, Zenon DEF Relax, Running
    <3> QED BY <3>2, WantedFree, Zenon
  <2> QED BY <2>1, <2>2, Zenon
<1>3. Inv /\ Halts => OnlyWait
  BY WantedFree, Zenon DEF OnlyWait
<1> QED BY <1>1, <1>2, <1>3, Invariance, PTL DEF Spec
=============================================================================
