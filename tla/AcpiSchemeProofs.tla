-------------------------- MODULE AcpiSchemeProofs --------------------------
(***************************************************************************)
(* Proofs about AcpiScheme for any number of clients and descriptors and   *)
(* for any widths: type correctness, the shutdown pipe's handle, and the   *)
(* refinement of FileTable.                                                *)
(***************************************************************************)
EXTENDS AcpiScheme, SequenceTheorems, TLAPS

(* Descriptors that open has taken and not yet inserted are distinct, were *)
(* taken from NEXT, and name no handle.                                    *)
OpeningFresh ==
  /\ \A f \in DOMAIN handles : f < next
  /\ \A c \in Clients : opening[c] # None =>
       /\ opening[c].fd < next
       /\ opening[c].fd \notin DOMAIN handles
       /\ \A d \in Clients : opening[d] # None /\ opening[d].fd = opening[c].fd => d = c

Inv == TypeOK /\ PipeHandleKept /\ OpeningFresh

(* A file has at least one byte and is shorter than 2^64. *)
LEMMA LengthType == \A k \in Kinds : Length(k) \in 1 .. (U64 - 1)
  BY AcpiSchemeConstants DEF Kinds, Length

(* A successful seek sets the offset to a u64. *)
LEMMA SeekOffsetType ==
  ASSUME NEW h \in Handles, NEW pos \in Positions, NEW whence \in Whence,
         SeekOffset(h, pos, whence) # Err("EINVAL")
  PROVE  SeekOffset(h, pos, whence).ok \in 0 .. (U64 - 1)
<1> DEFINE n == h.offset  len == Length(h.kind)
<1>1. n \in 0 .. (U64 - 1) /\ len \in 1 .. (U64 - 1) /\ U64 \in Nat /\ U64 > 1
      /\ pos \in Int /\ pos < U64 /\ AsU64(pos) \in 0 .. (U64 - 1)
  <2>1. U64 \in Nat /\ U64 > 1 /\ pos \in (-(U64 \div 2)) .. ((U64 \div 2) - 1)
    BY AcpiSchemeConstants
  <2>2. n \in 0 .. (U64 - 1) /\ h.kind \in Kinds
    BY DEF Handles
  <2>3. len \in 1 .. (U64 - 1)
    BY <2>2, LengthType
  <2>4. pos \in Int /\ pos < U64
    BY <2>1
  <2>5. AsU64(pos) \in 0 .. (U64 - 1)
    BY <2>1, <2>4 DEF AsU64
  <2> QED BY <2>1, <2>2, <2>3, <2>4, <2>5
<1>2. \A m \in Nat : Ok(m).ok = m
  BY DEF Ok
<1> HIDE DEF n, len
<1>3. CASE whence = "SEEK_SET"
  BY <1>1, <1>2, <1>3 DEF SeekOffset
<1>4. CASE whence = "SEEK_CUR" /\ pos < 0
  <2>1. SeekOffset(h, pos, whence) = Back(n, pos)
    BY <1>4 DEF SeekOffset, n
  <2>2. n + pos >= 0 /\ Back(n, pos) = Ok(n + pos)
    BY <1>1, <2>1 DEF Back
  <2> QED BY <1>1, <1>2, <1>4, <2>1, <2>2
<1>5. CASE whence = "SEEK_CUR" /\ ~(pos < 0)
  <2>1. SeekOffset(h, pos, whence) = Forward(n, pos)
    BY <1>5 DEF SeekOffset, n
  <2> QED BY <1>1, <1>2, <1>5, <2>1 DEF Forward
<1>6. CASE whence = "SEEK_END" /\ pos < 0
  <2>1. SeekOffset(h, pos, whence) = Back(len, pos)
    BY <1>6 DEF SeekOffset, len
  <2>2. len + pos >= 0 /\ Back(len, pos) = Ok(len + pos)
    BY <1>1, <2>1 DEF Back
  <2> QED BY <1>1, <1>2, <1>6, <2>1, <2>2
<1>7. CASE whence = "SEEK_END" /\ ~(pos < 0)
  <2>1. SeekOffset(h, pos, whence) = Ok(len)
    BY <1>7 DEF SeekOffset, len
  <2> QED BY <1>1, <1>2, <2>1
<1>8. CASE whence = "other"
  BY <1>8 DEF SeekOffset
<1> QED BY <1>3, <1>4, <1>5, <1>6, <1>7, <1>8 DEF Whence

(* Initially there are no handles, the lock is free and nobody opens. *)
LEMMA Start == Init => Inv
<1> SUFFICES ASSUME Init PROVE Inv
  OBVIOUS
<1>1. DOMAIN handles = {} /\ handles \in [{} -> Handles]
  BY DEF Init
<1>2. opening \in [Clients -> {None} \cup Opening] /\ \A c \in Clients : opening[c] = None
  BY DEF Init
<1>3. next = 0 /\ lock = None /\ MaxOpens \in Nat
      /\ flag \in BOOLEAN /\ user \in BOOLEAN /\ data \in BOOLEAN /\ panicked \in BOOLEAN
  BY AcpiSchemeConstants, Zenon DEF Init
<1>4. TypeOK
  BY <1>1, <1>2, <1>3 DEF TypeOK
<1> QED BY <1>1, <1>2, <1>3, <1>4 DEF Inv, PipeHandleKept, OpeningFresh

-----------------------------------------------------------------------------
(* A step that leaves handles, descriptors and lock alone keeps Inv, and   *)
(* FileTable does not see it.                                              *)
LEMMA Untouched ==
  ASSUME Inv, UNCHANGED <<handles, next, lock, opening>>,
         flag' \in BOOLEAN, user' \in BOOLEAN, data' \in BOOLEAN, panicked' \in BOOLEAN
  PROVE  Inv' /\ UNCHANGED <<FilesView, IssuedView>>
<1>1. TypeOK'
  BY DEF Inv, TypeOK
<1>2. PipeHandleKept'
  BY DEF Inv, PipeHandleKept
<1>3. OpeningFresh'
  BY DEF Inv, OpeningFresh
<1> QED BY <1>1, <1>2, <1>3 DEF Inv, FilesView, IssuedView

(* A step that changes one handle, of which it keeps the kind, keeps Inv   *)
(* if no read spins after it, and FileTable sees the change of that handle alone.   *)
LEMMA HandleChanged ==
  ASSUME Inv, lock' = None, NEW id \in DOMAIN handles, NEW h \in Handles,
         handles' = [handles EXCEPT ![id] = h],
         UNCHANGED <<next, opening, flag, user, data, panicked>>
  PROVE  /\ Inv'
         /\ IssuedView' = IssuedView
         /\ FilesView' = [FilesView EXCEPT ![id] = View(h)]
<1>1. DOMAIN handles' = DOMAIN handles /\ handles' \in [DOMAIN handles -> Handles]
  BY DEF Inv, TypeOK
<1>2. TypeOK'
  BY <1>1 DEF Inv, TypeOK
<1>3. PipeHandleKept'
  BY DEF PipeHandleKept
<1>4. OpeningFresh'
  BY <1>1 DEF Inv, OpeningFresh
<1>5. FilesView' = [FilesView EXCEPT ![id] = View(h)]
  BY <1>1, Zenon DEF FilesView, Inv, TypeOK
<1> QED BY <1>2, <1>3, <1>4, <1>5 DEF Inv, IssuedView

(* A handle that has delivered nothing. *)
LEMMA EmptyView ==
  ASSUME NEW h, h.got = <<>>
  PROVE  View(h) = [kind |-> h.kind, offset |-> h.offset, got |-> <<>>]
  BY DEF View

-----------------------------------------------------------------------------
(* What a step of the scheme is to FileTable: a step of it or nothing. *)
Simulates == Files!Next \/ UNCHANGED <<FilesView, IssuedView>>

(* open, up to NEXT.fetch_add: the new descriptor is not handed out yet. *)
LEMMA OpenStep ==
  ASSUME Inv, NEW c \in Clients, NEW o \in OpenCalls, Open(c, o.path, o.flags, o.uid)
  PROVE  Inv' /\ Simulates
<1>1. CASE OpenError(o.path, o.flags, o.uid) # "none"
  BY <1>1, Untouched DEF Open, Simulates, Inv, TypeOK
<1>2. CASE OpenError(o.path, o.flags, o.uid) = "none"
  <2> DEFINE new == [fd |-> next, kind |-> KindOf(o.path), stat |-> "O_STAT" \in o.flags.bits]
  <2>1. /\ opening[c] = None /\ next < MaxOpens /\ next' = next + 1
        /\ opening' = [opening EXCEPT ![c] = new]
        /\ UNCHANGED <<handles, lock, flag, user, data, panicked>>
    BY <1>2 DEF Open, Running
  <2>2. o.path \in {"", "rxsdt", "kstop"}
    BY <1>2, Zenon DEF OpenError
  <2>3. next \in Fds /\ next \in Nat /\ MaxOpens \in Nat
    BY <2>1, AcpiSchemeConstants DEF Fds, Inv, TypeOK
  <2>4. KindOf(o.path) \in Kinds
    BY <2>2, Zenon DEF KindOf, Kinds
  <2>5. new \in Opening /\ new.fd = next
    BY <2>3, <2>4 DEF Opening
  <2>6. new # None
    BY <2>5, AcpiSchemeConstants, Zenon DEF Opening
  <2> HIDE DEF new
  <2>7. TypeOK'
    BY <2>1, <2>3, <2>5 DEF Inv, TypeOK
  <2>8. PipeHandleKept'
    BY <2>1 DEF Inv, PipeHandleKept
  <2>9. \A d \in Clients : opening'[d] = IF d = c THEN new ELSE opening[d]
    BY <2>1 DEF Inv, TypeOK
  <2>10. \A d \in Clients : opening[d] # None => opening[d].fd \in Nat
    BY DEF Inv, TypeOK, Opening, Fds
  <2>11. \A f \in DOMAIN handles : f \in Nat
    BY DEF Inv, TypeOK, Fds
  <2>12. OpeningFresh'
    BY <2>1, <2>3, <2>5, <2>6, <2>9, <2>10, <2>11 DEF Inv, OpeningFresh
  <2>13. IssuedView' = IssuedView
    <3>1. \A f \in 0 .. (next - 1) : f # next
      BY <2>3
    <3>2. 0 .. (next' - 1) = (0 .. (next - 1)) \cup {next}
      BY <2>1, <2>3
    <3> QED BY <2>1, <2>3, <2>5, <2>6, <2>9, <3>1, <3>2 DEF IssuedView
  <2>14. FilesView' = FilesView
    BY <2>1 DEF FilesView
  <2> QED BY <2>7, <2>8, <2>12, <2>13, <2>14 DEF Inv, Simulates
<1> QED BY <1>1, <1>2

(* open, from HANDLES.write(): FileTable's Open. *)
LEMMA OpenInsertStep ==
  ASSUME Inv, NEW c \in Clients, OpenInsert(c)
  PROVE  Inv' /\ Simulates
<1> DEFINE o == opening[c]
           h == [kind |-> o.kind, offset |-> 0, stat |-> o.stat, got |-> <<>>]
<1>1. /\ o # None /\ o \in Opening /\ o.fd \in Fds /\ o.kind \in Kinds /\ o.stat \in BOOLEAN
      /\ o.fd \in 0 .. (next - 1) /\ o.fd \notin DOMAIN handles
  BY DEF OpenInsert, Inv, TypeOK, OpeningFresh, Opening, Fds
<1>2. h \in Handles
  BY <1>1, AcpiSchemeConstants DEF Handles
<1>3. /\ DOMAIN handles' = DOMAIN handles \cup {o.fd}
      /\ \A f \in DOMAIN handles' : handles'[f] = IF f = o.fd THEN h ELSE handles[f]
      /\ handles' \in [DOMAIN handles' -> Handles]
  BY <1>2 DEF OpenInsert, Inv, TypeOK
<1>4. /\ opening' = [opening EXCEPT ![c] = None] /\ lock = None
      /\ UNCHANGED <<next, lock, flag, user, data, panicked>>
  BY DEF OpenInsert
<1>5. \A d \in Clients : opening'[d] = IF d = c THEN None ELSE opening[d]
  BY <1>4 DEF Inv, TypeOK
<1>6. TypeOK'
  BY <1>1, <1>3, <1>4 DEF Inv, TypeOK
<1>7. OpeningFresh'
  BY <1>1, <1>3, <1>4, <1>5 DEF Inv, OpeningFresh
<1>8. PipeHandleKept'
  BY <1>4 DEF PipeHandleKept
<1>9. IssuedView' = IssuedView \cup {o.fd} /\ o.fd \notin IssuedView
  BY <1>1, <1>4, <1>5 DEF IssuedView, Inv, OpeningFresh
<1>10. FilesView' = [g \in DOMAIN FilesView \cup {o.fd} |->
                       IF g = o.fd THEN [kind |-> o.kind, offset |-> 0, got |-> <<>>]
                       ELSE FilesView[g]]
  <2>1. View(h) = [kind |-> o.kind, offset |-> 0, got |-> <<>>]
    BY EmptyView
  <2> QED BY <1>3, <2>1 DEF FilesView
<1>11. Files!Open(o.fd, o.kind)
  BY <1>9, <1>10 DEF Files!Open
<1> QED BY <1>1, <1>6, <1>7, <1>8, <1>11 DEF Inv, Simulates, Files!Next

(* close: FileTable's Close, or nothing. *)
LEMMA CloseStep ==
  ASSUME Inv, NEW c \in Clients, NEW id \in Fds, Close(c, id)
  PROVE  Inv' /\ Simulates
<1>1. /\ DOMAIN handles' = DOMAIN handles \ {id}
      /\ \A f \in DOMAIN handles' : handles'[f] = handles[f]
      /\ handles' \in [DOMAIN handles' -> Handles]
  BY DEF Close, Inv, TypeOK
<1>2. lock = None /\ UNCHANGED <<next, lock, opening, flag, user, data, panicked>>
  BY DEF Close, Locked
<1>3. TypeOK'
  BY <1>1, <1>2 DEF Inv, TypeOK
<1>4. OpeningFresh'
  BY <1>1, <1>2 DEF Inv, OpeningFresh
<1>5. PipeHandleKept'
  BY <1>2 DEF PipeHandleKept
<1>6. IssuedView' = IssuedView
  BY <1>2 DEF IssuedView
<1>7. FilesView' = [g \in DOMAIN FilesView \ {id} |-> FilesView[g]]
  BY <1>1 DEF FilesView
<1>8. CASE id \in DOMAIN handles
  <2>1. id \in DOMAIN FilesView
    BY <1>8 DEF FilesView
  <2> QED BY <1>3, <1>4, <1>5, <1>6, <1>7, <2>1 DEF Inv, Simulates, Files!Next, Files!Close
<1>9. CASE id \notin DOMAIN handles
  <2>1. DOMAIN FilesView \ {id} = DOMAIN FilesView /\ FilesView = [g \in DOMAIN FilesView |-> FilesView[g]]
    BY <1>9 DEF FilesView
  <2>2. FilesView' = FilesView
    BY <1>7, <2>1
  <2> QED BY <1>3, <1>4, <1>5, <1>6, <2>2 DEF Inv, Simulates
<1> QED BY <1>8, <1>9

(* seek: FileTable's Seek, or nothing when it fails or panics. *)
LEMMA SeekStep ==
  ASSUME Inv, NEW c \in Clients, NEW id \in Fds, NEW pos \in Positions, NEW whence \in Whence,
         Seek(c, id, pos, whence)
  PROVE  Inv' /\ Simulates
<1> DEFINE offset == SeekOffset(handles[id], pos, whence)
<1>1. lock = None /\ UNCHANGED <<next, lock, opening, flag, user, data>>
  BY DEF Seek, Locked
<1>2. CASE UNCHANGED handles /\ panicked' \in BOOLEAN
  BY <1>1, <1>2, Untouched DEF Simulates, Inv, TypeOK
<1>3. CASE id \in DOMAIN handles /\ offset # Err("EINVAL") /\ UNCHANGED panicked
           /\ handles' = [handles EXCEPT ![id] = Moved(handles[id], offset.ok, <<>>)]
  <2> DEFINE h == Moved(handles[id], offset.ok, <<>>)
  <2>1. handles[id] \in Handles
    BY <1>3 DEF Inv, TypeOK
  <2>2. offset.ok \in 0 .. (U64 - 1)
    BY <1>3, <2>1, SeekOffsetType
  <2> HIDE DEF offset
  <2>3. h \in Handles
    BY <2>1, <2>2 DEF Handles, Moved
  <2>4. View(h) = [kind |-> handles[id].kind, offset |-> offset.ok, got |-> <<>>]
    BY EmptyView DEF Moved
  <2> HIDE DEF h
  <2>5. Inv' /\ IssuedView' = IssuedView /\ FilesView' = [FilesView EXCEPT ![id] = View(h)]
    BY <1>1, <1>3, <2>3, HandleChanged, Zenon DEF h
  <2>6. id \in DOMAIN FilesView /\ FilesView[id].kind = handles[id].kind
    BY <1>3 DEF FilesView, View
  <2>7. FilesView' = [FilesView EXCEPT ![id] = [kind |-> FilesView[id].kind, offset |-> offset.ok, got |-> <<>>]]
    BY <2>4, <2>5, <2>6
  <2> QED BY <2>2, <2>5, <2>6, <2>7, Zenon DEF Simulates, Files!Next, Files!Seek
<1> QED BY <1>2, <1>3, Zenon DEF Seek, Inv, TypeOK

(* What read copies, its places, and the places of what was delivered. *)
Copied(kind, m, n) == [i \in 1 .. n |-> Byte(kind, m + i)]
Counted(m, n) == [i \in 1 .. n |-> m + i]
Places(s) == [i \in 1 .. Len(s) |-> s[i].place]

(* What a read adds to a handle is added to FileTable's view of it. *)
LEMMA ReadView ==
  ASSUME NEW h \in Handles, NEW n \in Nat, NEW m \in Nat,
         NEW kind \in Kinds
  PROVE  /\ h.got \o Copied(kind, m, n) \in Seq(Bytes)
         /\ Places(h.got \o Copied(kind, m, n)) = View(h).got \o Counted(m, n)
<1> DEFINE s == [i \in 1 .. n |-> Byte(kind, m + i)]
           t == [i \in 1 .. n |-> m + i]
           g == h.got
           p == [i \in 1 .. Len(g) |-> g[i].place]
<1>1. s \in Seq(Bytes) /\ Len(s) = n /\ \A i \in 1 .. n : s[i].place = m + i
  BY DEF Byte, Bytes
<1>2. t \in Seq(Nat) /\ Len(t) = n /\ \A i \in 1 .. n : t[i] = m + i
  OBVIOUS
<1>3. g \in Seq(Bytes) /\ Len(g) \in Nat
  BY DEF Handles
<1>4. p \in Seq(Nat) /\ Len(p) = Len(g) /\ \A i \in 1 .. Len(g) : p[i] = g[i].place
  <2>1. \A i \in 1 .. Len(g) : g[i] \in Bytes
    BY <1>3, ElementOfSeq
  <2>2. \A i \in 1 .. Len(g) : g[i].place \in Nat
    BY <2>1 DEF Bytes
  <2> HIDE DEF g
  <2> QED BY <1>3, <2>2
<1> HIDE DEF s, t, g, p
<1>5. /\ g \o s \in Seq(Bytes) /\ Len(g \o s) = Len(g) + n
      /\ \A i \in 1 .. (Len(g) + n) : (g \o s)[i] = IF i <= Len(g) THEN g[i] ELSE s[i - Len(g)]
  BY <1>1, <1>3, ConcatProperties, Zenon
<1>6. /\ p \o t \in Seq(Nat) /\ Len(p \o t) = Len(g) + n
      /\ \A i \in 1 .. (Len(g) + n) : (p \o t)[i] = IF i <= Len(g) THEN p[i] ELSE t[i - Len(g)]
  <2> DEFINE S == Nat  k == Len(g)
  <2>1. Len(t) = n /\ Len(p) = k /\ t \in Seq(S) /\ p \in Seq(S) /\ n \in Nat /\ k \in Nat
    BY <1>2, <1>3, <1>4
  <2> HIDE DEF S, k
  <2>2. /\ p \o t \in Seq(S) /\ Len(p \o t) = k + n
        /\ \A i \in 1 .. (k + n) : (p \o t)[i] = IF i <= k THEN p[i] ELSE t[i - k]
    BY <2>1, ConcatProperties, Zenon
  <2> QED BY <2>2 DEF S, k
<1>7. \A i \in 1 .. (Len(g) + n) :
        (g \o s)[i].place = IF i <= Len(g) THEN p[i] ELSE t[i - Len(g)]
  BY <1>1, <1>2, <1>3, <1>4, <1>5
<1>8. [i \in 1 .. Len(g \o s) |-> (g \o s)[i].place] = p \o t
  <2> DEFINE q == [i \in 1 .. (Len(g) + n) |-> (g \o s)[i].place]
  <2>1. \A i \in 1 .. (Len(g) + n) : q[i] = (p \o t)[i]
    BY <1>6, <1>7, Zenon
  <2>2. p \o t \in [1 .. (Len(g) + n) -> Nat]
    BY <1>6, LenProperties, Zenon
  <2>3. q = p \o t
    BY <2>1, <2>2, Zenon
  <2> QED BY <1>5, <2>3
<1>9. View(h).got = p
  BY DEF View, p, g
<1>10. h.got = g /\ Copied(kind, m, n) = s /\ Counted(m, n) = t
  BY DEF s, t, g, Copied, Counted
<1> QED BY <1>5, <1>8, <1>9, <1>10 DEF Places

(* A step that delivers the next n bytes of a file, or none: FileTable's   *)
(* Read, or nothing.                                                       *)
LEMMA Delivered ==
  ASSUME Inv, lock' = None, NEW id \in Fds, id \in DOMAIN handles, NEW n \in Nat, NEW m \in Nat,
         n > 0 => m = handles[id].offset /\ m + n <= Length(handles[id].kind),
         handles' = [handles EXCEPT ![id] =
           Moved(handles[id], handles[id].offset + n,
                 handles[id].got \o Copied(handles[id].kind, m, n))],
         UNCHANGED <<next, opening, flag, user, data, panicked>>
  PROVE  Inv' /\ Simulates
<1> DEFINE h == handles[id]
           got == h.got \o Copied(h.kind, m, n)
           more == Counted(m, n)
           new == Moved(h, h.offset + n, got)
<1>1. h \in Handles /\ h.kind \in Kinds /\ h.offset \in 0 .. (U64 - 1) /\ h.stat \in BOOLEAN
  BY DEF Inv, TypeOK, Handles
<1>2. Length(h.kind) \in 1 .. (U64 - 1) /\ U64 \in Nat
  BY <1>1, LengthType, AcpiSchemeConstants
<1>3. /\ got \in Seq(Bytes)
      /\ Places(got) = View(h).got \o more
  BY <1>1, ReadView, Zenon
<1>4. h.offset + n \in 0 .. (U64 - 1)
  BY <1>1, <1>2
<1>5. handles' = [handles EXCEPT ![id] = new]
  OBVIOUS
<1>6. n > 0 => /\ more = [i \in 1 .. n |-> h.offset + i]
               /\ h.offset + n <= Length(h.kind) /\ n \in 1 .. Length(h.kind)
  BY <1>1, <1>2 DEF Counted
<1> HIDE DEF got
<1>7. /\ new \in Handles
      /\ View(new) = [kind |-> h.kind, offset |-> h.offset + n, got |-> View(h).got \o more]
  BY <1>1, <1>3, <1>4, Zenon DEF Moved, Handles, View, Places
<1> HIDE DEF new
<1>8. Inv' /\ IssuedView' = IssuedView /\ FilesView' = [FilesView EXCEPT ![id] = View(new)]
  BY <1>5, <1>7, HandleChanged, Zenon
<1>9. /\ id \in DOMAIN FilesView /\ FilesView[id] = View(h)
      /\ View(h).kind = h.kind /\ View(h).offset = h.offset
  BY DEF FilesView, View
<1>10. CASE n > 0
  <2> DEFINE f == FilesView[id]
  <2>1. f.kind = h.kind /\ f.offset = h.offset /\ f.got = View(h).got
    BY <1>9
  <2> HIDE DEF h, f
  <2>2. View(new) = [kind |-> f.kind, offset |-> f.offset + n,
                     got |-> f.got \o [i \in 1 .. n |-> f.offset + i]]
    BY <1>6, <1>7, <1>10, <2>1, Zenon
  <2>3. f.offset + n <= Length(f.kind) /\ n \in 1 .. Length(f.kind)
    BY <1>6, <1>10, <2>1
  <2>4. Files!Read(id)
    BY <1>8, <1>9, <2>2, <2>3, Zenon DEF Files!Read, f
  <2> QED BY <1>8, <2>4 DEF Simulates, Files!Next
<1>11. CASE ~(n > 0)
  <2>1. n = 0 /\ more = <<>> /\ h.offset + n = h.offset
    BY <1>1, <1>11 DEF Counted
  <2>2. View(h).got \in Seq(Nat)
    <3>1. h.got \in Seq(Bytes) /\ Len(h.got) \in Nat
      BY <1>1 DEF Handles
    <3>2. \A i \in 1 .. Len(h.got) : h.got[i] \in Bytes
      BY <3>1, ElementOfSeq
    <3>3. \A i \in 1 .. Len(h.got) : h.got[i].place \in Nat
      BY <3>2 DEF Bytes
    <3> HIDE DEF h
    <3> QED BY <3>1, <3>3 DEF View
  <2>3. View(h).got \o more = View(h).got
    BY <2>1, <2>2, ConcatEmptySeq
  <2>4. View(new) = View(h)
    BY <1>7, <2>1, <2>3, Zenon DEF View
  <2>5. FilesView' = FilesView
    <3>1. FilesView = [g \in DOMAIN FilesView |-> FilesView[g]]
      BY DEF FilesView
    <3> QED BY <1>8, <1>9, <2>4, <3>1
  <2> QED BY <1>8, <2>5 DEF Simulates
<1> QED BY <1>10, <1>11

(* read that returns at once. *)
LEMMA ReadStep ==
  ASSUME Inv, NEW c \in Clients, NEW id \in Fds, NEW n \in BufLens, Read(c, id, n)
  PROVE  Inv' /\ Simulates
<1>1. lock = None /\ UNCHANGED <<next, lock, opening, flag, user, data, panicked>>
  BY DEF Read, Locked
<1>2. CASE UNCHANGED handles
  BY <1>1, <1>2, Untouched DEF Simulates, Inv, TypeOK
<1>3. CASE ~ReadReturns(id, n) /\ CopyOut(id, n)
  <2> DEFINE h == handles[id]
             from == Low(h.offset, Length(h.kind))
             toCp == Low(n, Length(h.kind) - from)
  <2>1. id \in DOMAIN handles
    BY <1>3 DEF ReadReturns
  <2>2. h.offset \in Nat /\ Length(h.kind) \in Nat /\ n \in Nat
    BY <2>1, LengthType, AcpiSchemeConstants DEF Inv, TypeOK, Handles
  <2>3. /\ from \in Nat /\ toCp \in Nat
        /\ toCp > 0 => from = h.offset /\ from + toCp <= Length(h.kind)
    <3> DEFINE off == h.offset
               len == Length(h.kind)
    <3>1. off \in Nat /\ len \in Nat /\ n \in Nat
      BY <2>2
    <3> HIDE DEF off, len
    <3>2. LET a == Low(off, len)
              b == Low(n, len - a)
          IN /\ a \in Nat /\ b \in Nat
             /\ b > 0 => a = off /\ a + b <= len
      BY <3>1 DEF Low
    <3> QED BY <3>2 DEF off, len
  <2>4. handles' = [handles EXCEPT ![id] =
          Moved(h, h.offset + toCp, h.got \o Copied(h.kind, from, toCp))]
    BY <1>3, Zenon DEF CopyOut, Copied
  <2> HIDE DEF from, toCp
  <2> QED BY <1>1, <2>1, <2>3, <2>4, Delivered, Zenon
<1> QED BY <1>2, <1>3 DEF Read

(* read of the shutdown pipe that starts to spin: it finds a handle that   *)
(* nobody has read, and keeps the lock.                                    *)
LEMMA PipeWaitStep ==
  ASSUME Inv, NEW c \in Clients, NEW id \in Fds, NEW n \in BufLens, PipeWait(c, id, n)
  PROVE  Inv' /\ Simulates
<1>1. /\ id \in DOMAIN handles /\ handles[id].kind = "ShutdownPipe" /\ ~(handles[id].offset >= 1)
      /\ lock' = [client |-> c, fd |-> id]
      /\ UNCHANGED <<handles, next, opening, flag, user, data, panicked>>
  BY DEF PipeWait, ReadReturns
<1>2. handles[id].offset = 0
  BY <1>1 DEF Inv, TypeOK, Handles
<1>3. TypeOK'
  BY <1>1 DEF Inv, TypeOK
<1>4. PipeHandleKept'
  BY <1>1, <1>2 DEF PipeHandleKept
<1>5. OpeningFresh'
  BY <1>1 DEF Inv, OpeningFresh
<1>6. FilesView' = FilesView /\ IssuedView' = IssuedView
  BY <1>1 DEF FilesView, IssuedView
<1> QED BY <1>3, <1>4, <1>5, <1>6 DEF Inv, Simulates

(* The end of a read of the shutdown pipe. *)
LEMMA PipeWakeStep ==
  ASSUME Inv, NEW c \in Clients, PipeWake(c)
  PROVE  Inv' /\ Simulates
<1> DEFINE id == lock.fd
<1>1. /\ id \in Fds /\ id \in DOMAIN handles
      /\ handles[id].kind = "ShutdownPipe" /\ handles[id].offset = 0
  BY DEF PipeWake, Inv, TypeOK, PipeHandleKept
<1>2. Length(handles[id].kind) = 1
  BY <1>1 DEF Length
<1>3. /\ handles' = [handles EXCEPT ![id] =
           Moved(handles[id], 1, handles[id].got \o <<Byte("ShutdownPipe", 1)>>)]
      /\ lock' = None /\ UNCHANGED <<next, opening, flag, user, data, panicked>>
  BY DEF PipeWake
<1> DEFINE n == 1  m == 0
<1>4. <<Byte("ShutdownPipe", 1)>> = Copied("ShutdownPipe", m, n)
  BY DEF Copied
<1>5. /\ n \in Nat /\ m \in Nat /\ handles[id].offset + n = 1
      /\ n > 0 => m = handles[id].offset /\ m + n <= Length(handles[id].kind)
  BY <1>1, <1>2
<1> HIDE DEF id, n, m
<1>6. handles' = [handles EXCEPT ![id] =
        Moved(handles[id], handles[id].offset + n, handles[id].got \o Copied(handles[id].kind, m, n))]
  BY <1>1, <1>3, <1>4, <1>5, Zenon
<1> QED BY <1>1, <1>3, <1>5, <1>6, Delivered, Zenon

-----------------------------------------------------------------------------
(* Every step of the scheme keeps Inv and is a step of FileTable or nothing to it. *)
LEMMA Step ==
  ASSUME Inv, [Next]_vars
  PROVE  Inv' /\ Simulates
<1> USE DEF Simulates
<1>1. CASE UNCHANGED vars
  BY <1>1, Untouched DEF vars, Inv, TypeOK
<1>2. ASSUME NEW c \in Clients, New(c) \/ Write(c) PROVE Inv' /\ Simulates
  BY <1>2, Untouched DEF New, Write, Inv, TypeOK
<1>3. ASSUME NEW c \in Clients, NEW id \in Fds, Fstat(c, id) \/ Fevent(c, id) PROVE Inv' /\ Simulates
  BY <1>3, Untouched DEF Fstat, Fevent, Inv, TypeOK
<1>4. CASE TablesFound \/ KernelStop \/ Halted
  BY <1>4, Untouched, Zenon DEF TablesFound, KernelStop, Halted, vars, Inv, TypeOK
<1> QED BY <1>1, <1>2, <1>3, <1>4, OpenStep, OpenInsertStep, CloseStep, SeekStep, ReadStep,
           PipeWaitStep, PipeWakeStep DEF Next

(* TypeOK in every reachable state: in particular, offsets stay below 2^64 *)
(* whatever the widths, the files' lengths and the calls.                  *)
THEOREM TypeCorrect == Spec => []TypeOK
<1>1. Inv => TypeOK
  BY DEF Inv
<1> QED BY Start, Step, <1>1, PTL DEF Spec

(* A read that spins on WAIT_FLAG keeps its handle, for any number of clients. *)
THEOREM PipeKept == Spec => []PipeHandleKept
<1>1. Inv => PipeHandleKept
  BY DEF Inv
<1> QED BY Start, Step, <1>1, PTL DEF Spec

(* open, close, read and seek of the scheme implement FileTable for any    *)
(* number of clients and calls.                                            *)
THEOREM Refinement == Spec => ImplementsFileTable
<1>1. Init => Files!Init
  <2> SUFFICES ASSUME Init PROVE Files!Init
    OBVIOUS
  <2>1. FilesView = [f \in {} |-> 0]
    BY DEF Init, FilesView
  <2>2. IssuedView = {}
    BY DEF Init, IssuedView
  <2> QED BY <2>1, <2>2 DEF Files!Init
<1>2. Inv /\ [Next]_vars => Inv' /\ [Files!Next]_<<FilesView, IssuedView>>
  BY Step DEF Simulates
<1> QED BY Start, <1>1, <1>2, PTL DEF Spec, ImplementsFileTable, Files!Spec

(* While a read of the shutdown pipe waits, no step panics, changes a      *)
(* handle, takes HANDLES from it or clears WAIT_FLAG, and it ends only     *)
(* with the flag set: once it is set, the loop ends with the next load.    *)
PipeUndisturbed ==
  [][lock # None =>
       /\ ~panicked /\ ~panicked' /\ (flag => flag')
       /\ (lock' = lock /\ handles' = handles) \/ (flag /\ lock' = None)]_vars

(* PipeUndisturbed for any number of clients: PipeWakes needs only that    *)
(* the client goes on.                                                     *)
THEOREM PipeWaitsAlone == Spec => PipeUndisturbed
<1> DEFINE Alive == lock # None => ~panicked
           Alone == lock # None =>
                      /\ ~panicked /\ ~panicked' /\ (flag => flag')
                      /\ (lock' = lock /\ handles' = handles) \/ (flag /\ lock' = None)
<1>1. Init => Alive
  BY DEF Init
<1>2. Inv /\ Alive /\ Next => Alone
  <2> SUFFICES ASSUME Inv, lock # None, ~panicked, Next
               PROVE  ~panicked' /\ (flag => flag')
                      /\ ((lock' = lock /\ handles' = handles) \/ (flag /\ lock' = None))
    OBVIOUS
  <2>1. flag \in BOOLEAN /\ panicked \in BOOLEAN
    BY Zenon DEF Inv, TypeOK
  <2>2. CASE \E c \in Clients : PipeWake(c)
    <3>1. lock' = None /\ flag /\ UNCHANGED <<flag, panicked>>
      BY <2>2, Zenon DEF PipeWake
    <3> QED BY <2>1, <3>1
  <2>3. CASE UNCHANGED <<lock, handles, panicked>> /\ flag' \in {flag, TRUE}
    BY <2>1, <2>3, Zenon
  <2>4. \A c \in Clients : ~Locked(c)
    BY Zenon DEF Locked
  <2>5. \A c \in Clients : ~OpenInsert(c)
    BY Zenon DEF OpenInsert
  <2>6. ASSUME NEW c \in Clients, NEW id \in Fds
        PROVE  /\ ~Fstat(c, id) /\ ~Close(c, id) /\ ~Fevent(c, id)
               /\ \A n \in BufLens : ~Read(c, id, n) /\ ~PipeWait(c, id, n)
               /\ \A pos \in Positions, whence \in Whence : ~Seek(c, id, pos, whence)
    BY <2>4, Zenon DEF Fstat, Close, Fevent, Read, PipeWait, Seek
  <2>7. (\E c \in Clients : PipeWake(c)) \/ (UNCHANGED <<lock, handles, panicked>> /\ flag' \in {flag, TRUE})
    BY <2>5, <2>6, Zenon DEF Next, New, Write, Open, TablesFound, KernelStop, Halted, vars
  <2> QED BY <2>2, <2>3, <2>7, Zenon
<1>3. Inv /\ Alive /\ [Next]_vars => Alive' /\ [Alone]_vars
  <2>1. ASSUME Next, lock = None, lock' # None, Inv PROVE ~panicked'
    <3>1. ASSUME NEW c \in Clients, NEW id \in Fds
          PROVE  /\ \A n \in BufLens : ~Read(c, id, n)
                 /\ \A pos \in Positions, whence \in Whence : ~Seek(c, id, pos, whence)
      BY <2>1, Zenon DEF Read, Seek
    <3>2. UNCHANGED lock \/ \E c \in Clients, id \in Fds, n \in BufLens : PipeWait(c, id, n)
      BY <3>1, <2>1, Zenon DEF Next, New, Write, Open, OpenInsert, PipeWake, Fstat, Close, Fevent,
                         TablesFound, KernelStop, Halted, vars
    <3>3. PICK c \in Clients, id \in Fds, n \in BufLens : PipeWait(c, id, n)
      BY <2>1, <3>2, Zenon
    <3> QED BY <3>3, Zenon DEF PipeWait, Locked, Running
  <2>2. Inv /\ Alive /\ Next => Alive' /\ Alone
    BY <1>2, <2>1, Zenon
  <2> QED BY <2>2 DEF vars
<1> QED BY <1>1, <1>3, Start, Step, PTL DEF Spec, PipeUndisturbed
=============================================================================
