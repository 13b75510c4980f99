------------------------- MODULE KernelFramesProofs -------------------------
(* Proofs about KernelFrames for every memory map, heap size and input set. *)
EXTENDS KernelFrames, TLAPS

-----------------------------------------------------------------------------
(* Sequences. *)

(* A sequence is a function from the numbers up to its length. *)
LEMMA SeqDef == \A S : Seq(S) = UNION {[1 .. n -> S] : n \in Nat}
OBVIOUS

LEMMA LenProperties ==
  ASSUME NEW S, NEW s \in Seq(S)
  PROVE  Len(s) \in Nat /\ s \in [1 .. Len(s) -> S] /\ DOMAIN s = 1 .. Len(s)
OBVIOUS

LEMMA ElementOfSeq ==
  ASSUME NEW S, NEW s \in Seq(S), NEW k \in 1 .. Len(s)
  PROVE  s[k] \in S
OBVIOUS

LEMMA SeqMonotonic ==
  ASSUME NEW S, NEW T, NEW s \in Seq(S), S \subseteq T
  PROVE  s \in Seq(T)
OBVIOUS

(* The empty sequence is the one of length 0. *)
LEMMA EmptySeq ==
  ASSUME NEW S
  PROVE  /\ <<>> \in Seq(S) /\ Len(<<>>) = 0
         /\ \A s \in Seq(S) : s # <<>> => Len(s) \in Nat \ {0}
OBVIOUS

(* What the operators on sequences return. *)
LEMMA AppendProperties ==
  ASSUME NEW S, NEW s \in Seq(S), NEW e \in S
  PROVE  /\ Append(s, e) \in Seq(S) /\ Append(s, e) # <<>> /\ Len(Append(s, e)) = Len(s) + 1
         /\ \A k \in 1 .. Len(s) : Append(s, e)[k] = s[k]
         /\ Append(s, e)[Len(s) + 1] = e
OBVIOUS

LEMMA ConcatProperties ==
  ASSUME NEW S, NEW s \in Seq(S), NEW t \in Seq(S)
  PROVE  /\ s \o t \in Seq(S) /\ Len(s \o t) = Len(s) + Len(t)
         /\ \A k \in 1 .. (Len(s) + Len(t)) :
              (s \o t)[k] = IF k <= Len(s) THEN s[k] ELSE t[k - Len(s)]
OBVIOUS

LEMMA HeadTailProperties ==
  ASSUME NEW S, NEW s \in Seq(S), s # <<>>
  PROVE  /\ Head(s) \in S /\ Tail(s) \in Seq(S) /\ Len(Tail(s)) = Len(s) - 1
         /\ \A k \in 1 .. Len(Tail(s)) : Tail(s)[k] = s[k + 1]
OBVIOUS

LEMMA SubSeqProperties ==
  ASSUME NEW S, NEW s, NEW m \in Int, NEW n \in Int, \A k \in m .. n : s[k] \in S
  PROVE  /\ SubSeq(s, m, n) \in Seq(S)
         /\ Len(SubSeq(s, m, n)) = IF m <= n THEN n - m + 1 ELSE 0
         /\ \A k \in 1 .. (n - m + 1) : SubSeq(s, m, n)[k] = s[m + k - 1]
OBVIOUS

-----------------------------------------------------------------------------
(* The frame iterator. *)

(* What the proofs use of usable() and of the page tables that map_to      *)
(* creates.  It holds of every memory map (lemma Iterator, with the facts  *)
(* on finite sets that it needs, in the last section).                     *)
IteratorOK ==
  /\ \A n \in Slots : n \in Nat /\ nth(n) \in Nat
  /\ \A m, n \in Slots : m < n => nth(m) < nth(n)
  /\ \A p \in Nat : Cardinality(Missing(p)) \in Nat

(* nth(n) is a frame number. *)
LEMMA NthType ==
  ASSUME IteratorOK, NEW n \in Slots
  PROVE  n \in Nat /\ nth(n) \in Nat
BY DEF IteratorOK

(* usable() yields frames in strictly ascending order, across regions. *)
LEMMA NthMonotonic ==
  ASSUME IteratorOK, NEW m \in Slots, NEW n \in Slots, m < n
  PROVE  nth(m) < nth(n)
BY DEF IteratorOK

-----------------------------------------------------------------------------
(* The history of grants. *)

Grants == [first : Nat, last : Nat, use : Uses]

(* A sequence is empty when its length is 0. *)
LEMMA EmptyLen ==
  ASSUME NEW S, NEW s \in Seq(S)
  PROVE  s = <<>> <=> Len(s) = 0
BY EmptySeq

(* Handing out the slots that start at `next' extends the tiling. *)
LEMMA AppendTiled ==
  ASSUME NEW n \in Nat, NEW gs \in Seq(Grants), Tiled(n, gs),
         NEW g \in Grants, g.first = n, g.first <= g.last,
         g.first \in Slots, g.last \in Slots,
         g.use # "phys" => g.first .. g.last \subseteq Slots
  PROVE  Tiled(g.last + 1, Append(gs, g)) /\ Append(gs, g) \in Seq(Grants)
<1> DEFINE hs == Append(gs, g)
<1> DEFINE len == Len(gs)
<1>1. /\ hs \in Seq(Grants) /\ len \in Nat /\ Len(hs) = len + 1
      /\ DOMAIN gs = 1 .. len /\ DOMAIN hs = 1 .. (len + 1)
      /\ \A i \in 1 .. len : hs[i] = gs[i]
      /\ hs[len + 1] = g
      /\ hs # <<>>
  BY AppendProperties, LenProperties
<1>2. \A i \in 1 .. len : gs[i].last < g.first
  <2> SUFFICES ASSUME NEW i \in 1 .. len PROVE gs[i].last < n
    OBVIOUS
  <2>1. gs # <<>> /\ len >= 1
    BY <1>1
  <2>2. n = gs[len].last + 1
    BY <2>1 DEF Tiled
  <2>3. gs[i].last \in Nat /\ gs[len].last \in Nat /\ gs[len].first \in Nat
    <3>1. gs[i] \in Grants /\ gs[len] \in Grants
      BY <1>1, <2>1, ElementOfSeq
    <3> QED BY <3>1, Zenon DEF Grants
  <2>4. CASE i = len
    BY <2>2, <2>3, <2>4
  <2>5. CASE i < len
    <3>1. gs[i].last < gs[len].first /\ gs[len].first <= gs[len].last
      BY <1>1, <2>1, <2>5 DEF Tiled
    <3> DEFINE early == gs[i].last
    <3> DEFINE first == gs[len].first
    <3> DEFINE last == gs[len].last
    <3>2. /\ early \in Nat /\ first \in Nat /\ last \in Nat
          /\ early < first /\ first <= last /\ n = last + 1
      BY <3>1, <2>2, <2>3
    <3> HIDE DEF early, first, last
    <3>3. early < n
      BY <3>2
    <3> QED BY <3>3 DEF early
  <2>6. i = len \/ i < len
    <3>1. len \in Nat
      BY <1>1
    <3> HIDE DEF len
    <3> QED BY <3>1
  <2> QED BY <2>4, <2>5, <2>6
<1>3. ASSUME NEW i \in DOMAIN hs
      PROVE  /\ hs[i].first <= hs[i].last
             /\ hs[i].first = IF i = 1 THEN 0 ELSE hs[i - 1].last + 1
             /\ hs[i].first \in Slots /\ hs[i].last \in Slots
             /\ hs[i].use # "phys" => hs[i].first .. hs[i].last \subseteq Slots
  <2>1. CASE i \in 1 .. len
    <3>1. i # 1 => i - 1 \in 1 .. len
      BY <2>1, <1>1
    <3> QED BY <3>1, <2>1, <1>1 DEF Tiled
  <2>2. CASE i = len + 1
    <3>1. CASE len = 0
      <4>1. gs = <<>>
        BY <3>1, EmptyLen
      <4>2. n = 0
        BY <4>1 DEF Tiled
      <4> QED BY <4>2, <3>1, <2>2, <1>1
    <3>2. CASE len # 0
      <4>1. gs # <<>> /\ i # 1 /\ i - 1 = len /\ len \in 1 .. len
        BY <1>1, <2>2, <3>2, EmptyLen
      <4>2. n = gs[len].last + 1
        BY <4>1 DEF Tiled
      <4> QED BY <4>1, <4>2, <2>2, <1>1
    <3> QED BY <3>1, <3>2
  <2> QED BY <2>1, <2>2, <1>1
<1>4. ASSUME NEW i \in DOMAIN hs, NEW j \in DOMAIN hs, i < j
      PROVE  hs[i].last < hs[j].first
  <2>1. i \in 1 .. len
    BY <1>1, <1>4
  <2>2. CASE j \in 1 .. len
    BY <2>1, <2>2, <1>1, <1>4 DEF Tiled
  <2>3. CASE j = len + 1
    BY <2>1, <2>3, <1>1, <1>2
  <2> QED BY <2>2, <2>3, <1>1
<1> QED BY <1>1, <1>3, <1>4 DEF Tiled

(* Returning the newest grant shortens it. *)
LEMMA FrontTiled ==
  ASSUME NEW n \in Nat, NEW gs \in Seq(Grants), Tiled(n, gs), gs # <<>>
  PROVE  /\ Tiled(gs[Len(gs)].first, SubSeq(gs, 1, Len(gs) - 1))
         /\ SubSeq(gs, 1, Len(gs) - 1) \in Seq(Grants)
<1> DEFINE len == Len(gs)
<1> DEFINE hs == SubSeq(gs, 1, len - 1)
<1>1. len \in Nat \ {0} /\ DOMAIN gs = 1 .. len
  BY EmptySeq, LenProperties
<1>2. /\ hs \in Seq(Grants) /\ Len(hs) = len - 1
      /\ DOMAIN hs = 1 .. (len - 1)
      /\ \A i \in 1 .. (len - 1) : hs[i] = gs[i]
  <2>1. \A i \in 1 .. (len - 1) : gs[i] \in Grants
    BY <1>1, ElementOfSeq
  <2>2. hs \in Seq(Grants) /\ Len(hs) = len - 1 /\ \A i \in 1 .. (len - 1) : hs[i] = gs[i]
    BY <2>1, <1>1, SubSeqProperties
  <2> QED BY <2>2, LenProperties
<1>3. gs[len].first = IF hs = <<>> THEN 0 ELSE hs[Len(hs)].last + 1
  <2>1. CASE len = 1
    <3>1. hs = <<>>
      BY <2>1, <1>2, EmptySeq
    <3> QED BY <3>1, <2>1, <1>1 DEF Tiled
  <2>2. CASE len # 1
    <3>1. hs # <<>> /\ len - 1 \in 1 .. (len - 1)
      <4>1. Len(hs) # 0
        BY <2>2, <1>1, <1>2
      <4>2. hs # <<>>
        BY <4>1, <1>2, EmptyLen, Zenon
      <4> HIDE DEF len, hs
      <4> QED BY <4>2, <2>2, <1>1
    <3>2. gs[len].first = gs[len - 1].last + 1
      BY <2>2, <1>1 DEF Tiled
    <3> QED BY <3>1, <3>2, <1>2
  <2> QED BY <2>1, <2>2
<1>4. ASSUME NEW i \in DOMAIN hs
      PROVE  /\ hs[i].first <= hs[i].last
             /\ hs[i].first = IF i = 1 THEN 0 ELSE hs[i - 1].last + 1
             /\ hs[i].first \in Slots /\ hs[i].last \in Slots
             /\ hs[i].use # "phys" => hs[i].first .. hs[i].last \subseteq Slots
  <2>1. i \in DOMAIN gs /\ (i # 1 => i - 1 \in 1 .. (len - 1))
    BY <1>1, <1>2
  <2> QED BY <2>1, <1>2 DEF Tiled
<1>5. ASSUME NEW i \in DOMAIN hs, NEW j \in DOMAIN hs, i < j
      PROVE  hs[i].last < hs[j].first
  BY <1>1, <1>2, <1>5 DEF Tiled
<1> QED BY <1>2, <1>3, <1>4, <1>5, Zenon DEF Tiled

(* A grant lies between the frames of its first and of its last slot. *)
LEMMA FramesBounds ==
  ASSUME IteratorOK, NEW g \in Grants, g.first <= g.last, g.first \in Slots, g.last \in Slots,
         g.use # "phys" => g.first .. g.last \subseteq Slots,
         NEW f \in Frames(g)
  PROVE  f \in Nat /\ nth(g.first) <= f /\ f <= nth(g.last)
<1>1. nth(g.first) \in Nat /\ nth(g.last) \in Nat
  BY NthType
<1>2. CASE g.use = "phys"
  BY <1>1, <1>2 DEF Frames
<1>3. CASE g.use # "phys"
  <2>1. PICK m \in g.first .. g.last : f = nth(m)
    BY <1>3 DEF Frames
  <2>2. m \in Slots /\ m \in Nat /\ g.first \in Nat /\ g.last \in Nat
    BY <1>3, NthType DEF Grants
  <2>3. f \in Nat
    BY <2>1, <2>2, NthType
  <2>4. nth(g.first) <= nth(m)
    <3>1. CASE m = g.first
      BY <3>1, <1>1
    <3>2. CASE g.first < m
      BY <3>2, <2>1, <2>2, <2>3, <1>1, NthMonotonic
    <3> QED BY <3>1, <3>2, <2>2
  <2>5. nth(m) <= nth(g.last)
    <3>1. CASE m = g.last
      BY <3>1, <1>1
    <3>2. CASE m < g.last
      BY <3>2, <2>1, <2>2, <2>3, <1>1, NthMonotonic
    <3> QED BY <3>1, <3>2, <2>2
  <2> QED BY <2>1, <2>3, <2>4, <2>5
<1> QED BY <1>2, <1>3

(* Two grants of a tiling share no frame. *)
LEMMA TilesApart ==
  ASSUME IteratorOK, NEW n \in Nat, NEW gs \in Seq(Grants), Tiled(n, gs),
         NEW i \in DOMAIN gs, NEW j \in DOMAIN gs, i < j
  PROVE  Frames(gs[i]) \cap Frames(gs[j]) = {}
<1> SUFFICES ASSUME NEW f \in Frames(gs[i]), f \in Frames(gs[j]) PROVE FALSE
  OBVIOUS
<1>1. gs[i] \in Grants /\ gs[j] \in Grants
  BY LenProperties, ElementOfSeq
<1>2. /\ gs[i].last < gs[j].first
      /\ gs[i].first <= gs[i].last /\ gs[i].first \in Slots /\ gs[i].last \in Slots
      /\ gs[i].use # "phys" => gs[i].first .. gs[i].last \subseteq Slots
      /\ gs[j].first <= gs[j].last /\ gs[j].first \in Slots /\ gs[j].last \in Slots
      /\ gs[j].use # "phys" => gs[j].first .. gs[j].last \subseteq Slots
  BY DEF Tiled
<1>3. f \in Nat /\ f <= nth(gs[i].last)
  BY <1>1, <1>2, FramesBounds
<1>4. nth(gs[j].first) <= f
  BY <1>1, <1>2, FramesBounds
<1>5. nth(gs[i].last) < nth(gs[j].first)
  BY <1>2, NthMonotonic
<1>6. nth(gs[i].last) \in Nat /\ nth(gs[j].first) \in Nat
  BY <1>2, NthType
<1> QED BY <1>3, <1>4, <1>5, <1>6

(* Grants that tile the slots share no frame. *)
LEMMA TiledDisjoint ==
  ASSUME IteratorOK, TypeOK, SlotsTiled
  PROVE  GrantsDisjoint
<1> SUFFICES ASSUME disciplined, ~panicked,
                    NEW i \in DOMAIN grants, NEW j \in DOMAIN grants, i # j
             PROVE  Frames(grants[i]) \cap Frames(grants[j]) = {}
  BY DEF GrantsDisjoint
<1>1. next \in Nat /\ grants \in Seq(Grants) /\ Tiled(next, grants)
  BY DEF TypeOK, SlotsTiled, Grants
<1>2. i \in Nat /\ j \in Nat
  BY <1>1, LenProperties
<1>3. CASE i < j
  BY <1>1, <1>3, TilesApart
<1>4. CASE j < i
  BY <1>1, <1>4, TilesApart
<1> QED BY <1>2, <1>3, <1>4

-----------------------------------------------------------------------------
(* Type correctness. *)

ServiceCalls == {c \in Calls : c.op # "heap"}

(* The call of heap_init_inner is alone on the list and counted once. *)
HeapCall ==
  \/ todo \in Seq(ServiceCalls)
  \/ heap < HeapLen /\ \E c \in Calls : c.op = "heap" /\ todo = <<c>>

(* The quotient of two numbers is a number. *)
LEMMA QuotientType ==
  ASSUME NEW a \in Nat, NEW b \in Nat \ {0}
  PROVE  a \div b \in Nat
OBVIOUS

(* A function on 1 .. n is a sequence. *)
LEMMA FunSeq ==
  ASSUME NEW S, NEW n \in Nat, NEW f \in [1 .. n -> S]
  PROVE  f \in Seq(S)
BY SeqDef

(* The calls that services leave in todo are calls. *)
LEMMA ServiceCallsTyped ==
  /\ \A p, f \in Nat : Map(p, f) \in ServiceCalls
  /\ \A p \in Nat : /\ Unmap(p) \in ServiceCalls
                    /\ Read(p) \in ServiceCalls /\ Write(p) \in ServiceCalls
  /\ Object \in ServiceCalls
  /\ \A n \in Slots, use \in {"dma4", "dma8"} : Fill(n, use) \in ServiceCalls
  /\ Seq(ServiceCalls) \subseteq Seq(Calls)
<1>1. \A p, f \in Nat : Map(p, f) \in ServiceCalls
  BY DEF Map, ServiceCalls, Calls
<1>2. \A p \in Nat : /\ Unmap(p) \in ServiceCalls
                    /\ Read(p) \in ServiceCalls /\ Write(p) \in ServiceCalls
  BY DEF Unmap, Read, Write, ServiceCalls, Calls
<1>3. Object \in ServiceCalls
  BY DEF Object, ServiceCalls, Calls
<1>4. \A n \in Slots, use \in {"dma4", "dma8"} : Fill(n, use) \in ServiceCalls
  BY DEF Fill, ServiceCalls, Calls
<1>5. Seq(ServiceCalls) \subseteq Seq(Calls)
  BY SeqMonotonic DEF ServiceCalls
<1> QED BY <1>1, <1>2, <1>3, <1>4, <1>5

(* What remains of the list after its first call. *)
LEMMA TailTyped ==
  ASSUME todo \in Seq(Calls), HeapCall, todo # <<>>
  PROVE  Head(todo) \in Calls /\ Tail(todo) \in Seq(ServiceCalls)
<1>1. CASE todo \in Seq(ServiceCalls)
  BY <1>1, HeadTailProperties
<1>2. CASE \E c \in Calls : todo = <<c>>
  BY <1>2
<1> QED BY <1>1, <1>2 DEF HeapCall

(* The arguments of a call have their types. *)
LEMMA CallFields ==
  ASSUME NEW c \in Calls
  PROVE  /\ c.op \in {"map", "heap"} => c.page \in Nat /\ c.frame \in Nat
         /\ c.op \in {"read", "write"} => c.page \in Nat
         /\ c.op = "fill" => c.slot \in Slots /\ c.use \in {"dma4", "dma8"}
BY DEF Calls

(* map_to creates page tables of the levels there are, a number of them. *)
LEMMA TablesOfFinite ==
  ASSUME IteratorOK, NEW p \in Nat
  PROVE  TablesOf(p) \subseteq (DOMAIN Spans) \X Int /\ Cardinality(Missing(p)) \in Nat
<1>1. \A l \in DOMAIN Spans : Spans[l] \in Nat \ {0}
  BY ConstantsOK, LenProperties, ElementOfSeq
<1>2. \A l \in DOMAIN Spans : p \div Spans[l] \in Int
  BY <1>1
<1> QED BY <1>2 DEF TablesOf, IteratorOK

(* A grant that is logged keeps the log typed. *)
LEMMA LogTyped ==
  ASSUME grants \in Seq(Grants), NEW g \in Grants, Log(g)
  PROVE  grants' \in Seq(Grants)
BY AppendProperties DEF Log

(* allocate_frame keeps the types. *)
LEMMA AllocateFrameTyped ==
  ASSUME TypeOK, NEW use \in Uses, AllocateFrame(use)
  PROVE  next' \in Nat /\ panicked' \in BOOLEAN /\ grants' \in Seq(Grants)
<1>1. next \in Nat /\ grants \in Seq(Grants)
  BY DEF TypeOK, Grants
<1>2. Grant(next, next, use) \in Grants
  BY <1>1 DEF Grant, Grants
<1>3. grants' \in Seq(Grants)
  BY <1>1, <1>2, LogTyped DEF AllocateFrame
<1> QED BY <1>1, <1>3 DEF AllocateFrame

(* map_to keeps the types. *)
LEMMA MapToTyped ==
  ASSUME IteratorOK, TypeOK, NEW p \in Nat, NEW f \in Nat, MapTo(p, f)
  PROVE  /\ next' \in Nat /\ panicked' \in BOOLEAN /\ grants' \in Seq(Grants)
         /\ tables' \subseteq (DOMAIN Spans) \X Int
         /\ DOMAIN pt' \subseteq Nat /\ \A q \in DOMAIN pt' : pt'[q] \in Nat
<1> DEFINE k == Cardinality(Missing(p))
<1>1. next \in Nat /\ grants \in Seq(Grants) /\ k \in Nat
  BY TablesOfFinite DEF TypeOK, Grants
<1> HIDE DEF k
<1>2. CASE \A i \in next .. (next + k - 1) : HasNth(i)
  <2>1. /\ next' = next + k
        /\ tables' = tables \cup TablesOf(p)
        /\ pt' = [q \in DOMAIN pt \cup {p} |-> IF q = p THEN f ELSE pt[q]]
        /\ IF k = 0 THEN UNCHANGED grants ELSE Log(Grant(next, next + k - 1, "table"))
        /\ panicked' = FALSE
    BY <1>2 DEF MapTo, k
  <2>2. k # 0 => Grant(next, next + k - 1, "table") \in Grants
    BY <1>1 DEF Grant, Grants, Uses
  <2>3. grants' \in Seq(Grants)
    BY <2>1, <2>2, <1>1, LogTyped
  <2>4. tables' \subseteq (DOMAIN Spans) \X Int
    BY <2>1, TablesOfFinite, Zenon DEF TypeOK
  <2>5. DOMAIN pt' \subseteq Nat /\ \A q \in DOMAIN pt' : pt'[q] \in Nat
    BY <2>1 DEF TypeOK
  <2>6. next' = next + k /\ panicked' = FALSE
    BY <2>1, Zenon
  <2>7. next' \in Nat
    BY <1>1, <2>6
  <2>8. panicked' \in BOOLEAN
    BY <2>6, Zenon
  <2> QED BY <2>3, <2>4, <2>5, <2>7, <2>8
<1>3. CASE ~(\A i \in next .. (next + k - 1) : HasNth(i))
  <2>1. /\ \E i \in next .. (next + k - 1) : next' = i + 1
        /\ panicked' = TRUE
        /\ UNCHANGED <<tables, pt, grants>>
    BY <1>3 DEF MapTo, k
  <2>2. next' \in Nat /\ panicked' \in BOOLEAN /\ grants' \in Seq(Grants)
    BY <2>1, <1>1
  <2> QED BY <2>1, <2>2 DEF TypeOK
<1> QED BY <1>2, <1>3

(* Uses, as the set it lists. *)
LEMMA UsesTyped ==
  {"heap", "table", "dma4", "dma8", "object", "phys"} = Uses
BY Zenon DEF Uses

(* TypeOK with the shape of the call list is inductive. *)
LEMMA TypeStep ==
  ASSUME IteratorOK, TypeOK, HeapCall, [Next]_vars
  PROVE  TypeOK' /\ HeapCall'
<1> DEFINE Tables == (DOMAIN Spans) \X Int
<1>0. /\ next \in Nat /\ heap \in 0 .. HeapLen /\ heap \in Nat /\ HeapLen \in Nat
      /\ tables \subseteq Tables
      /\ DOMAIN pt \subseteq Nat /\ \A p \in DOMAIN pt : pt[p] \in Nat
      /\ todo \in Seq(Calls)
      /\ panicked \in BOOLEAN /\ disciplined \in BOOLEAN
      /\ grants \in Seq(Grants) /\ wiped \subseteq Nat
  BY ConstantsOK DEF TypeOK, Grants
<1> DEFINE Typed(n, ts, m, h, td, pa, gs, di, wi) ==
             /\ n \in Nat /\ ts \subseteq Tables
             /\ DOMAIN m \subseteq Nat /\ \A p \in DOMAIN m : m[p] \in Nat
             /\ h \in 0 .. HeapLen /\ td \in Seq(Calls)
             /\ pa \in BOOLEAN /\ di \in BOOLEAN
             /\ gs \in Seq(Grants) /\ wi \subseteq Nat
<1>a. SUFFICES /\ Typed(next', tables', pt', heap', todo', panicked', grants', disciplined', wiped')
               /\ \/ todo' \in Seq(ServiceCalls)
                  \/ heap' < HeapLen /\ \E c \in Calls : c.op = "heap" /\ todo' = <<c>>
  BY DEF TypeOK, HeapCall, Grants
<1>b. \A n \in Slots : nth(n) \in Nat
  BY NthType
<1>c. ASSUME todo # <<>> PROVE Head(todo) \in Calls /\ Tail(todo) \in Seq(ServiceCalls)
  BY <1>0, <1>c, TailTyped
<1>d. <<>> \in Seq(ServiceCalls) /\ Seq(ServiceCalls) \subseteq Seq(Calls)
  BY EmptySeq, ServiceCallsTyped
<1>e. Offset \in Nat /\ HeapBase \in Nat
  BY ConstantsOK
<1> HIDE DEF Tables
<1>1. CASE HeapAlloc
  <2>1. AllocateFrame("heap") /\ todo = <<>> /\ heap < HeapLen
        /\ UNCHANGED <<tables, pt, heap, disciplined, wiped>>
    BY <1>1 DEF HeapAlloc, Running, HeapPagesLeft
  <2>2. next' \in Nat /\ panicked' \in BOOLEAN /\ grants' \in Seq(Grants)
    BY <2>1, AllocateFrameTyped, UsesTyped
  <2>3. CASE HasNth(next)
    <3> DEFINE c == [op |-> "heap", page |-> HeapBase + heap, frame |-> nth(next)]
    <3>1. todo' = <<c>>
      BY <1>1, <2>3 DEF HeapAlloc
    <3>2. c \in Calls /\ c.op = "heap"
      BY <2>3, <1>0, <1>b, <1>e DEF Calls, HasNth
    <3>3. todo' \in Seq(Calls)
      BY <3>1, <3>2
    <3> QED BY <3>1, <3>2, <3>3, <2>1, <2>2, <1>0
  <2>4. CASE ~HasNth(next)
    <3>1. todo' = <<>>
      BY <1>1, <2>4 DEF HeapAlloc
    <3> QED BY <3>1, <2>1, <2>2, <1>0, <1>d
  <2> QED BY <2>3, <2>4
<1>2. CASE HeapMap
  <2>1. todo # <<>> /\ Head(todo).op = "heap" /\ heap' \in {heap, heap + 1} /\ todo' = Tail(todo)
        /\ UNCHANGED <<disciplined, wiped>>
    BY <1>2 DEF HeapMap
  <2>2. heap < HeapLen
    <3>1. CASE todo \in Seq(ServiceCalls)
      <4>1. Head(todo) \in ServiceCalls
        BY <2>1, <3>1, HeadTailProperties
      <4> QED BY <4>1, <2>1 DEF ServiceCalls
    <3> QED BY <3>1 DEF HeapCall
  <2>3. heap' \in 0 .. HeapLen
    BY <2>1, <2>2, <1>0
  <2>4. CASE Mapped(Head(todo).page)
    <3>1. panicked' = TRUE /\ UNCHANGED <<next, tables, pt, grants>>
      BY <1>2, <2>4 DEF HeapMap
    <3> QED BY <3>1, <2>1, <2>3, <1>0, <1>c, <1>d
  <2>5. CASE ~Mapped(Head(todo).page)
    <3>1. MapTo(Head(todo).page, Head(todo).frame)
      BY <1>2, <2>5 DEF HeapMap
    <3>2. Head(todo).page \in Nat /\ Head(todo).frame \in Nat
      BY <2>1, <1>c, CallFields
    <3>3. /\ next' \in Nat /\ panicked' \in BOOLEAN /\ grants' \in Seq(Grants)
          /\ tables' \subseteq Tables
          /\ DOMAIN pt' \subseteq Nat /\ \A q \in DOMAIN pt' : pt'[q] \in Nat
      BY <3>1, <3>2, MapToTyped DEF Tables
    <3> QED BY <3>3, <2>1, <2>3, <1>0, <1>c, <1>d
  <2> QED BY <2>4, <2>5
<1>3. CASE MapPage
  <2>1. todo # <<>> /\ Head(todo).op = "map" /\ todo' = Tail(todo)
        /\ UNCHANGED <<heap, disciplined, wiped>>
    BY <1>3 DEF MapPage
  <2>2. CASE Mapped(Head(todo).page)
    <3>1. UNCHANGED <<next, tables, pt, grants, panicked>>
      BY <1>3, <2>2 DEF MapPage
    <3> QED BY <3>1, <2>1, <1>0, <1>c, <1>d
  <2>3. CASE ~Mapped(Head(todo).page)
    <3>1. MapTo(Head(todo).page, Head(todo).frame)
      BY <1>3, <2>3 DEF MapPage
    <3>2. Head(todo).page \in Nat /\ Head(todo).frame \in Nat
      BY <2>1, <1>c, CallFields
    <3>3. /\ next' \in Nat /\ panicked' \in BOOLEAN /\ grants' \in Seq(Grants)
          /\ tables' \subseteq Tables
          /\ DOMAIN pt' \subseteq Nat /\ \A q \in DOMAIN pt' : pt'[q] \in Nat
      BY <3>1, <3>2, MapToTyped DEF Tables
    <3> QED BY <3>3, <2>1, <1>0, <1>c, <1>d
  <2> QED BY <2>2, <2>3
<1>4. CASE UnmapPage
  <2>1. todo # <<>> /\ todo' = Tail(todo)
        /\ UNCHANGED <<next, tables, heap, panicked, grants, disciplined, wiped>>
        /\ pt' = IF Head(todo).page \in HugePages THEN pt
                 ELSE [q \in DOMAIN pt \ {Head(todo).page} |-> pt[q]]
    BY <1>4 DEF UnmapPage
  <2>2. DOMAIN pt' \subseteq Nat /\ \A q \in DOMAIN pt' : pt'[q] \in Nat
    BY <2>1, <1>0
  <2> QED BY <2>1, <2>2, <1>0, <1>c, <1>d
<1>5. CASE ZeroFill
  <2>1. /\ todo # <<>> /\ Head(todo).op = "fill" /\ todo' = Tail(todo)
        /\ UNCHANGED <<next, tables, pt, heap, grants, disciplined>>
    BY <1>5 DEF ZeroFill
  <2>2. Head(todo).slot \in Slots /\ Head(todo).use \in {"dma4", "dma8"}
    BY <2>1, <1>c, CallFields
  <2>3. nth(Head(todo).slot) \in Nat /\ FillPages[Head(todo).use] \in Nat
    BY <2>2, <1>b, ConstantsOK, Zenon
  <2> DEFINE f      == nth(Head(todo).slot)
             range  == f .. (f + FillPages[Head(todo).use] - 1)
             filled == {g \in range : \A h \in f .. g : Mapped(Window(h))}
             behind == {IF Window(g) \in HugePages THEN g ELSE pt[Window(g)] : g \in filled}
  <2>4. wiped' \subseteq wiped \cup behind
    BY <1>5 DEF ZeroFill
  <2>5. panicked' = (filled # range)
    BY <1>5 DEF ZeroFill
  <2>6. ASSUME NEW g \in filled
        PROVE  (IF Window(g) \in HugePages THEN g ELSE pt[Window(g)]) \in Nat
    <3>1. g \in Nat /\ g \in f .. g
      BY <2>3
    <3>2. Mapped(Window(g))
      BY <3>1
    <3> QED BY <3>1, <3>2, <1>0 DEF Mapped
  <2>7. wiped' \subseteq Nat
    <3>1. behind \subseteq Nat
      BY <2>6
    <3> HIDE DEF behind
    <3> QED BY <3>1, <2>4, <1>0
  <2>8. panicked' \in BOOLEAN
    BY <2>5
  <2> QED BY <2>1, <2>7, <2>8, <1>0, <1>c, <1>d, Zenon
<1>18. CASE Touch
  <2>1. /\ todo # <<>> /\ Head(todo).op \in {"read", "write"}
        /\ UNCHANGED <<next, tables, pt, heap, grants, disciplined, wiped>>
    BY <1>18 DEF Touch
  <2>2. panicked' \in BOOLEAN
    BY <1>18 DEF Touch
  <2>3. Head(todo).page \in Nat
    BY <2>1, <1>c, CallFields
  <2> DEFINE again == <<Map(Head(todo).page, Head(todo).page)>>
  <2>4. again \in Seq(ServiceCalls)
    BY <2>3, ServiceCallsTyped, SMTT(30)
  <2>5. todo' = again \o Tail(todo) \/ todo' = <<>> \o Tail(todo)
    BY <1>18 DEF Touch
  <2> HIDE DEF again
  <2>6. todo' \in Seq(ServiceCalls)
    <3> DEFINE rest == Tail(todo)
    <3>1. rest \in Seq(ServiceCalls)
      BY <2>1, <1>c, <1>d
    <3>2. <<>> \in Seq(ServiceCalls)
      BY EmptySeq
    <3> HIDE DEF rest
    <3>3. again \o rest \in Seq(ServiceCalls) /\ <<>> \o rest \in Seq(ServiceCalls)
      BY <2>4, <3>1, <3>2, ConcatProperties
    <3> QED BY <2>5, <3>3, Zenon DEF rest
  <2> QED BY <2>1, <2>2, <2>6, <1>0, <1>d
<1>6. CASE AddrAllocFrame
  <2>1. AllocateFrame("object") /\ todo # <<>>
        /\ UNCHANGED <<tables, pt, heap, disciplined, wiped>>
    BY <1>6 DEF AddrAllocFrame
  <2>2. next' \in Nat /\ panicked' \in BOOLEAN /\ grants' \in Seq(Grants)
    BY <2>1, AllocateFrameTyped, UsesTyped
  <2>3. todo' \in Seq(ServiceCalls)
    <3>1. CASE HasNth(next)
      <4>1. Map(Window(nth(next)), nth(next)) \in ServiceCalls
        BY <3>1, <1>b, <1>e, ServiceCallsTyped DEF HasNth, Window
      <4>2. todo' = <<Map(Window(nth(next)), nth(next))>> \o Tail(todo)
        BY <1>6, <3>1 DEF AddrAllocFrame
      <4>3. <<Map(Window(nth(next)), nth(next))>> \in Seq(ServiceCalls)
        BY <4>1
      <4> QED BY <4>2, <4>3, <2>1, <1>c, ConcatProperties
    <3>2. CASE ~HasNth(next)
      BY <1>6, <3>2, <1>d DEF AddrAllocFrame
    <3> QED BY <3>1, <3>2
  <2> QED BY <2>1, <2>2, <2>3, <1>0, <1>d
<1>f. ASSUME HasNth(next), NEW use \in {"dma4", "dma8"}
      PROVE  PmmCalls(use) \in Seq(ServiceCalls)
  <2>1. nth(next) \in Nat /\ next \in Slots
    BY <1>f, <1>b DEF HasNth
  <2>2. /\ Map(Window(nth(next)), nth(next)) \in ServiceCalls
        /\ Map(Window(nth(next) + 1), nth(next) + 1) \in ServiceCalls
        /\ Fill(next, use) \in ServiceCalls
    BY <2>1, <1>e, ServiceCallsTyped DEF Window
  <2>3. /\ <<Map(Window(nth(next)), nth(next))>> \in Seq(ServiceCalls)
        /\ <<Map(Window(nth(next)), nth(next)), Map(Window(nth(next) + 1), nth(next) + 1)>>
              \in Seq(ServiceCalls)
        /\ <<Fill(next, use)>> \in Seq(ServiceCalls)
    BY <2>2
  <2> QED BY <2>3, ConcatProperties DEF PmmCalls
<1>7. ASSUME NEW use \in {"dma4", "dma8"}, PmmAlloc(use)
      PROVE  /\ Typed(next', tables', pt', heap', todo', panicked', grants', disciplined', wiped')
             /\ todo' \in Seq(ServiceCalls)
  <2>1. AllocateFrame(use) /\ UNCHANGED <<tables, pt, heap, disciplined, wiped>>
    BY <1>7 DEF PmmAlloc
  <2>2. next' \in Nat /\ panicked' \in BOOLEAN /\ grants' \in Seq(Grants)
    BY <2>1, AllocateFrameTyped DEF Uses
  <2>3. todo' \in Seq(ServiceCalls)
    BY <1>7, <1>d, <1>f DEF PmmAlloc
  <2> QED BY <2>1, <2>2, <2>3, <1>0, <1>d
<1>8. CASE PortStart
  <2>1. AllocateFrame("dma8") /\ UNCHANGED <<tables, pt, heap, disciplined, wiped>>
    BY <1>8 DEF PortStart
  <2>2. next' \in Nat /\ panicked' \in BOOLEAN /\ grants' \in Seq(Grants)
    BY <2>1, AllocateFrameTyped DEF Uses
  <2>3. todo' \in Seq(ServiceCalls)
    <3>1. CASE HasNth(next)
      <4> DEFINE swapped == <<Map(nth(next), Window(nth(next))),
                              Map(nth(next) + 1, Window(nth(next) + 1))>>
      <4>1. nth(next) \in Nat
        BY <3>1, <1>b DEF HasNth
      <4>2. /\ Map(nth(next), Window(nth(next))) \in ServiceCalls
            /\ Map(nth(next) + 1, Window(nth(next) + 1)) \in ServiceCalls
        BY <4>1, <1>e, ServiceCallsTyped DEF Window
      <4>3. swapped \in Seq(ServiceCalls)
        BY <4>2
      <4>4. PmmCalls("dma8") \in Seq(ServiceCalls)
        BY <3>1, <1>f
      <4>5. todo' = PmmCalls("dma8") \o swapped
        BY <1>8, <3>1 DEF PortStart
      <4> HIDE DEF swapped
      <4> QED BY <4>3, <4>4, <4>5, ConcatProperties
    <3>2. CASE ~HasNth(next)
      BY <1>8, <3>2, <1>d DEF PortStart
    <3> QED BY <3>1, <3>2
  <2> QED BY <2>1, <2>2, <2>3, <1>0, <1>d
<1>g. ASSUME NEW calls \in Seq(ServiceCalls), todo' = calls,
             UNCHANGED <<next, tables, pt, heap, panicked, grants, disciplined, wiped>>
      PROVE  /\ Typed(next', tables', pt', heap', todo', panicked', grants', disciplined', wiped')
             /\ todo' \in Seq(ServiceCalls)
  BY <1>g, <1>0, <1>d
<1>9. ASSUME NEW n \in Counts, AddrAlloc(n)
      PROVE  /\ Typed(next', tables', pt', heap', todo', panicked', grants', disciplined', wiped')
             /\ todo' \in Seq(ServiceCalls)
  <2>1. n \in Nat /\ [i \in 1 .. n |-> Object] \in [1 .. n -> ServiceCalls]
    BY ConstantsOK, ServiceCallsTyped
  <2>2. [i \in 1 .. n |-> Object] \in Seq(ServiceCalls)
    BY <2>1, FunSeq
  <2> QED BY <2>2, <1>9, <1>g, Zenon DEF AddrAlloc
<1>10. ASSUME NEW n \in Counts, PhysAlloc(n)
       PROVE  /\ Typed(next', tables', pt', heap', todo', panicked', grants', disciplined', wiped')
              /\ HeapCall'
  <2>0. n \in Nat /\ UNCHANGED <<tables, pt, heap, panicked, disciplined, wiped>>
    BY <1>10, ConstantsOK DEF PhysAlloc, SlotsTaken
  <2>1. CASE HasNth(next) /\ HasNth(next + n)
    <3> DEFINE lo    == nth(next)
    <3> DEFINE pages == ((next + (n + 1)) \div PageBytes) + 1
    <3> DEFINE count == nth(next + n) - lo + 1
    <3> DEFINE len   == IF pages < count THEN pages ELSE count
    <3> DEFINE maps  == [i \in 1 .. len |-> Map(Window(lo + i - 1), lo + i - 1)]
    <3>1. /\ next' = next + (n + 1)
          /\ Log(Grant(next, next + n, "phys"))
          /\ todo' = maps
      BY <1>10, <2>1 DEF PhysAlloc, SlotsTaken
    <3>2. lo \in Nat /\ nth(next + n) \in Nat
      BY <2>1, <1>b DEF HasNth
    <3>3. lo <= nth(next + n)
      <4>1. CASE n = 0
        BY <4>1, <3>2, <1>0
      <4>2. CASE n # 0
        BY <4>2, <2>0, <2>1, <3>2, <1>0, NthMonotonic DEF HasNth
      <4> QED BY <4>1, <4>2
    <3>4. len \in Nat
      <4>1. pages \in Nat
        <5> DEFINE slots == next + (n + 1)
        <5>1. slots \in Nat /\ PageBytes \in Nat \ {0}
          BY <2>0, <1>0, ConstantsOK
        <5> HIDE DEF slots
        <5>2. slots \div PageBytes \in Nat
          BY <5>1, QuotientType
        <5> QED BY <5>2 DEF slots
      <4>2. count \in Nat
        BY <3>2, <3>3
      <4> HIDE DEF pages, count
      <4> QED BY <4>1, <4>2
    <3>5. maps \in Seq(ServiceCalls)
      <4>1. \A i \in 1 .. len : Map(Window(lo + i - 1), lo + i - 1) \in ServiceCalls
        <5> HIDE DEF len, lo
        <5> QED BY <3>2, <3>4, <1>e, ServiceCallsTyped DEF Window
      <4>2. maps \in [1 .. len -> ServiceCalls]
        BY <4>1
      <4> HIDE DEF maps, len
      <4> QED BY <4>2, <3>4, FunSeq
    <3>6. next' \in Nat
      BY <3>1, <2>0, <1>0
    <3>7. grants' \in Seq(Grants)
      <4>1. Grant(next, next + n, "phys") \in Grants
        BY <2>0, <1>0 DEF Grant, Grants, Uses
      <4> QED BY <4>1, <3>1, <1>0, LogTyped
    <3> HIDE DEF maps
    <3> QED BY <3>1, <3>5, <3>6, <3>7, <2>0, <1>0, <1>d, Zenon DEF HeapCall
  <2>2. CASE ~(HasNth(next) /\ HasNth(next + n))
    <3>1. UNCHANGED <<next, grants, todo>>
      BY <1>10, <2>2 DEF PhysAlloc, SlotsTaken
    <3> QED BY <3>1, <2>0, <1>0 DEF HeapCall
  <2> QED BY <2>1, <2>2
<1>11. ASSUME NEW a \in FreeAddrs, NEW b \in FreeAddrs, PhysFree(a, b)
       PROVE  /\ Typed(next', tables', pt', heap', todo', panicked', grants', disciplined', wiped')
              /\ HeapCall'
  <2>0. /\ a \in Nat /\ b \in Nat /\ a <= b
        /\ UNCHANGED <<tables, pt, heap, todo, wiped>>
    BY <1>11, ConstantsOK DEF PhysFree, FreePanics, FreedSlots
  <2>1. CASE a = 0 \/ b - a + 1 > next
    <3>1. panicked' = TRUE /\ next' \in {next, 0} /\ UNCHANGED <<grants, disciplined>>
      BY <1>11, <2>1 DEF PhysFree, FreePanics, FreedSlots
    <3> QED BY <3>1, <2>0, <1>0 DEF HeapCall
  <2>2. CASE ~(a = 0 \/ b - a + 1 > next)
    <3>1. /\ next' = next - (b - a + 1)
          /\ grants' = IF IsNewest(a, b) THEN SubSeq(grants, 1, Len(grants) - 1) ELSE <<>>
          /\ disciplined' = (disciplined /\ IsNewest(a, b))
          /\ UNCHANGED panicked
      BY <1>11, <2>2 DEF PhysFree, FreePanics, FreedSlots
    <3>2. next' \in Nat
      BY <3>1, <2>0, <2>2, <1>0
    <3>3. grants' \in Seq(Grants)
      <4>1. Len(grants) \in Nat /\ \A i \in 1 .. (Len(grants) - 1) : grants[i] \in Grants
        BY <1>0, LenProperties, ElementOfSeq
      <4>2. SubSeq(grants, 1, Len(grants) - 1) \in Seq(Grants)
        BY <4>1, SubSeqProperties
      <4> QED BY <4>2, <3>1, EmptySeq
    <3>4. disciplined' \in BOOLEAN /\ panicked' \in BOOLEAN
      BY <3>1, <1>0
    <3> QED BY <3>2, <3>3, <3>4, <2>0, <1>0 DEF HeapCall
  <2> QED BY <2>1, <2>2
<1>12. ASSUME NEW calls \in Seq(ServiceCalls), Call(calls)
       PROVE  /\ Typed(next', tables', pt', heap', todo', panicked', grants', disciplined', wiped')
              /\ todo' \in Seq(ServiceCalls)
  BY <1>12, <1>g DEF Call
<1>h. \A p, f \in Nat : <<Map(p, f)>> \in Seq(ServiceCalls) /\ <<Unmap(p)>> \in Seq(ServiceCalls)
  BY ServiceCallsTyped
<1>13. ASSUME NEW f \in Addrs, MapDevice(f) \/ UnmapDevice(f) \/ AmlRead(f) \/ AmlWrite(f)
       PROVE  /\ Typed(next', tables', pt', heap', todo', panicked', grants', disciplined', wiped')
              /\ todo' \in Seq(ServiceCalls)
  <2>1. f \in Nat /\ Window(f) \in Nat /\ Window(f) + 1 \in Nat
    BY <1>e, ConstantsOK DEF Window
  <2>2. <<Map(Window(f), f)>> \in Seq(ServiceCalls) /\ <<Unmap(Window(f))>> \in Seq(ServiceCalls)
    BY <2>1, <1>h
  <2>3. /\ Map(Window(f) + 1, f) \in ServiceCalls
        /\ Read(Window(f)) \in ServiceCalls /\ Write(Window(f)) \in ServiceCalls
    BY <2>1, ServiceCallsTyped
  <2>4. /\ <<Map(Window(f) + 1, f), Read(Window(f))>> \in Seq(ServiceCalls)
        /\ <<Map(Window(f) + 1, f), Write(Window(f))>> \in Seq(ServiceCalls)
    BY <2>3
  <2> QED BY <2>2, <2>4, <1>12, <1>13, Zenon DEF MapDevice, UnmapDevice, AmlRead, AmlWrite
<1>14. ASSUME NEW f \in Addrs, NEW n \in Counts, XhciMap(f, n) \/ XhciUnmap(f, n)
       PROVE  /\ Typed(next', tables', pt', heap', todo', panicked', grants', disciplined', wiped')
              /\ todo' \in Seq(ServiceCalls)
  <2> DEFINE maps   == [i \in 1 .. n |-> Map(f + i - 1, f + i - 1)]
  <2> DEFINE unmaps == [i \in 1 .. n - 1 |-> Unmap(f + i)]
  <2>1. f \in Nat /\ n \in Nat /\ n > 0
    BY <1>14, ConstantsOK DEF XhciMap, XhciUnmap
  <2>2. \A i \in 1 .. n : Map(f + i - 1, f + i - 1) \in ServiceCalls
    BY <2>1, ServiceCallsTyped
  <2>3. \A i \in 1 .. n - 1 : Unmap(f + i) \in ServiceCalls
    BY <2>1, ServiceCallsTyped
  <2>4. maps \in [1 .. n -> ServiceCalls] /\ unmaps \in [1 .. n - 1 -> ServiceCalls]
    BY <2>2, <2>3
  <2>5. n - 1 \in Nat
    BY <2>1
  <2>6. Call(maps) \/ Call(IF n > 1 THEN unmaps ELSE <<Unmap(f)>>)
    BY <1>14 DEF XhciMap, XhciUnmap
  <2> HIDE DEF maps, unmaps
  <2>7. maps \in Seq(ServiceCalls) /\ unmaps \in Seq(ServiceCalls)
    BY <2>4, <2>5, <2>1, FunSeq
  <2>8. <<Unmap(f)>> \in Seq(ServiceCalls)
    BY <2>1, <1>h
  <2>9. (IF n > 1 THEN unmaps ELSE <<Unmap(f)>>) \in Seq(ServiceCalls)
    BY <2>7, <2>8
  <2> QED BY <2>6, <2>7, <2>9, <1>12, Zenon
<1>15. ASSUME NEW f \in Addrs, Access(f) \/ Access(Window(f))
       PROVE  /\ Typed(next', tables', pt', heap', todo', panicked', grants', disciplined', wiped')
              /\ todo' \in Seq(ServiceCalls)
  <2>1. f \in Nat /\ Window(f) \in Nat
    BY <1>e, ConstantsOK DEF Window
  <2>2. \A p \in Nat : <<Read(p)>> \in Seq(ServiceCalls) /\ <<Write(p)>> \in Seq(ServiceCalls)
    BY ServiceCallsTyped
  <2> QED BY <2>1, <2>2, <1>12, <1>15, Zenon DEF Access
<1>16. CASE UNCHANGED vars
  <2>1. HeapCall' <=> HeapCall
    BY <1>16 DEF vars, HeapCall
  <2> QED BY <2>1, <1>16, <1>0 DEF vars, HeapCall
<1>17. CASE PanicLoop
  BY <1>17, <1>16 DEF PanicLoop
<1>19. CASE PhysMap
  BY <1>19, <1>0 DEF PhysMap, HeapCall
<1> HIDE DEF Typed
<1> QED
  BY <1>1, <1>2, <1>3, <1>4, <1>5, <1>6, <1>7, <1>8, <1>9, <1>10, <1>11, <1>13, <1>14,
     <1>15, <1>16, <1>17, <1>18, <1>19
  DEF Next, HeapInit, Continue, HeapCall

-----------------------------------------------------------------------------
(* The tiling of the slots. *)

(* allocate_frame extends the tiling by the slot `next'. *)
LEMMA AllocateFrameTiles ==
  ASSUME TypeOK, SlotsTiled, ~panicked, NEW use \in Uses \ {"phys"}, AllocateFrame(use),
         UNCHANGED disciplined
  PROVE  SlotsTiled'
<1> SUFFICES ASSUME disciplined', ~panicked' PROVE Tiled(next', grants')
  BY DEF SlotsTiled
<1>1. next \in Nat /\ grants \in Seq(Grants)
  BY DEF TypeOK, Grants
<1>2. disciplined /\ HasNth(next) /\ Tiled(next, grants)
  BY Zenon DEF AllocateFrame, SlotsTiled
<1> DEFINE g == Grant(next, next, use)
<1>3. next' = next + 1 /\ grants' = Append(grants, g)
  BY <1>2 DEF AllocateFrame, Log
<1>4. /\ g \in Grants /\ g.first = next /\ g.last = next /\ g.use # "phys"
      /\ g.first <= g.last
  BY <1>1 DEF Grant, Grants
<1>5. g.first \in Slots /\ g.last \in Slots /\ g.first .. g.last \subseteq Slots
  BY <1>1, <1>2, <1>4 DEF HasNth
<1> HIDE DEF g
<1> QED BY <1>1, <1>2, <1>3, <1>4, <1>5, AppendTiled

(* map_to extends it by the slots of the page tables it creates. *)
LEMMA MapToTiles ==
  ASSUME IteratorOK, TypeOK, SlotsTiled, ~panicked, NEW p \in Nat, NEW f \in Nat, MapTo(p, f),
         UNCHANGED disciplined
  PROVE  SlotsTiled'
<1> SUFFICES ASSUME disciplined', ~panicked' PROVE Tiled(next', grants')
  BY DEF SlotsTiled
<1> DEFINE k == Cardinality(Missing(p))
<1>1. next \in Nat /\ grants \in Seq(Grants) /\ k \in Nat
  BY TablesOfFinite DEF TypeOK, Grants
<1> DEFINE g == Grant(next, next + k - 1, "table")
<1>2. disciplined /\ Tiled(next, grants)
  BY DEF SlotsTiled
<1> HIDE DEF k
<1>3. /\ \A i \in next .. (next + k - 1) : HasNth(i)
      /\ next' = next + k
      /\ IF k = 0 THEN UNCHANGED grants ELSE Log(g)
  BY DEF MapTo, k
<1>4. CASE k = 0
  BY <1>1, <1>2, <1>3, <1>4
<1>5. CASE k # 0
  <2>1. grants' = Append(grants, g)
    BY <1>2, <1>3, <1>5 DEF Log
  <2>2. /\ g \in Grants /\ g.first = next /\ g.last = next + k - 1 /\ g.use # "phys"
        /\ g.first <= g.last
    BY <1>1, <1>5 DEF Grant, Grants, Uses
  <2>3. g.first .. g.last \subseteq Slots /\ g.first \in Slots /\ g.last \in Slots
    <3>1. next .. (next + k - 1) \subseteq Slots
      BY <1>3 DEF HasNth
    <3>2. next \in next .. (next + k - 1) /\ next + k - 1 \in next .. (next + k - 1)
      BY <1>1, <1>5
    <3> HIDE DEF g
    <3> QED BY <3>1, <3>2, <2>2
  <2>4. next' = g.last + 1
    BY <1>1, <1>3, <2>2
  <2> HIDE DEF g
  <2> QED BY <1>1, <1>2, <2>1, <2>2, <2>3, <2>4, AppendTiled
<1> QED BY <1>4, <1>5

(* allocate_multiple extends it by size + 1 slots. *)
LEMMA PhysAllocTiles ==
  ASSUME TypeOK, SlotsTiled, NEW n \in Counts, PhysAlloc(n)
  PROVE  SlotsTiled'
<1> SUFFICES ASSUME disciplined', ~panicked' PROVE Tiled(next', grants')
  BY DEF SlotsTiled
<1>1. next \in Nat /\ grants \in Seq(Grants) /\ n \in Nat
  BY ConstantsOK DEF TypeOK, Grants
<1>2. disciplined /\ Tiled(next, grants)
  BY DEF SlotsTiled, PhysAlloc
<1>3. CASE HasNth(next) /\ HasNth(next + n)
  <2> DEFINE g == Grant(next, next + n, "phys")
  <2>1. next' = next + (n + 1) /\ grants' = Append(grants, g)
    BY <1>2, <1>3 DEF PhysAlloc, SlotsTaken, Log
  <2>2. /\ g \in Grants /\ g.first = next /\ g.last = next + n /\ g.use = "phys"
        /\ g.first <= g.last
    BY <1>1 DEF Grant, Grants, Uses
  <2> HIDE DEF g
  <2>3. g.first \in Slots /\ g.last \in Slots
    BY <1>3, <2>2 DEF HasNth
  <2>4. next' = g.last + 1
    BY <1>1, <2>1, <2>2
  <2> QED BY <1>1, <1>2, <2>1, <2>2, <2>3, <2>4, AppendTiled
<1>4. CASE ~(HasNth(next) /\ HasNth(next + n))
  <2>1. UNCHANGED <<next, grants>>
    BY <1>4 DEF PhysAlloc, SlotsTaken
  <2> QED BY <2>1, <1>2
<1> QED BY <1>3, <1>4

(* A physfree that returns the newest grant removes its last tile. *)
LEMMA PhysFreeTiles ==
  ASSUME TypeOK, SlotsTiled, NEW a \in FreeAddrs, NEW b \in FreeAddrs, PhysFree(a, b)
  PROVE  SlotsTiled'
<1> SUFFICES ASSUME disciplined', ~panicked' PROVE Tiled(next', grants')
  BY DEF SlotsTiled
<1>1. /\ next \in Nat /\ grants \in Seq(Grants) /\ a \in Nat /\ b \in Nat
      /\ disciplined \in BOOLEAN /\ panicked \in BOOLEAN
  BY ConstantsOK DEF TypeOK, Grants
<1>2. ~(a = 0 \/ b - a + 1 > next)
  BY Zenon DEF PhysFree, FreePanics, FreedSlots
<1>3. /\ next' = next - (b - a + 1)
      /\ grants' = IF IsNewest(a, b) THEN SubSeq(grants, 1, Len(grants) - 1) ELSE <<>>
  BY <1>2 DEF PhysFree, FreePanics, FreedSlots
<1>4. disciplined' = (disciplined /\ IsNewest(a, b)) /\ UNCHANGED panicked
  BY <1>2, Zenon DEF PhysFree, FreePanics, FreedSlots
<1>5. disciplined /\ IsNewest(a, b) /\ ~panicked
  BY <1>4, Zenon
<1>6. Tiled(next, grants)
  BY <1>5 DEF SlotsTiled
<1> DEFINE g == grants[Len(grants)]
<1>7. grants # <<>> /\ b - a = g.last - g.first
  BY <1>5 DEF IsNewest
<1>8. next = g.last + 1
  BY <1>6, <1>7 DEF Tiled
<1>9. g \in Grants
  <2>1. Len(grants) \in 1 .. Len(grants)
    BY <1>1, <1>7, LenProperties, EmptyLen
  <2> QED BY <2>1, <1>1, ElementOfSeq
<1>10. next' = g.first
  <2>1. g.first \in Nat /\ g.last \in Nat
    BY <1>9 DEF Grants
  <2>2. next' = next - (b - a + 1) /\ b - a = g.last - g.first
    BY <1>3, <1>7, Zenon
  <2>3. next \in Nat /\ a \in Nat /\ b \in Nat
    BY <1>1, Zenon
  <2>4. ASSUME NEW n \in Nat, NEW x \in Nat, NEW y \in Nat, NEW lo \in Nat, NEW hi \in Nat,
               n = hi + 1, y - x = hi - lo
        PROVE  n - (y - x + 1) = lo
    BY <2>4
  <2>5. next - (b - a + 1) = g.first
    <3> HIDE DEF g
    <3> QED BY <2>1, <2>2, <2>3, <2>4, <1>8
  <2> QED BY <2>2, <2>5
<1> QED BY <1>1, <1>3, <1>5, <1>6, <1>7, <1>10, FrontTiled

(* Every step of the kernel keeps the tiling. *)
LEMMA TileStep ==
  ASSUME IteratorOK, TypeOK, HeapCall, SlotsTiled, [Next]_vars
  PROVE  SlotsTiled'
<1>1. ASSUME UNCHANGED <<next, grants, disciplined, panicked>> PROVE SlotsTiled'
  BY <1>1 DEF SlotsTiled
<1>2. ASSUME ~panicked, NEW use \in Uses \ {"phys"}, AllocateFrame(use), UNCHANGED disciplined
      PROVE  SlotsTiled'
  BY <1>2, AllocateFrameTiles
<1>3. {"heap", "dma4", "dma8", "object"} \subseteq Uses \ {"phys"}
  BY DEF Uses
<1>4. ASSUME todo # <<>>, Head(todo).op \in {"map", "heap"}
      PROVE  Head(todo).page \in Nat /\ Head(todo).frame \in Nat
  <2>1. todo \in Seq(Calls)
    BY DEF TypeOK
  <2> QED BY <2>1, <1>4, TailTyped, CallFields
<1>5. CASE HeapAlloc
  BY <1>5, <1>2, <1>3 DEF HeapAlloc, Running, HeapPagesLeft
<1>6. CASE HeapMap
  <2>1. CASE Mapped(Head(todo).page)
    BY <1>6, <2>1 DEF HeapMap, SlotsTiled
  <2>2. CASE ~Mapped(Head(todo).page)
    BY <1>6, <2>2, <1>4, MapToTiles DEF HeapMap
  <2> QED BY <2>1, <2>2, Zenon
<1>7. CASE MapPage
  <2>1. CASE Mapped(Head(todo).page)
    BY <1>7, <2>1, <1>1 DEF MapPage
  <2>2. CASE ~Mapped(Head(todo).page)
    BY <1>7, <2>2, <1>4, MapToTiles DEF MapPage
  <2> QED BY <2>1, <2>2
<1>8. CASE UnmapPage
  BY <1>8, <1>1 DEF UnmapPage
<1>9. CASE ZeroFill \/ Touch \/ PhysMap
  BY <1>9, Zenon DEF ZeroFill, Touch, PhysMap, SlotsTiled
<1>10. CASE AddrAllocFrame
  BY <1>10, <1>2, <1>3 DEF AddrAllocFrame
<1>11. ASSUME NEW use \in {"dma4", "dma8"}, PmmAlloc(use) PROVE SlotsTiled'
  BY <1>11, <1>2, <1>3 DEF PmmAlloc, Ready, Running
<1>12. CASE PortStart
  BY <1>12, <1>2, <1>3 DEF PortStart, Ready, Running
<1>13. ASSUME NEW n \in Counts, AddrAlloc(n) \/ PhysAlloc(n) PROVE SlotsTiled'
  BY <1>13, <1>1, PhysAllocTiles DEF AddrAlloc
<1>14. ASSUME NEW a \in FreeAddrs, NEW b \in FreeAddrs, PhysFree(a, b) PROVE SlotsTiled'
  BY <1>14, PhysFreeTiles
<1>15. ASSUME NEW calls, Call(calls) PROVE SlotsTiled'
  BY <1>15, <1>1 DEF Call
<1>16. CASE UNCHANGED vars
  BY <1>16, <1>1 DEF vars
<1>17. CASE PanicLoop
  BY <1>17, <1>16 DEF PanicLoop
<1> QED
  BY <1>5, <1>6, <1>7, <1>8, <1>9, <1>10, <1>11, <1>12, <1>13, <1>14, <1>15, <1>16, <1>17, Zenon
  DEF Next, HeapInit, Continue, MapDevice, UnmapDevice, AmlRead, AmlWrite, XhciMap, XhciUnmap, Access

-----------------------------------------------------------------------------

(* The invariant holds initially. *)
LEMMA Start ==
  ASSUME Init
  PROVE  TypeOK /\ HeapCall /\ SlotsTiled
<1>1. HeapCall
  BY EmptySeq DEF Init, HeapCall
<1>2. TypeOK
  <2>1. <<>> \in Seq(Calls) /\ <<>> \in Seq([first : Nat, last : Nat, use : Uses])
    BY EmptySeq
  <2>2. /\ next \in Nat /\ tables \subseteq (DOMAIN Spans) \X Int
        /\ heap \in 0 .. HeapLen /\ wiped \subseteq Nat
    BY ConstantsOK DEF Init
  <2>3. DOMAIN pt = {} /\ panicked \in BOOLEAN /\ disciplined \in BOOLEAN
    BY Zenon DEF Init
  <2>4. todo = <<>> /\ grants = <<>>
    BY DEF Init
  <2> QED BY <2>1, <2>2, <2>3, <2>4 DEF TypeOK
<1>3. SlotsTiled
  BY DEF Init, SlotsTiled, Tiled
<1> QED BY <1>1, <1>2, <1>3

(* map_page! never redirects a mapped page, for every sequence of calls. *)
THEOREM StableMappings == Spec => MappingsStable
<1> DEFINE Stable == \A p \in DOMAIN pt : p \in DOMAIN pt' => pt'[p] = pt[p]
<1>1. ASSUME NEW q, NEW f, ~Mapped(q), MapTo(q, f) PROVE Stable
  BY <1>1 DEF MapTo, Mapped
<1>2. ASSUME UNCHANGED pt PROVE Stable
  BY <1>2
<1>3. ASSUME Next PROVE Stable
  <2>1. CASE HeapMap
    BY <2>1, <1>1, <1>2, Zenon DEF HeapMap
  <2>2. CASE MapPage
    BY <2>2, <1>1, <1>2 DEF MapPage
  <2>3. CASE UnmapPage
    BY <2>3 DEF UnmapPage
  <2> HIDE DEF Stable
  <2>4. CASE HeapAlloc \/ ZeroFill \/ Touch \/ AddrAllocFrame \/ PortStart \/ PhysMap \/ PanicLoop
    BY <2>4, <1>2, Zenon DEF PhysMap, HeapAlloc, ZeroFill, Touch, AddrAllocFrame, PortStart, PanicLoop, vars
  <2>5. ASSUME NEW x, NEW y, PmmAlloc(x) \/ AddrAlloc(x) \/ PhysAlloc(x) \/ PhysFree(x, y) \/ Call(x)
        PROVE  Stable
    BY <2>5, <1>2 DEF PmmAlloc, AddrAlloc, PhysAlloc, PhysFree, Call
  <2> QED
    BY <1>3, <2>1, <2>2, <2>3, <2>4, <2>5, Zenon
    DEF Next, HeapInit, Continue, MapDevice, UnmapDevice, AmlRead, AmlWrite, XhciMap, XhciUnmap, Access
<1>4. [Next]_vars => [Stable]_vars
  BY <1>3
<1> QED BY <1>4, PTL DEF Spec, MappingsStable

-----------------------------------------------------------------------------
(* The heap's frames, and what pmm_alloc zeroes. *)

(* No service unmaps a heap page, and none maps a page of the window to a  *)
(* frame more than one below its own.                                      *)
SafeCalls ==
  {c \in Calls : /\ c.op = "unmap" => c.page \notin HeapPages
                 /\ c.op = "map" => c.frame + Offset + 1 >= c.page}

PlainCalls == {c \in SafeCalls : c.op # "fill"}

(* A fill is for the newest slot, and only pmm_alloc's maps precede it. *)
Fills(td, n) ==
  \A k \in 1 .. Len(td) : td[k].op = "fill" =>
    /\ td[k].slot = n - 1
    /\ \A j \in 1 .. (k - 1) :
         td[j].op = "map" /\ td[j].page \in {Window(nth(n - 1)), Window(nth(n - 1) + 1)}

(* The slot that a fill zeroes was granted by itself. *)
FillGrants(td, gs) ==
  \A k \in 1 .. Len(td) : td[k].op = "fill" =>
    \E g \in DOMAIN gs :
      gs[g].use # "phys" /\ gs[g].first = td[k].slot /\ gs[g].last = td[k].slot

(* Every heap page has the frame of a grant to the heap. *)
HeapOwn ==
  \A i \in 0 .. (heap - 1) :
    /\ HeapBase + i \in DOMAIN pt
    /\ \E g \in DOMAIN grants :
         /\ grants[g].use = "heap" /\ grants[g].first = grants[g].last
         /\ pt[HeapBase + i] = nth(grants[g].first)
    /\ \A j \in 0 .. (heap - 1) : i # j => pt[HeapBase + i] # pt[HeapBase + j]

(* The frame that heap_init is about to map is the newest grant. *)
HeapPending ==
  (todo # <<>> /\ Head(todo).op = "heap") =>
    /\ Head(todo).page = HeapBase + heap /\ heap < HeapLen
    /\ Head(todo).frame = nth(next - 1)
    /\ grants # <<>> /\ grants[Len(grants)] = Grant(next - 1, next - 1, "heap")
    /\ \A i \in 0 .. (heap - 1) : pt[HeapBase + i] # Head(todo).frame

WindowAbove == \A p \in DOMAIN pt \ HeapPages : pt[p] + Offset + 1 >= p

MemoryOK ==
  (disciplined /\ ~panicked) =>
    HeapOwn /\ HeapPending /\ WindowAbove /\ Fills(todo, next) /\ FillGrants(todo, grants)

(* The calls of the services are safe. *)
LEMMA SafeTyped ==
  /\ \A p, f \in Nat : f + Offset + 1 >= p => Map(p, f) \in PlainCalls
  /\ \A p \in Nat : /\ p \notin HeapPages => Unmap(p) \in PlainCalls
                    /\ Read(p) \in PlainCalls /\ Write(p) \in PlainCalls
  /\ Object \in PlainCalls
  /\ \A n \in Slots, use \in {"dma4", "dma8"} : Fill(n, use) \in SafeCalls
  /\ PlainCalls \subseteq SafeCalls /\ SafeCalls \subseteq Calls
  /\ Seq(PlainCalls) \subseteq Seq(SafeCalls) /\ <<>> \in Seq(PlainCalls)
<1>1. \A p, f \in Nat : f + Offset + 1 >= p => Map(p, f) \in PlainCalls
  BY DEF Map, PlainCalls, SafeCalls, Calls
<1>2. \A p \in Nat : p \notin HeapPages => Unmap(p) \in PlainCalls
  BY DEF Unmap, PlainCalls, SafeCalls, Calls
<1>3. \A p \in Nat : Read(p) \in PlainCalls /\ Write(p) \in PlainCalls
  BY DEF Read, Write, PlainCalls, SafeCalls, Calls
<1>4. Object \in PlainCalls
  BY DEF Object, PlainCalls, SafeCalls, Calls
<1>5. \A n \in Slots, use \in {"dma4", "dma8"} : Fill(n, use) \in SafeCalls
  BY DEF Fill, SafeCalls, Calls
<1>6. PlainCalls \subseteq SafeCalls /\ SafeCalls \subseteq Calls
  BY DEF PlainCalls, SafeCalls
<1>7. Seq(PlainCalls) \subseteq Seq(SafeCalls) /\ <<>> \in Seq(PlainCalls)
  BY <1>6, SeqMonotonic, EmptySeq
<1> QED BY <1>1, <1>2, <1>3, <1>4, <1>5, <1>6, <1>7, Zenon

(* HbaPort::start maps the identity pages after pmm_alloc has zeroed. *)
Swapped(f) == <<Map(f, Window(f)), Map(f + 1, Window(f + 1))>>

(* How a step changes the list of calls. *)
TodoChange ==
  \/ UNCHANGED todo /\ (todo = <<>> \/ UNCHANGED next)
  \/ todo = <<>> /\ todo' \in Seq(PlainCalls)
  \/ todo # <<>> /\ todo' = Tail(todo) /\ (Head(todo).op = "map" => MapPage)
  \/ /\ todo # <<>> /\ Head(todo).op # "map"
     /\ \E pre \in Seq(PlainCalls) : todo' = pre \o Tail(todo) \/ todo' = <<>>
  \/ /\ todo = <<>> /\ HasNth(next) /\ \E use \in {"dma4", "dma8"} : AllocateFrame(use)
     /\ \/ \E use \in {"dma4", "dma8"} : todo' = PmmCalls(use)
        \/ todo' = PmmCalls("dma8") \o Swapped(nth(next))

(* The services that start from an empty list and fill nothing. *)
LEMMA ServiceChange ==
  ASSUME IteratorOK, TypeOK,
         \/ HeapAlloc
         \/ \E n \in Counts : AddrAlloc(n) \/ PhysAlloc(n)
         \/ \E f \in Addrs : MapDevice(f) \/ UnmapDevice(f) \/ AmlRead(f) \/ AmlWrite(f)
         \/ \E f \in Addrs, n \in Counts : XhciMap(f, n) \/ XhciUnmap(f, n)
         \/ \E f \in Addrs : Access(f) \/ Access(Window(f))
  PROVE  todo = <<>> /\ todo' \in Seq(PlainCalls)
<1>0. /\ next \in Nat /\ heap \in Nat /\ Offset \in Nat /\ HeapBase \in Nat
      /\ Addrs \subseteq Nat /\ Counts \subseteq Nat
  BY ConstantsOK DEF TypeOK
<1>1. \A p, f \in Nat : f + Offset + 1 >= p => Map(p, f) \in PlainCalls
  BY SafeTyped
<1>2. CASE HeapAlloc
  <2>1. CASE HasNth(next)
    <3> DEFINE c == [op |-> "heap", page |-> HeapBase + heap, frame |-> nth(next)]
    <3>1. nth(next) \in Nat
      BY <2>1, NthType, Zenon DEF HasNth
    <3>2. c \in PlainCalls
      BY <1>0, <3>1 DEF PlainCalls, SafeCalls, Calls
    <3>3. todo = <<>> /\ todo' = <<c>>
      BY <1>2, <2>1, Zenon DEF HeapAlloc, Running
    <3> HIDE DEF c
    <3> QED BY <3>2, <3>3
  <2>2. CASE ~HasNth(next)
    BY <1>2, <2>2, SafeTyped DEF HeapAlloc, Running
  <2> QED BY <2>1, <2>2
<1>3. ASSUME NEW n \in Counts, AddrAlloc(n) PROVE todo = <<>> /\ todo' \in Seq(PlainCalls)
  <2>1. n \in Nat /\ [i \in 1 .. n |-> Object] \in [1 .. n -> PlainCalls]
    BY <1>0, SafeTyped
  <2>2. [i \in 1 .. n |-> Object] \in Seq(PlainCalls)
    BY <2>1, FunSeq
  <2> QED BY <1>3, <2>2 DEF AddrAlloc, Ready, Running
<1>4. ASSUME NEW n \in Counts, PhysAlloc(n)
      PROVE  todo = <<>> /\ todo' \in Seq(PlainCalls)
  <2>1. CASE HasNth(next) /\ HasNth(next + n)
    <3> DEFINE lo    == nth(next)
    <3> DEFINE pages == ((next + (n + 1)) \div PageBytes) + 1
    <3> DEFINE count == nth(next + n) - lo + 1
    <3> DEFINE len   == IF pages < count THEN pages ELSE count
    <3> DEFINE maps  == [i \in 1 .. len |-> Map(Window(lo + i - 1), lo + i - 1)]
    <3>1. todo = <<>> /\ todo' = maps
      BY <1>4, <2>1 DEF PhysAlloc, SlotsTaken, Ready, Running
    <3>2. lo \in Nat /\ nth(next + n) \in Nat
      BY <2>1, NthType DEF HasNth
    <3>3. lo <= nth(next + n)
      <4>1. CASE n = 0
        BY <4>1, <3>2, <1>0
      <4>2. CASE n # 0
        BY <4>2, <2>1, <3>2, <1>0, NthMonotonic DEF HasNth
      <4> QED BY <4>1, <4>2
    <3>4. len \in Nat
      <4>1. pages \in Nat
        <5> DEFINE slots == next + (n + 1)
        <5>1. slots \in Nat /\ PageBytes \in Nat \ {0}
          BY <1>0, ConstantsOK
        <5> HIDE DEF slots
        <5>2. slots \div PageBytes \in Nat
          BY <5>1, QuotientType
        <5> QED BY <5>2 DEF slots
      <4>2. count \in Nat
        BY <3>2, <3>3
      <4> HIDE DEF pages, count
      <4> QED BY <4>1, <4>2
    <3>5. \A i \in 1 .. len : Map(Window(lo + i - 1), lo + i - 1) \in PlainCalls
      <4> HIDE DEF len, lo
      <4> QED BY <3>2, <3>4, <1>0, <1>1, SMTT(30) DEF Window
    <3>6. maps \in [1 .. len -> PlainCalls]
      BY <3>5
    <3> HIDE DEF maps, len
    <3> QED BY <3>1, <3>4, <3>6, FunSeq, Zenon
  <2>2. CASE ~(HasNth(next) /\ HasNth(next + n))
    <3>1. todo = <<>> /\ UNCHANGED todo
      BY <1>4, <2>2 DEF PhysAlloc, SlotsTaken, Ready, Running
    <3> QED BY <3>1, SafeTyped, Zenon
  <2> QED BY <2>1, <2>2
<1>5. ASSUME NEW calls \in Seq(PlainCalls), Call(calls)
      PROVE  todo = <<>> /\ todo' \in Seq(PlainCalls)
  BY <1>5 DEF Call, Ready, Running
<1>6. ASSUME NEW f \in Addrs, MapDevice(f) \/ UnmapDevice(f) \/ AmlRead(f) \/ AmlWrite(f)
      PROVE  todo = <<>> /\ todo' \in Seq(PlainCalls)
  <2>1. f \in Nat /\ Window(f) \in Nat /\ Window(f) + 1 \in Nat
        /\ f + Offset + 1 >= Window(f) /\ f + Offset + 1 >= Window(f) + 1
    BY <1>0 DEF Window
  <2>2. Window(f) \notin HeapPages
    BY LayoutOK, Zenon
  <2>3. /\ Map(Window(f), f) \in PlainCalls /\ Unmap(Window(f)) \in PlainCalls
        /\ Map(Window(f) + 1, f) \in PlainCalls
        /\ Read(Window(f)) \in PlainCalls /\ Write(Window(f)) \in PlainCalls
    BY <2>1, <2>2, SafeTyped, Zenon
  <2>4. /\ <<Map(Window(f), f)>> \in Seq(PlainCalls) /\ <<Unmap(Window(f))>> \in Seq(PlainCalls)
        /\ <<Map(Window(f) + 1, f), Read(Window(f))>> \in Seq(PlainCalls)
        /\ <<Map(Window(f) + 1, f), Write(Window(f))>> \in Seq(PlainCalls)
    BY <2>3
  <2> QED BY <2>4, <1>5, <1>6, Zenon DEF MapDevice, UnmapDevice, AmlRead, AmlWrite
<1>7. ASSUME NEW f \in Addrs, NEW n \in Counts, XhciMap(f, n) \/ XhciUnmap(f, n)
      PROVE  todo = <<>> /\ todo' \in Seq(PlainCalls)
  <2> DEFINE maps   == [i \in 1 .. n |-> Map(f + i - 1, f + i - 1)]
  <2> DEFINE unmaps == [i \in 1 .. n - 1 |-> Unmap(f + i)]
  <2>1. f \in Nat /\ n \in Nat /\ n > 0 /\ n - 1 \in Nat
    BY <1>0, <1>7 DEF XhciMap, XhciUnmap
  <2>2. \A i \in 1 .. n : Map(f + i - 1, f + i - 1) \in PlainCalls
    BY <2>1, <1>0, <1>1
  <2>3. \A i \in 1 .. n - 1 : Unmap(f + i) \in PlainCalls
    <3>1. \A i \in 1 .. n - 1 : f + i \in Nat /\ f + i \notin HeapPages
      BY <2>1, LayoutOK
    <3> QED BY <3>1, SafeTyped
  <2>4. maps \in [1 .. n -> PlainCalls] /\ unmaps \in [1 .. n - 1 -> PlainCalls]
    BY <2>2, <2>3, Zenon
  <2>5. Call(maps) \/ Call(IF n > 1 THEN unmaps ELSE <<Unmap(f)>>)
    BY <1>7 DEF XhciMap, XhciUnmap
  <2> HIDE DEF maps, unmaps
  <2>6. maps \in Seq(PlainCalls) /\ unmaps \in Seq(PlainCalls)
    BY <2>1, <2>4, FunSeq
  <2>7. <<Unmap(f)>> \in Seq(PlainCalls)
    <3>1. Unmap(f) \in PlainCalls
      BY <2>1, LayoutOK, SafeTyped
    <3> QED BY <3>1
  <2>8. (IF n > 1 THEN unmaps ELSE <<Unmap(f)>>) \in Seq(PlainCalls)
    BY <2>6, <2>7
  <2> QED BY <2>5, <2>6, <2>8, <1>5, Zenon
<1>8. ASSUME NEW f \in Addrs, Access(f) \/ Access(Window(f))
      PROVE  todo = <<>> /\ todo' \in Seq(PlainCalls)
  <2>1. f \in Nat /\ Window(f) \in Nat
    BY <1>0 DEF Window
  <2>2. \A p \in Nat : <<Read(p)>> \in Seq(PlainCalls) /\ <<Write(p)>> \in Seq(PlainCalls)
    BY SafeTyped
  <2> QED BY <2>1, <2>2, <1>5, <1>8, Zenon DEF Access
<1> QED BY <1>2, <1>3, <1>4, <1>6, <1>7, <1>8

(* Every step changes the list in one of these ways. *)
LEMMA NextTodo ==
  ASSUME IteratorOK, TypeOK, HeapCall, [Next]_vars
  PROVE  TodoChange
<1>0. /\ next \in Nat /\ todo \in Seq(Calls) /\ Offset \in Nat
  BY ConstantsOK, SMTT(30) DEF TypeOK
<1>1. CASE MapPage
  BY <1>1, Zenon DEF MapPage, TodoChange
<1>2. CASE UnmapPage \/ ZeroFill \/ HeapMap
  <2>1. todo # <<>> /\ todo' = Tail(todo) /\ Head(todo).op \in {"unmap", "fill", "heap"}
    BY <1>2 DEF UnmapPage, ZeroFill, HeapMap
  <2>2. Head(todo).op # "map"
    BY <2>1
  <2> QED BY <2>1, <2>2, Zenon DEF TodoChange
<1>3. CASE AddrAllocFrame
  <2>1. todo # <<>> /\ Head(todo).op # "map"
    BY <1>3 DEF AddrAllocFrame
  <2>2. CASE HasNth(next)
    <3>1. nth(next) \in Nat
      BY <2>2, NthType DEF HasNth
    <3>2. Map(Window(nth(next)), nth(next)) \in PlainCalls
      BY <1>0, <3>1, SafeTyped DEF Window
    <3>3. <<Map(Window(nth(next)), nth(next))>> \in Seq(PlainCalls)
      BY <3>2
    <3>4. todo' = <<Map(Window(nth(next)), nth(next))>> \o Tail(todo)
      BY <1>3, <2>2 DEF AddrAllocFrame
    <3> QED BY <2>1, <3>3, <3>4, Zenon DEF TodoChange
  <2>3. CASE ~HasNth(next)
    <3>1. todo' = <<>>
      BY <1>3, <2>3 DEF AddrAllocFrame
    <3> QED BY <2>1, <3>1, SafeTyped, Zenon DEF TodoChange
  <2> QED BY <2>2, <2>3
<1>4. CASE Touch
  <2>1. todo # <<>> /\ Head(todo).op \in {"read", "write"}
    BY <1>4 DEF Touch
  <2>2. Head(todo).page \in Nat
    BY <1>0, <2>1, TailTyped, CallFields
  <2> DEFINE again == <<Map(Head(todo).page, Head(todo).page)>>
  <2>3. again \in Seq(PlainCalls)
    <3>1. Map(Head(todo).page, Head(todo).page) \in PlainCalls
      BY <1>0, <2>2, SafeTyped, SMTT(30)
    <3> QED BY <3>1
  <2>4. todo' = again \o Tail(todo) \/ todo' = <<>> \o Tail(todo)
    BY <1>4 DEF Touch
  <2> HIDE DEF again
  <2>5. Head(todo).op # "map" /\ <<>> \in Seq(PlainCalls)
    BY <2>1, SafeTyped
  <2> QED BY <2>1, <2>3, <2>4, <2>5, Zenon DEF TodoChange
<1>5. ASSUME NEW use \in {"dma4", "dma8"}, PmmAlloc(use) PROVE TodoChange
  <2>1. CASE HasNth(next)
    BY <1>5, <2>1 DEF PmmAlloc, Ready, Running, TodoChange
  <2>2. CASE ~HasNth(next)
    BY <1>5, <2>2 DEF PmmAlloc, Ready, Running, TodoChange
  <2> QED BY <2>1, <2>2
<1>6. CASE PortStart
  <2>1. CASE HasNth(next)
    BY <1>6, <2>1 DEF PortStart, Ready, Running, TodoChange, Swapped
  <2>2. CASE ~HasNth(next)
    BY <1>6, <2>2 DEF PortStart, Ready, Running, TodoChange
  <2> QED BY <2>1, <2>2
<1>7. CASE \E a, b \in FreeAddrs : PhysFree(a, b)
  BY <1>7, Zenon DEF PhysFree, Ready, Running, TodoChange
<1>8. CASE PhysMap
  BY <1>8, Zenon DEF PhysMap, Ready, Running, TodoChange
<1>9. CASE PanicLoop \/ UNCHANGED vars
  BY <1>9 DEF PanicLoop, vars, TodoChange
<1>10. ASSUME todo = <<>> /\ todo' \in Seq(PlainCalls) PROVE TodoChange
  BY <1>10, Zenon DEF TodoChange
<1> QED BY <1>1, <1>2, <1>3, <1>4, <1>5, <1>6, <1>7, <1>8, <1>9, <1>10, ServiceChange, Zenon
        DEF Next, HeapInit, Continue

(* A list stays fine when calls that fill nothing are appended. *)
LEMMA FillsConcat ==
  ASSUME NEW td \in Seq(SafeCalls), NEW rest \in Seq(SafeCalls), NEW n \in Nat, Fills(td, n),
         \A k \in 1 .. Len(rest) : rest[k].op = "fill" =>
           /\ rest[k].slot = n - 1 /\ k = 1
           /\ \A j \in 1 .. Len(td) :
                td[j].op = "map" /\ td[j].page \in {Window(nth(n - 1)), Window(nth(n - 1) + 1)}
  PROVE  td \o rest \in Seq(SafeCalls) /\ Fills(td \o rest, n)
<1> DEFINE all == td \o rest
<1>1. /\ all \in Seq(SafeCalls) /\ Len(all) = Len(td) + Len(rest)
      /\ Len(td) \in Nat /\ Len(rest) \in Nat
      /\ \A k \in 1 .. Len(td) : all[k] = td[k]
      /\ \A k \in 1 .. Len(rest) : all[Len(td) + k] = rest[k]
  BY ConcatProperties, SMTT(30)
<1> HIDE DEF all
<1>2. ASSUME NEW k \in 1 .. Len(all), all[k].op = "fill"
      PROVE  /\ all[k].slot = n - 1
             /\ \A j \in 1 .. (k - 1) :
                  all[j].op = "map" /\ all[j].page \in {Window(nth(n - 1)), Window(nth(n - 1) + 1)}
  <2>1. CASE k <= Len(td)
    <3>1. k \in 1 .. Len(td) /\ \A j \in 1 .. (k - 1) : j \in 1 .. Len(td)
      BY <1>1, <2>1
    <3>2. all[k] = td[k] /\ \A j \in 1 .. (k - 1) : all[j] = td[j]
      BY <1>1, <3>1
    <3>3. /\ td[k].slot = n - 1
          /\ \A j \in 1 .. (k - 1) :
               td[j].op = "map" /\ td[j].page \in {Window(nth(n - 1)), Window(nth(n - 1) + 1)}
      BY <1>2, <3>1, <3>2, Zenon DEF Fills
    <3> QED BY <3>2, <3>3, Zenon
  <2>2. CASE k > Len(td)
    <3> DEFINE m == k - Len(td)
    <3>1. m \in 1 .. Len(rest) /\ Len(td) + m = k
      BY <1>1, <2>2
    <3>2. rest[m].op = "fill" /\ all[k] = rest[m]
      <4> HIDE DEF m
      <4> QED BY <1>1, <1>2, <3>1, Zenon
    <3>3. m = 1 /\ rest[m].slot = n - 1
      BY <3>1, <3>2, Zenon
    <3>4. \A j \in 1 .. (k - 1) : j \in 1 .. Len(td) /\ all[j] = td[j]
      BY <1>1, <3>1, <3>3, SMTT(30)
    <3> QED BY <3>1, <3>2, <3>3, <3>4, Zenon
  <2> QED BY <1>1, <2>1, <2>2, SMTT(30)
<1>3. Fills(all, n)
  BY <1>2 DEF Fills
<1> QED BY <1>1, <1>3, Zenon DEF all

(* The calls of pmm_alloc and HbaPort::start are safe, and the fill comes  *)
(* after the maps of the window.                                           *)
LEMMA PmmFills ==
  ASSUME IteratorOK, next \in Nat, HasNth(next), NEW use \in {"dma4", "dma8"}
  PROVE  /\ PmmCalls(use) \in Seq(SafeCalls) /\ Fills(PmmCalls(use), next + 1)
         /\ PmmCalls("dma8") \o Swapped(nth(next)) \in Seq(SafeCalls)
         /\ Fills(PmmCalls("dma8") \o Swapped(nth(next)), next + 1)
<1> DEFINE f == nth(next)
           m1 == Map(Window(f), f)
           m2 == Map(Window(f + 1), f + 1)
           m3 == Map(f, Window(f))
           m4 == Map(f + 1, Window(f + 1))
           fill(u) == Fill(next, u)
<1>1. f \in Nat /\ next \in Slots /\ Offset \in Nat
  BY NthType, ConstantsOK, Zenon DEF HasNth
<1>2. /\ m1 \in SafeCalls /\ m2 \in SafeCalls /\ m3 \in SafeCalls /\ m4 \in SafeCalls
      /\ \A u \in {"dma4", "dma8"} : fill(u) \in SafeCalls
  <2> HIDE DEF f
  <2>1. m1 \in PlainCalls /\ m2 \in PlainCalls /\ m3 \in PlainCalls /\ m4 \in PlainCalls
    BY <1>1, SafeTyped, SMTT(30) DEF Window
  <2> QED BY <1>1, <2>1, SafeTyped
<1>3. /\ m1.op = "map" /\ m1.page = Window(f) /\ m2.op = "map" /\ m2.page = Window(f + 1)
      /\ m3.op # "fill" /\ m4.op # "fill"
      /\ \A u \in {"dma4", "dma8"} : fill(u).slot = next
  BY DEF Map, Fill
<1>4. /\ PmmCalls("dma4") = <<m1>> \o <<fill("dma4")>>
      /\ PmmCalls("dma8") = <<m1, m2>> \o <<fill("dma8")>>
      /\ Swapped(nth(next)) = <<m3, m4>>
  BY DEF PmmCalls, Swapped
<1>5. (next + 1) - 1 = next /\ next + 1 \in Nat
  OBVIOUS
<1>6. Window(nth(next)) = Window(f) /\ Window(nth(next) + 1) = Window(f + 1)
  OBVIOUS
<1> HIDE DEF f, m1, m2, m3, m4, fill
<1>7. /\ <<m1>> \in Seq(SafeCalls) /\ <<m1, m2>> \in Seq(SafeCalls) /\ <<m3, m4>> \in Seq(SafeCalls)
      /\ \A u \in {"dma4", "dma8"} : <<fill(u)>> \in Seq(SafeCalls)
  BY <1>2, SMTT(30)
<1>8. Fills(<<m1>>, next + 1) /\ Fills(<<m1, m2>>, next + 1)
  BY <1>3, SMTT(30) DEF Fills
<1>9. ASSUME NEW maps \in {<<m1>>, <<m1, m2>>}, NEW u \in {"dma4", "dma8"}
      PROVE  maps \o <<fill(u)>> \in Seq(SafeCalls) /\ Fills(maps \o <<fill(u)>>, next + 1)
  <2> DEFINE rest == <<fill(u)>>
  <2>1. \A j \in 1 .. Len(maps) :
          maps[j].op = "map" /\ maps[j].page \in {Window(f), Window(f + 1)}
    BY <1>3
  <2>2. \A k \in 1 .. Len(rest) : rest[k].slot = next /\ k = 1
    BY <1>3
  <2>3. rest \in Seq(SafeCalls) /\ maps \in Seq(SafeCalls) /\ Fills(maps, next + 1)
    BY <1>7, <1>8, Zenon
  <2> HIDE DEF rest
  <2> QED BY <1>5, <1>6, <2>1, <2>2, <2>3, FillsConcat DEF rest
<1>10. /\ PmmCalls(use) \in Seq(SafeCalls) /\ Fills(PmmCalls(use), next + 1)
       /\ PmmCalls("dma8") \in Seq(SafeCalls) /\ Fills(PmmCalls("dma8"), next + 1)
  BY <1>4, <1>9, Zenon
<1>11. /\ PmmCalls("dma8") \o Swapped(nth(next)) \in Seq(SafeCalls)
       /\ Fills(PmmCalls("dma8") \o Swapped(nth(next)), next + 1)
  <2> DEFINE td == PmmCalls("dma8")
             rest == <<m3, m4>>
  <2>1. \A k \in 1 .. Len(rest) : rest[k].op # "fill"
    BY <1>3
  <2>2. Swapped(nth(next)) = rest /\ rest \in Seq(SafeCalls)
    BY <1>4, <1>7
  <2> HIDE DEF td, rest
  <2>3. td \in Seq(SafeCalls) /\ Fills(td, next + 1)
    BY <1>10, Zenon DEF td
  <2>4. td \o rest \in Seq(SafeCalls) /\ Fills(td \o rest, next + 1)
    BY <1>5, <2>1, <2>2, <2>3, FillsConcat, Zenon
  <2> QED BY <2>2, <2>4 DEF td
<1> QED BY <1>10, <1>11

(* Without fills in it, a list is fine for any slot; the rest of a list    *)
(* that does not start with a map has none.                                *)
LEMMA NoFills ==
  /\ \A td \in Seq(PlainCalls), n \in Nat : Fills(td, n)
  /\ \A td \in Seq(SafeCalls), n \in Nat :
       (td # <<>> /\ Fills(td, n)) =>
         /\ Fills(Tail(td), n)
         /\ Head(td).op # "map" => Tail(td) \in Seq(PlainCalls)
<1>1. ASSUME NEW td \in Seq(PlainCalls), NEW n \in Nat PROVE Fills(td, n)
  <2>1. \A k \in 1 .. Len(td) : td[k] \in PlainCalls
    BY ElementOfSeq
  <2> QED BY <2>1 DEF Fills, PlainCalls
<1>2. ASSUME NEW td \in Seq(SafeCalls), NEW n \in Nat, td # <<>>, Fills(td, n)
      PROVE  /\ Fills(Tail(td), n)
             /\ Head(td).op # "map" => Tail(td) \in Seq(PlainCalls)
  <2> DEFINE r == Tail(td)
  <2>1. /\ r \in Seq(SafeCalls) /\ Len(r) = Len(td) - 1 /\ Len(td) \in Nat /\ Len(td) >= 1
        /\ \A k \in 1 .. Len(r) : r[k] = td[k + 1] /\ r[k] \in SafeCalls
        /\ Head(td) = td[1]
    BY <1>2
  <2> HIDE DEF r
  <2>2. ASSUME NEW k \in 1 .. Len(r), r[k].op = "fill"
        PROVE  /\ r[k].slot = n - 1
               /\ td[1].op = "map"
               /\ \A j \in 1 .. (k - 1) :
                    r[j].op = "map" /\ r[j].page \in {Window(nth(n - 1)), Window(nth(n - 1) + 1)}
    <3>1. k \in Nat /\ k + 1 \in 1 .. Len(td) /\ td[k + 1].op = "fill" /\ td[k + 1] = r[k]
      BY <2>1, <2>2
    <3>2. /\ td[k + 1].slot = n - 1
          /\ \A j \in 1 .. k :
               td[j].op = "map" /\ td[j].page \in {Window(nth(n - 1)), Window(nth(n - 1) + 1)}
      <4>1. (k + 1) - 1 = k
        BY <3>1
      <4> QED BY <3>1, <4>1, <1>2 DEF Fills
    <3>3. \A j \in 1 .. (k - 1) : r[j] = td[j + 1] /\ j + 1 \in 1 .. k
      BY <2>1, <3>1
    <3>4. 1 \in 1 .. k
      BY <3>1, <2>2
    <3> QED BY <3>1, <3>2, <3>3, <3>4, Zenon
  <2>3. Fills(r, n)
    BY <2>2 DEF Fills
  <2>4. ASSUME Head(td).op # "map" PROVE r \in Seq(PlainCalls)
    <3>1. \A k \in 1 .. Len(r) : r[k] \in PlainCalls
      BY <2>1, <2>2, <2>4 DEF PlainCalls
    <3>2. Len(r) \in Nat /\ r \in [1 .. Len(r) -> PlainCalls]
      BY <2>1, <3>1
    <3> QED BY <3>2, FunSeq, Zenon
  <2> QED BY <2>3, <2>4 DEF r
<1> QED BY <1>1, <1>2

(* Every step leaves safe calls. *)
LEMMA SafeStep ==
  ASSUME IteratorOK, TypeOK, HeapCall, todo \in Seq(SafeCalls), [Next]_vars
  PROVE  todo' \in Seq(SafeCalls)
<1>1. TodoChange
  BY NextTodo
<1>2. next \in Nat /\ Seq(PlainCalls) \subseteq Seq(SafeCalls) /\ <<>> \in Seq(SafeCalls)
  BY SafeTyped DEF TypeOK
<1>3. ASSUME todo # <<>> PROVE Tail(todo) \in Seq(SafeCalls)
  BY <1>3, HeadTailProperties
<1>4. ASSUME NEW pre \in Seq(PlainCalls), todo # <<>> PROVE pre \o Tail(todo) \in Seq(SafeCalls)
  BY <1>2, <1>3, <1>4, ConcatProperties
<1>5. ASSUME HasNth(next), NEW use \in {"dma4", "dma8"}
      PROVE  /\ PmmCalls(use) \in Seq(SafeCalls)
             /\ PmmCalls("dma8") \o Swapped(nth(next)) \in Seq(SafeCalls)
  BY <1>2, <1>5, PmmFills
<1> QED BY <1>1, <1>2, <1>3, <1>4, <1>5, Zenon DEF TodoChange

(* map_to, when it succeeds: the page is added, tables may be granted, and *)
(* none is when the memory is used up.                                     *)
LEMMA MapToSucceeds ==
  ASSUME IteratorOK, TypeOK, NEW p \in Nat, NEW f \in Nat, MapTo(p, f), ~panicked'
  PROVE  /\ pt' = [q \in DOMAIN pt \cup {p} |-> IF q = p THEN f ELSE pt[q]]
         /\ ~HasNth(next) => next' = next
         /\ UNCHANGED grants \/ \E g \in Grants : g.use = "table" /\ Log(g)
<1> DEFINE k == Cardinality(Missing(p))
<1>1. next \in Nat /\ k \in Nat
  BY TablesOfFinite, Zenon DEF TypeOK
<1> HIDE DEF k
<1>2. /\ \A i \in next .. (next + k - 1) : HasNth(i)
      /\ next' = next + k
      /\ pt' = [q \in DOMAIN pt \cup {p} |-> IF q = p THEN f ELSE pt[q]]
      /\ IF k = 0 THEN UNCHANGED grants ELSE Log(Grant(next, next + k - 1, "table"))
  BY DEF MapTo, k
<1>3. k # 0 => HasNth(next)
  <2>1. k # 0 => next \in next .. (next + k - 1)
    BY <1>1
  <2> QED BY <1>2, <2>1
<1>4. k # 0 => /\ Grant(next, next + k - 1, "table") \in Grants
               /\ Grant(next, next + k - 1, "table").use = "table"
  BY <1>1 DEF Grant, Grants, Uses
<1>5. UNCHANGED grants \/ \E g \in Grants : g.use = "table" /\ Log(g)
  BY <1>2, <1>4, Zenon
<1>6. ~HasNth(next) => next' = next
  BY <1>1, <1>2, <1>3
<1> QED BY <1>2, <1>5, <1>6

(* The maps of pmm_alloc create no table: the window over memory is mapped *)
(* and after the last frame there is none left for a table.                *)
LEMMA WindowNeedsNoTable ==
  ASSUME IteratorOK, TypeOK, next - 1 \in Slots, NEW f \in Nat, NEW p \in Nat,
         p \in {Window(nth(next - 1)), Window(nth(next - 1) + 1)},
         ~Mapped(p), MapTo(p, f), ~panicked'
  PROVE  next' = next
<1> DEFINE last == nth(next - 1)
<1>1. next \in Nat /\ last \in Nat /\ next - 1 < next
  BY NthType DEF TypeOK
<1>2. p \notin HugePages
  BY DEF Mapped
<1>3. Window(last) \in HugePages
  BY <1>1, LayoutOK
<1>4. Window(last + 1) \notin HugePages
  BY <1>2, <1>3
<1>5. ~HasNth(next)
  <2> SUFFICES ASSUME next \in Slots PROVE FALSE
    BY DEF HasNth
  <2>1. last < nth(next) /\ nth(next) \in Nat
    BY <1>1, NthMonotonic, NthType
  <2> HIDE DEF last
  <2>2. last + 1 \in 0 .. nth(next)
    BY <1>1, <2>1
  <2>3. \A f1 \in 0 .. nth(next) : Window(f1) \in HugePages
    BY LayoutOK
  <2> QED BY <1>4, <2>2, <2>3
<1> QED BY <1>5, MapToSucceeds, Zenon

(* Every step leaves a fill for the newest slot only. *)
LEMMA FillStep ==
  ASSUME IteratorOK, TypeOK, TypeOK', HeapCall, todo \in Seq(SafeCalls), Fills(todo, next), [Next]_vars, ~panicked'
  PROVE  Fills(todo', next')
<1>1. TodoChange
  BY NextTodo
<1>2. next \in Nat /\ next' \in Nat
  BY DEF TypeOK
<1>3. \A n \in Nat : Fills(<<>>, n)
  BY DEF Fills
<1>4. CASE UNCHANGED todo /\ (todo = <<>> \/ UNCHANGED next)
  BY <1>2, <1>3, <1>4
<1>5. CASE todo' \in Seq(PlainCalls)
  BY <1>2, <1>5, NoFills
<1>6. CASE todo # <<>> /\ todo' = Tail(todo) /\ Head(todo).op # "map"
  <2>1. Tail(todo) \in Seq(PlainCalls)
    BY <1>2, <1>6, NoFills
  <2> QED BY <1>6, <2>1, <1>5
<1>7. CASE todo # <<>> /\ todo' = Tail(todo) /\ MapPage
  <2>1. Fills(Tail(todo), next)
    BY <1>2, <1>7, NoFills
  <2>2. CASE next' = next
    BY <1>7, <2>1, <2>2
  <2>3. CASE next' # next
    <3>1. /\ ~Mapped(Head(todo).page) /\ MapTo(Head(todo).page, Head(todo).frame)
      BY <1>7, <2>3 DEF MapPage
    <3>2. Head(todo).page \in Nat /\ Head(todo).frame \in Nat
      <4>1. Head(todo) \in Calls /\ Head(todo).op = "map"
        BY <1>7, TailTyped DEF TypeOK, MapPage
      <4> QED BY <4>1, CallFields, Zenon
    <3>3. ASSUME NEW k \in 1 .. Len(todo'), todo'[k].op = "fill" PROVE FALSE
      <4>1. /\ k + 1 \in 1 .. Len(todo) /\ todo[k + 1] = todo'[k] /\ k \in Nat /\ k >= 1
            /\ todo[1] = Head(todo) /\ todo[k + 1] \in SafeCalls
        BY <1>7
      <4>2. 1 \in 1 .. ((k + 1) - 1)
        BY <4>1, SMTT(30)
      <4>3. /\ todo[k + 1].slot = next - 1
            /\ todo[1].page \in {Window(nth(next - 1)), Window(nth(next - 1) + 1)}
        BY <3>3, <4>1, <4>2, Zenon DEF Fills
      <4>4. next - 1 \in Slots
        BY <3>3, <4>1, <4>3 DEF SafeCalls, Calls
      <4>5. Head(todo).page \in {Window(nth(next - 1)), Window(nth(next - 1) + 1)}
        BY <4>1, <4>3, Zenon
      <4> QED BY <2>3, <3>1, <3>2, <4>4, <4>5, WindowNeedsNoTable
    <3> QED BY <3>3, Zenon DEF Fills
  <2> QED BY <2>2, <2>3
<1>8. ASSUME todo # <<>>, Head(todo).op # "map", NEW pre \in Seq(PlainCalls), todo' = pre \o Tail(todo)
      PROVE  Fills(todo', next')
  <2>1. Tail(todo) \in Seq(PlainCalls)
    BY <1>2, <1>8, NoFills
  <2>2. todo' \in Seq(PlainCalls)
    BY <1>8, <2>1, ConcatProperties
  <2> QED BY <2>2, <1>5
<1>9. ASSUME HasNth(next), next' = next + 1,
             \/ \E use \in {"dma4", "dma8"} : todo' = PmmCalls(use)
             \/ todo' = PmmCalls("dma8") \o Swapped(nth(next))
      PROVE  Fills(todo', next')
  <2>1. ASSUME NEW use \in {"dma4", "dma8"}
        PROVE  /\ Fills(PmmCalls(use), next + 1)
               /\ Fills(PmmCalls("dma8") \o Swapped(nth(next)), next + 1)
    BY <1>2, <1>9, PmmFills
  <2> QED BY <1>9, <2>1, Zenon
<1>10. ASSUME NEW use, AllocateFrame(use) PROVE next' = next + 1
  BY <1>10 DEF AllocateFrame
<1> QED BY <1>1, <1>2, <1>3, <1>4, <1>5, <1>6, <1>7, <1>8, <1>9, <1>10, Zenon DEF TodoChange

(* While frees are LIFO, only physalloc's grants are ever returned. *)
LEMMA GrantsKept ==
  ASSUME TypeOK, [Next]_vars, disciplined', NEW g \in DOMAIN grants, grants[g].use # "phys"
  PROVE  g \in DOMAIN grants' /\ grants'[g] = grants[g]
<1>0. grants \in Seq(Grants) /\ g \in 1 .. Len(grants) /\ Len(grants) \in Nat
  BY LenProperties DEF TypeOK, Grants
<1>1. ASSUME UNCHANGED grants PROVE g \in DOMAIN grants' /\ grants'[g] = grants[g]
  BY <1>1
<1>2. ASSUME NEW h, Log(h) PROVE g \in DOMAIN grants' /\ grants'[g] = grants[g]
  <2>1. DOMAIN Append(grants, h) = 1 .. Len(grants) + 1 /\ Append(grants, h)[g] = grants[g]
    BY <1>0
  <2> QED BY <1>0, <1>2, <2>1 DEF Log
<1>3. ASSUME NEW use, AllocateFrame(use) PROVE g \in DOMAIN grants' /\ grants'[g] = grants[g]
  BY <1>1, <1>2, <1>3, Zenon DEF AllocateFrame
<1>4. ASSUME NEW p, NEW f, MapTo(p, f) PROVE g \in DOMAIN grants' /\ grants'[g] = grants[g]
  BY <1>1, <1>2, <1>4 DEF MapTo
<1>5. CASE HeapAlloc \/ AddrAllocFrame \/ PortStart \/ \E use \in {"dma4", "dma8"} : PmmAlloc(use)
  BY <1>3, <1>5, Zenon DEF HeapAlloc, AddrAllocFrame, PortStart, PmmAlloc
<1>6. CASE HeapMap \/ MapPage
  <2>1. UNCHANGED grants \/ MapTo(Head(todo).page, Head(todo).frame)
    BY <1>6, Zenon DEF HeapMap, MapPage
  <2> QED BY <1>1, <1>4, <2>1, Zenon
<1>7. CASE \E n \in Counts : PhysAlloc(n)
  BY <1>1, <1>2, <1>7 DEF PhysAlloc
<1>8. ASSUME NEW a \in FreeAddrs, NEW b \in FreeAddrs, PhysFree(a, b)
      PROVE  g \in DOMAIN grants' /\ grants'[g] = grants[g]
  <2>1. CASE FreePanics(a, b)
    BY <1>1, <1>8, <2>1 DEF PhysFree
  <2>2. CASE ~FreePanics(a, b)
    <3>1. IsNewest(a, b)
      BY <1>8, <2>2, Zenon DEF PhysFree
    <3>2. grants' = SubSeq(grants, 1, Len(grants) - 1)
      BY <1>8, <2>2, <3>1 DEF PhysFree
    <3>3. g # Len(grants)
      BY <3>1 DEF IsNewest
    <3>4. g \in 1 .. (Len(grants) - 1)
      BY <1>0, <3>3
    <3> QED BY <1>0, <3>2, <3>4
  <2> QED BY <2>1, <2>2, Zenon
<1>9. CASE UnmapPage \/ ZeroFill \/ Touch \/ PhysMap \/ PanicLoop \/ UNCHANGED vars
  <2>1. UNCHANGED grants
    BY <1>9, Zenon DEF UnmapPage, ZeroFill, Touch, PhysMap, PanicLoop, vars
  <2> QED BY <1>1, <2>1, Zenon
<1>10. ASSUME NEW x, AddrAlloc(x) \/ Call(x) PROVE g \in DOMAIN grants' /\ grants'[g] = grants[g]
  <2>1. UNCHANGED grants
    BY <1>10, Zenon DEF AddrAlloc, Call
  <2> QED BY <1>1, <2>1, Zenon
<1> QED BY <1>5, <1>6, <1>7, <1>8, <1>9, <1>10, Zenon
        DEF Next, HeapInit, Continue, MapDevice, UnmapDevice, AmlRead, AmlWrite, XhciMap, XhciUnmap, Access

(* The slot of a fill stays granted by itself. *)
LEMMA FillGrantStep ==
  ASSUME IteratorOK, TypeOK, HeapCall, todo \in Seq(SafeCalls), Fills(todo, next), FillGrants(todo, grants),
         [Next]_vars, disciplined, disciplined'
  PROVE  FillGrants(todo', grants')
<1>1. TodoChange
  BY NextTodo
<1>2. next \in Nat /\ grants \in Seq(Grants)
  BY Zenon DEF TypeOK, Grants
<1>3. ASSUME \A k \in 1 .. Len(todo') : todo'[k].op = "fill" =>
               \E m \in 1 .. Len(todo) : todo'[k] = todo[m]
      PROVE  FillGrants(todo', grants')
  <2> SUFFICES ASSUME NEW k \in 1 .. Len(todo'), todo'[k].op = "fill"
               PROVE  \E g \in DOMAIN grants' :
                        /\ grants'[g].use # "phys" /\ grants'[g].first = todo'[k].slot
                        /\ grants'[g].last = todo'[k].slot
    BY DEF FillGrants
  <2>1. PICK m \in 1 .. Len(todo) : todo'[k] = todo[m]
    BY <1>3, Zenon
  <2>2. PICK g \in DOMAIN grants : /\ grants[g].use # "phys" /\ grants[g].first = todo[m].slot
                                   /\ grants[g].last = todo[m].slot
    BY <2>1, Zenon DEF FillGrants
  <2>3. g \in DOMAIN grants' /\ grants'[g] = grants[g]
    BY <2>2, GrantsKept, Zenon
  <2> QED BY <2>1, <2>2, <2>3, Zenon
<1>4. CASE UNCHANGED todo
  BY <1>3, <1>4, Zenon
<1>5. CASE todo # <<>> /\ todo' = Tail(todo)
  <2>1. \A k \in 1 .. Len(todo') : k + 1 \in 1 .. Len(todo) /\ todo'[k] = todo[k + 1]
    BY <1>5
  <2> QED BY <1>3, <2>1
<1>6. CASE todo' \in Seq(PlainCalls)
  <2>1. \A k \in 1 .. Len(todo') : todo'[k] \in PlainCalls
    BY <1>6, ElementOfSeq
  <2> QED BY <2>1 DEF FillGrants, PlainCalls
<1>7. ASSUME todo # <<>>, Head(todo).op # "map", NEW pre \in Seq(PlainCalls), todo' = pre \o Tail(todo)
      PROVE  FillGrants(todo', grants')
  <2>1. Tail(todo) \in Seq(PlainCalls)
    BY <1>2, <1>7, NoFills, Zenon
  <2>2. todo' \in Seq(PlainCalls)
    BY <1>7, <2>1, ConcatProperties, Zenon
  <2> QED BY <1>6, <2>2
<1>8. ASSUME HasNth(next), NEW u \in {"dma4", "dma8"}, AllocateFrame(u),
             \/ \E use \in {"dma4", "dma8"} : todo' = PmmCalls(use)
             \/ todo' = PmmCalls("dma8") \o Swapped(nth(next))
      PROVE  FillGrants(todo', grants')
  <2>1. ASSUME NEW use \in {"dma4", "dma8"}
        PROVE  /\ Fills(PmmCalls(use), next + 1)
               /\ Fills(PmmCalls("dma8") \o Swapped(nth(next)), next + 1)
    BY <1>2, <1>8, PmmFills
  <2>2. Fills(todo', next + 1)
    BY <1>8, <2>1, Zenon
  <2>3. \A k \in 1 .. Len(todo') : todo'[k].op = "fill" => todo'[k].slot = next
    <3>1. (next + 1) - 1 = next
      BY <1>2, SMTT(30)
    <3>2. ASSUME NEW n, Fills(todo', n), NEW k \in 1 .. Len(todo'), todo'[k].op = "fill"
          PROVE  todo'[k].slot = n - 1
      BY <3>2 DEF Fills
    <3> DEFINE n == next + 1
    <3>3. Fills(todo', n) /\ n - 1 = next
      BY <2>2, <3>1
    <3> HIDE DEF n
    <3> QED BY <3>2, <3>3
  <2> DEFINE h == Grant(next, next, u)
  <2>4. grants' = Append(grants, h)
    BY <1>8 DEF AllocateFrame, Log
  <2>5. h.use # "phys" /\ h.first = next /\ h.last = next
    BY DEF Grant
  <2> HIDE DEF h
  <2>6. Len(grants) + 1 \in DOMAIN grants' /\ grants'[Len(grants) + 1] = h
    BY <1>2, <2>4, SMTT(30)
  <2> QED BY <2>3, <2>5, <2>6, Zenon DEF FillGrants
<1> QED BY <1>1, <1>4, <1>5, <1>6, <1>7, <1>8, SafeTyped, Zenon DEF TodoChange

(* Every grant ends below next. *)
LEMMA TiledBelow ==
  ASSUME NEW n \in Nat, NEW gs \in Seq(Grants), Tiled(n, gs), NEW g \in DOMAIN gs
  PROVE  /\ gs[g] \in Grants /\ gs[g].first \in Slots /\ gs[g].last \in Slots
         /\ gs[g].first <= gs[g].last /\ gs[g].last < n
<1>1. g \in 1 .. Len(gs) /\ Len(gs) \in Nat /\ \A i \in 1 .. Len(gs) : gs[i] \in Grants
  BY LenProperties, ElementOfSeq
<1>2. gs # <<>> /\ Len(gs) \in DOMAIN gs /\ gs[g] \in Grants /\ gs[Len(gs)] \in Grants
  BY <1>1, LenProperties, EmptyLen
<1>3. /\ gs[g].first \in Nat /\ gs[g].last \in Nat
      /\ gs[Len(gs)].first \in Nat /\ gs[Len(gs)].last \in Nat
  BY <1>2, Zenon DEF Grants
<1>4. /\ n = gs[Len(gs)].last + 1
      /\ gs[g].first <= gs[g].last /\ gs[g].first \in Slots /\ gs[g].last \in Slots
      /\ gs[Len(gs)].first <= gs[Len(gs)].last
      /\ g < Len(gs) => gs[g].last < gs[Len(gs)].first
  BY <1>2 DEF Tiled
<1>5. gs[g].last < n
  <2>1. CASE g = Len(gs)
    BY <1>3, <1>4, <2>1, SMTT(30)
  <2>2. CASE g < Len(gs)
    BY <1>3, <1>4, <2>2, SMTT(30)
  <2> QED BY <1>1, <2>1, <2>2, SMTT(30)
<1> QED BY <1>2, <1>4, <1>5

(* A grant other than that of the last slot handed out ends before it. *)
LEMMA TiledBefore ==
  ASSUME NEW n \in Nat, NEW gs \in Seq(Grants), Tiled(n, gs), NEW g \in DOMAIN gs,
         gs[g].first = n - 1, NEW i \in DOMAIN gs, i # g
  PROVE  gs[i].last < n - 1
<1>1. g \in Nat /\ i \in Nat
  BY LenProperties
<1>2. gs[g].first \in Nat /\ gs[g].last \in Nat /\ gs[g].first <= gs[g].last
  BY TiledBelow, Zenon DEF Grants
<1>3. gs[i].first \in Nat /\ gs[i].last \in Nat /\ gs[i].first <= gs[i].last /\ gs[i].last < n
  BY TiledBelow, Zenon DEF Grants
<1>4. (i < g => gs[i].last < gs[g].first) /\ (g < i => gs[g].last < gs[i].first)
  BY DEF Tiled
<1> QED BY <1>1, <1>2, <1>3, <1>4

(* Only heap_init leaves the call of heap_init. *)
LEMMA HeapHead ==
  ASSUME IteratorOK, TypeOK, HeapCall, HeapCall', Next, ~HeapAlloc, ~panicked, todo' # <<>>
  PROVE  Head(todo').op # "heap"
<1>0. todo \in Seq(Calls)
  BY DEF TypeOK
<1>1. ASSUME todo' \in Seq(ServiceCalls) PROVE Head(todo').op # "heap"
  <2>1. Head(todo') \in ServiceCalls
    BY <1>1, HeadTailProperties
  <2> QED BY <2>1 DEF ServiceCalls
<1>2. ASSUME todo # <<>> PROVE Tail(todo) \in Seq(ServiceCalls)
  BY <1>0, <1>2, TailTyped
<1>3. CASE MapPage \/ UnmapPage \/ ZeroFill \/ HeapMap
  <2>1. todo # <<>> /\ todo' = Tail(todo)
    BY <1>3, Zenon DEF MapPage, UnmapPage, ZeroFill, HeapMap
  <2> QED BY <1>1, <1>2, <2>1
<1>4. ASSUME todo # <<>>, NEW c \in ServiceCalls, todo' = <<c>> \o Tail(todo)
      PROVE  todo' \in Seq(ServiceCalls)
  <2>1. <<c>> \in Seq(ServiceCalls)
    OBVIOUS
  <2> QED BY <1>2, <1>4, <2>1, ConcatProperties
<1>5. CASE AddrAllocFrame
  <2>1. HasNth(next) /\ todo # <<>>
    BY <1>5 DEF AddrAllocFrame
  <2>2. Map(Window(nth(next)), nth(next)) \in ServiceCalls
    <3>1. nth(next) \in Nat /\ Window(nth(next)) \in Nat
      BY <2>1, NthType, ConstantsOK DEF HasNth, Window
    <3> QED BY <3>1, ServiceCallsTyped
  <2>3. todo' = <<Map(Window(nth(next)), nth(next))>> \o Tail(todo)
    BY <1>5, <2>1 DEF AddrAllocFrame
  <2> QED BY <1>1, <1>4, <2>1, <2>2, <2>3
<1>6. CASE Touch
  <2>1. todo # <<>> /\ Head(todo).op \in {"read", "write"}
    BY <1>6 DEF Touch
  <2>2. Map(Head(todo).page, Head(todo).page) \in ServiceCalls
    <3>1. Head(todo).page \in Nat
      BY <1>0, <2>1, TailTyped, CallFields, Zenon
    <3> QED BY <3>1, ServiceCallsTyped
  <2>3. \/ todo' = <<Map(Head(todo).page, Head(todo).page)>> \o Tail(todo)
        \/ todo' = <<>> \o Tail(todo)
    BY <1>6, Zenon DEF Touch
  <2>4. <<>> \o Tail(todo) \in Seq(ServiceCalls)
    BY <1>2, <2>1, EmptySeq, ConcatProperties
  <2> QED BY <1>1, <1>4, <2>1, <2>2, <2>3, <2>4, Zenon
<1>7. ASSUME Ready, UNCHANGED heap PROVE Head(todo').op # "heap"
  <2>1. HeapLen \in Nat /\ heap' = HeapLen
    BY <1>7, ConstantsOK DEF Ready
  <2>2. todo' \in Seq(ServiceCalls)
    BY <2>1 DEF HeapCall
  <2> QED BY <1>1, <2>2
<1>8. CASE PortStart \/ PhysMap \/ \E a, b \in FreeAddrs : PhysFree(a, b)
  BY <1>7, <1>8, Zenon DEF PortStart, PhysMap, PhysFree
<1>9. ASSUME NEW x, PmmAlloc(x) \/ AddrAlloc(x) \/ PhysAlloc(x) \/ Call(x)
      PROVE  Head(todo').op # "heap"
  BY <1>7, <1>9, Zenon DEF PmmAlloc, AddrAlloc, PhysAlloc, Call
<1>10. CASE PanicLoop
  BY <1>10 DEF PanicLoop
<1> QED BY <1>3, <1>5, <1>6, <1>8, <1>9, <1>10, Zenon
        DEF Next, HeapInit, Continue, MapDevice, UnmapDevice, AmlRead, AmlWrite, XhciMap, XhciUnmap, Access

(* A step that leaves the page table and the heap alone. *)
LEMMA HeapUntouched ==
  ASSUME TypeOK, [Next]_vars, disciplined', HeapOwn, WindowAbove, UNCHANGED <<pt, heap>>
  PROVE  HeapOwn' /\ WindowAbove'
<1>1. WindowAbove'
  BY Zenon DEF WindowAbove
<1>2. ASSUME NEW i \in 0 .. (heap - 1)
      PROVE  \E g \in DOMAIN grants' :
               /\ grants'[g].use = "heap" /\ grants'[g].first = grants'[g].last
               /\ pt[HeapBase + i] = nth(grants'[g].first)
  <2>1. PICK g \in DOMAIN grants :
               /\ grants[g].use = "heap" /\ grants[g].first = grants[g].last
               /\ pt[HeapBase + i] = nth(grants[g].first)
    BY DEF HeapOwn
  <2>2. g \in DOMAIN grants' /\ grants'[g] = grants[g]
    BY <2>1, GrantsKept, Zenon
  <2> QED BY <2>1, <2>2, Zenon
<1>3. HeapOwn'
  BY <1>2, SMTT(30) DEF HeapOwn
<1> QED BY <1>1, <1>3

(* heap_init obtains a frame that no heap page has. *)
LEMMA HeapAllocStep ==
  ASSUME IteratorOK, TypeOK, SlotsTiled, HeapAlloc, disciplined, ~panicked, ~panicked', HeapOwn
  PROVE  HeapPending'
<1>1. /\ next \in Nat /\ heap \in Nat /\ grants \in Seq(Grants) /\ Tiled(next, grants)
  BY DEF TypeOK, SlotsTiled, Grants
<1>2. HasNth(next) /\ heap < HeapLen /\ UNCHANGED <<heap, pt>>
  BY Zenon DEF HeapAlloc, AllocateFrame, HeapPagesLeft
<1> DEFINE c == [op |-> "heap", page |-> HeapBase + heap, frame |-> nth(next)]
           h == Grant(next, next, "heap")
<1>3. next' = next + 1 /\ grants' = Append(grants, h) /\ todo' = <<c>>
  BY <1>2 DEF HeapAlloc, AllocateFrame, Log
<1>4. (next + 1) - 1 = next
  BY <1>1
<1>5. Head(todo').page = HeapBase + heap /\ Head(todo').frame = nth(next)
  BY <1>3
<1>6. grants' # <<>> /\ grants'[Len(grants')] = h
  <2> HIDE DEF h
  <2> QED BY <1>1, <1>3, SMTT(30)
<1>7. ASSUME NEW i \in 0 .. (heap - 1) PROVE pt[HeapBase + i] # nth(next)
  <2>1. PICK g \in DOMAIN grants : /\ grants[g].first = grants[g].last
                                   /\ pt[HeapBase + i] = nth(grants[g].first)
    BY Zenon DEF HeapOwn
  <2>2. grants[g].first \in Slots /\ grants[g].first < next
    BY <1>1, <2>1, TiledBelow, Zenon
  <2>3. nth(grants[g].first) < nth(next) /\ nth(next) \in Nat /\ nth(grants[g].first) \in Nat
    BY <1>2, <2>2, NthMonotonic, NthType, Zenon DEF HasNth
  <2> QED BY <2>1, <2>3
<1>8. Grant(next' - 1, next' - 1, "heap") = h /\ nth(next' - 1) = nth(next)
  BY <1>3, <1>4, Zenon
<1> HIDE DEF c, h
<1> QED BY <1>2, <1>5, <1>6, <1>7, <1>8, Zenon DEF HeapPending

(* The fields of a grant. *)
LEMMA GrantFields ==
  ASSUME NEW first, NEW last, NEW use
  PROVE  /\ Grant(first, last, use).first = first /\ Grant(first, last, use).last = last
         /\ Grant(first, last, use).use = use
BY DEF Grant

(* heap_init maps it. *)
LEMMA HeapMapStep ==
  ASSUME TypeOK, HeapMap, disciplined, disciplined', ~panicked',
         HeapOwn, HeapPending, WindowAbove
  PROVE  HeapOwn' /\ WindowAbove'
<1> DEFINE page == Head(todo).page
           frame == Head(todo).frame
<1>1. /\ heap \in Nat /\ HeapLen \in Nat /\ HeapBase \in Nat /\ grants \in Seq(Grants)
      /\ DOMAIN pt \subseteq Nat
  BY ConstantsOK, SMTT(30) DEF TypeOK, Grants
<1>2. ~Mapped(page) /\ MapTo(page, frame) /\ heap' = heap + 1 /\ todo # <<>> /\ Head(todo).op = "heap"
  BY Zenon DEF HeapMap
<1>3. /\ page = HeapBase + heap /\ heap < HeapLen /\ frame = nth(next - 1)
      /\ grants # <<>> /\ grants[Len(grants)] = Grant(next - 1, next - 1, "heap")
      /\ \A i \in 0 .. (heap - 1) : pt[HeapBase + i] # frame
  BY <1>2, Zenon DEF HeapPending
<1> HIDE DEF page, frame
<1>4. pt' = [q \in DOMAIN pt \cup {page} |-> IF q = page THEN frame ELSE pt[q]]
  BY <1>2 DEF MapTo
<1>5. page \in DOMAIN pt' /\ pt'[page] = frame
  BY <1>4
<1>6. ASSUME NEW i \in 0 .. (heap - 1)
      PROVE  HeapBase + i \in DOMAIN pt' /\ pt'[HeapBase + i] = pt[HeapBase + i]
  <2>1. HeapBase + i \in DOMAIN pt
    BY DEF HeapOwn
  <2>2. HeapBase + i # page
    BY <1>1, <1>3, SMTT(30)
  <2> QED BY <1>4, <2>1, <2>2, Zenon
<1>7. ASSUME NEW g \in DOMAIN grants, grants[g].use = "heap", grants[g].first = grants[g].last
      PROVE  \E h \in DOMAIN grants' :
               /\ grants'[h].use = "heap" /\ grants'[h].first = grants'[h].last
               /\ nth(grants[g].first) = nth(grants'[h].first)
  <2>1. [Next]_vars
    BY DEF Next, HeapInit
  <2>2. g \in DOMAIN grants' /\ grants'[g] = grants[g]
    BY <1>7, <2>1, GrantsKept, Zenon
  <2> QED BY <1>7, <2>2
<1>8. ASSUME NEW i \in 0 .. heap
      PROVE  \E h \in DOMAIN grants' :
               /\ grants'[h].use = "heap" /\ grants'[h].first = grants'[h].last
               /\ pt'[HeapBase + i] = nth(grants'[h].first)
  <2>1. CASE i = heap
    <3> DEFINE g == Len(grants)
    <3>1. g \in DOMAIN grants
      BY <1>1, <1>3, LenProperties, EmptyLen, SMTT(30)
    <3>2. /\ grants[g].use = "heap" /\ grants[g].first = grants[g].last
          /\ grants[g].first = next - 1
      BY <1>3, GrantFields, SMTT(30)
    <3>3. pt'[HeapBase + i] = nth(grants[g].first)
      BY <1>3, <1>5, <2>1, <3>2, Zenon
    <3> HIDE DEF g
    <3> QED BY <1>7, <3>1, <3>2, <3>3, Zenon
  <2>2. CASE i < heap
    <3>1. i \in 0 .. (heap - 1)
      BY <1>1, <2>2, SMTT(30)
    <3>2. PICK g \in DOMAIN grants : /\ grants[g].use = "heap" /\ grants[g].first = grants[g].last
                                     /\ pt[HeapBase + i] = nth(grants[g].first)
      BY <3>1 DEF HeapOwn
    <3> QED BY <1>6, <1>7, <3>1, <3>2, Zenon
  <2> QED BY <1>1, <2>1, <2>2
<1>9. ASSUME NEW i \in 0 .. heap, NEW j \in 0 .. heap, i # j
      PROVE  pt'[HeapBase + i] # pt'[HeapBase + j]
  <2>1. CASE i = heap
    <3>1. j \in 0 .. (heap - 1)
      BY <1>1, <1>9, <2>1, SMTT(30)
    <3> QED BY <1>3, <1>5, <1>6, <2>1, <3>1
  <2>2. CASE j = heap
    <3>1. i \in 0 .. (heap - 1)
      BY <1>1, <1>9, <2>2
    <3> QED BY <1>3, <1>5, <1>6, <2>2, <3>1
  <2>3. CASE i # heap /\ j # heap
    <3>1. i \in 0 .. (heap - 1) /\ j \in 0 .. (heap - 1)
      BY <1>1, <2>3, SMTT(30)
    <3>2. pt[HeapBase + i] # pt[HeapBase + j]
      BY <1>9, <3>1 DEF HeapOwn
    <3> QED BY <1>6, <3>1, <3>2
  <2> QED BY <2>1, <2>2, <2>3, Zenon
<1>10. 0 .. (heap' - 1) = 0 .. heap
  BY <1>1, <1>2, SMTT(30)
<1>11. \A i \in 0 .. heap : HeapBase + i \in DOMAIN pt'
  <2>1. \A i \in 0 .. heap : i = heap \/ i \in 0 .. (heap - 1)
    BY <1>1
  <2> QED BY <1>3, <1>5, <1>6, <2>1
<1>12. HeapOwn'
  BY <1>8, <1>9, <1>10, <1>11, Zenon DEF HeapOwn
<1>13. WindowAbove'
  <2>1. page \in HeapPages
    BY <1>1, <1>3 DEF HeapPages
  <2> QED BY <1>4, <2>1 DEF WindowAbove
<1> QED BY <1>12, <1>13

(* map_page! and unmap_page! leave the heap's pages alone. *)
LEMMA MapStep ==
  ASSUME TypeOK, HeapCall, todo \in Seq(SafeCalls), MapPage \/ UnmapPage,
         disciplined', ~panicked', HeapOwn, WindowAbove
  PROVE  HeapOwn' /\ WindowAbove'
<1>0. /\ heap \in Nat /\ heap <= HeapLen /\ HeapLen \in Nat /\ HeapBase \in Nat
      /\ todo \in Seq(Calls) /\ todo # <<>> /\ UNCHANGED heap
  <2>1. todo # <<>> /\ UNCHANGED heap
    BY Zenon DEF MapPage, UnmapPage
  <2> QED BY <2>1, ConstantsOK DEF TypeOK
<1>1. [Next]_vars
  BY DEF Next, Continue
<1> DEFINE c == Head(todo)
<1>2. c \in SafeCalls
  BY <1>0, HeadTailProperties
<1>3. ASSUME \A i \in 0 .. (heap - 1) :
               HeapBase + i \in DOMAIN pt' /\ pt'[HeapBase + i] = pt[HeapBase + i]
      PROVE  HeapOwn'
  <2>1. ASSUME NEW i \in 0 .. (heap - 1)
        PROVE  \E g \in DOMAIN grants' :
                 /\ grants'[g].use = "heap" /\ grants'[g].first = grants'[g].last
                 /\ pt'[HeapBase + i] = nth(grants'[g].first)
    <3>1. PICK g \in DOMAIN grants :
                 /\ grants[g].use = "heap" /\ grants[g].first = grants[g].last
                 /\ pt[HeapBase + i] = nth(grants[g].first)
      BY Zenon DEF HeapOwn
    <3>2. g \in DOMAIN grants' /\ grants'[g] = grants[g]
      BY <1>1, <3>1, GrantsKept, Zenon
    <3> QED BY <1>3, <3>1, <3>2, Zenon
  <2>2. \A i, j \in 0 .. (heap - 1) : i # j => pt'[HeapBase + i] # pt'[HeapBase + j]
    BY <1>3, SMTT(30) DEF HeapOwn
  <2> QED BY <1>0, <1>3, <2>1, <2>2, Zenon DEF HeapOwn
<1>4. ASSUME NEW i \in 0 .. (heap - 1) PROVE HeapBase + i \in DOMAIN pt /\ HeapBase + i \in HeapPages
  <2>1. HeapBase + i \in HeapPages
    BY <1>0 DEF HeapPages
  <2> QED BY <2>1 DEF HeapOwn
<1>5. CASE UNCHANGED pt
  BY <1>3, <1>4, <1>5 DEF WindowAbove
<1>6. CASE MapPage /\ pt' # pt
  <2>1. ~Mapped(c.page) /\ MapTo(c.page, c.frame) /\ c.op = "map"
    BY <1>6, Zenon DEF MapPage
  <2>2. pt' = [q \in DOMAIN pt \cup {c.page} |-> IF q = c.page THEN c.frame ELSE pt[q]]
    BY <2>1 DEF MapTo
  <2>3. c.page \notin DOMAIN pt
    BY <2>1 DEF Mapped
  <2>4. c.frame + Offset + 1 >= c.page
    BY <1>2, <2>1, Zenon DEF SafeCalls
  <2> HIDE DEF c
  <2>5. HeapOwn'
    BY <1>3, <1>4, <2>2, <2>3, Zenon
  <2>6. WindowAbove'
    BY <2>2, <2>4 DEF WindowAbove
  <2> QED BY <2>5, <2>6, Zenon
<1>7. CASE UnmapPage /\ pt' # pt
  <2>1. c.op = "unmap" /\ pt' = [q \in DOMAIN pt \ {c.page} |-> pt[q]]
    BY <1>7, Zenon DEF UnmapPage
  <2>2. c.page \notin HeapPages
    BY <1>2, <2>1 DEF SafeCalls
  <2> HIDE DEF c
  <2>3. HeapOwn'
    BY <1>3, <1>4, <2>1, <2>2
  <2>4. WindowAbove'
    BY <2>1 DEF WindowAbove
  <2> QED BY <2>3, <2>4, Zenon
<1> QED BY <1>5, <1>6, <1>7, Zenon

(* The frames counted by a fill that starts at frame f are at or above it. *)
LEMMA FillRange ==
  ASSUME NEW f \in Nat, NEW n \in Nat, NEW x \in f .. (f + n - 1)
  PROVE  x \in Nat /\ x >= f /\ x \in f .. x
OBVIOUS

(* A page of the fill, other than its first, that leads to a frame at most *)
(* one below its own leads to no frame below the fill.                     *)
LEMMA FillAbove ==
  ASSUME NEW f \in Nat, NEW x \in Nat, NEW y \in Nat, x >= f, x # f, y + Offset + 1 >= Offset + x
  PROVE  y >= f
BY ConstantsOK

(* A frame of a grant that ends below the fill is not one of the fill's.   *)
LEMMA FillBelow ==
  ASSUME NEW f \in Nat, NEW x \in Nat, NEW m \in Nat, x <= m, m < f
  PROVE  x < f /\ ~(x >= f)
OBVIOUS

(* What pmm_alloc zeroes lies at or above its own frame, and every other   *)
(* grant below it.                                                         *)
LEMMA WipeStep ==
  ASSUME IteratorOK, TypeOK, todo \in Seq(SafeCalls), SlotsTiled, disciplined, ~panicked,
         WindowAbove, Fills(todo, next), FillGrants(todo, grants), ZeroFill
  PROVE  wiped' = wiped
<1> DEFINE c == Head(todo)
           f == nth(c.slot)
           range  == f .. (f + FillPages[c.use] - 1)
           filled == {x \in range : \A h \in f .. x : Mapped(Window(h))}
           behind == {IF Window(x) \in HugePages THEN x ELSE pt[Window(x)] : x \in filled}
           rest == {j \in DOMAIN grants : grants[j].first # c.slot}
           others == UNION {Frames(grants[i]) : i \in rest}
<1>0. /\ next \in Nat /\ grants \in Seq(Grants) /\ Tiled(next, grants) /\ todo # <<>> /\ c.op = "fill"
      /\ DOMAIN pt \subseteq Nat /\ \A p \in DOMAIN pt : pt[p] \in Nat
  <2>1. next \in Nat /\ grants \in Seq(Grants) /\ Tiled(next, grants)
    BY Zenon DEF TypeOK, SlotsTiled, Grants
  <2>2. todo # <<>> /\ c.op = "fill"
    BY Zenon DEF ZeroFill
  <2>3. DOMAIN pt \subseteq Nat /\ \A p \in DOMAIN pt : pt[p] \in Nat
    BY Zenon DEF TypeOK
  <2> QED BY <2>1, <2>2, <2>3, Zenon
<1>1. wiped' = wiped \cup (others \cap behind)
  BY Zenon DEF ZeroFill
<1> HIDE DEF c, f, range, filled, behind, rest, others
<1>2. 1 \in 1 .. Len(todo) /\ todo[1] = c /\ c \in SafeCalls
  BY <1>0, HeadTailProperties, LenProperties, EmptyLen, SMTT(30) DEF c
<1>3. c.slot \in Slots /\ c.use \in {"dma4", "dma8"}
  BY <1>0, <1>2, CallFields, Zenon DEF SafeCalls
<1>4. c.slot = next - 1
  BY <1>0, <1>2, Zenon DEF Fills
<1>5. PICK g \in DOMAIN grants : grants[g].first = c.slot /\ grants[g].last = c.slot
  BY <1>0, <1>2 DEF FillGrants
<1>6. f \in Nat /\ Offset \in Nat /\ FillPages[c.use] \in Nat \ {0} /\ c.slot \in Nat
  BY <1>3, NthType, ConstantsOK, Zenon DEF f
<1>7. ASSUME NEW i \in rest, NEW x \in Frames(grants[i]) PROVE ~(x >= f)
  <2>1. i \in DOMAIN grants /\ i # g /\ i \in Nat /\ g \in Nat
    BY <1>0, <1>5, LenProperties, SMTT(30) DEF rest
  <2>2. /\ grants[i] \in Grants /\ grants[i].first \in Slots /\ grants[i].last \in Slots
        /\ grants[i].first <= grants[i].last /\ grants[i].last < next
    BY <1>0, <2>1, TiledBelow, Zenon
  <2>3. grants[i].last \in Nat /\ grants[i].first \in Nat
    BY <2>2 DEF Grants
  <2>4. grants[i].last < c.slot
    BY <1>0, <1>4, <1>5, <2>1, TiledBefore, Zenon
  <2>5. nth(grants[i].last) < f /\ nth(grants[i].last) \in Nat
    BY <1>3, <2>2, <2>4, NthMonotonic, NthType, Zenon DEF f
  <2>6. grants[i].use # "phys" => grants[i].first .. grants[i].last \subseteq Slots
    BY <1>0, <2>1, SMTT(30) DEF Tiled
  <2>7. x \in Nat /\ x <= nth(grants[i].last)
    BY <2>2, <2>6, FramesBounds, Zenon
  <2> QED BY <1>6, <2>5, <2>7, FillBelow, Zenon
<1>8. ASSUME NEW x \in filled PROVE (IF Window(x) \in HugePages THEN x ELSE pt[Window(x)]) >= f
  <2>1. x \in Nat /\ x >= f /\ x \in f .. x /\ x \in f .. (f + FillPages[c.use] - 1)
    <3>1. x \in f .. (f + FillPages[c.use] - 1)
      BY Zenon DEF filled, range
    <3>2. FillPages[c.use] \in Nat
      BY <1>6, Zenon
    <3> QED BY <1>6, <3>1, <3>2, FillRange, Zenon
  <2>2. Mapped(Window(x))
    BY <2>1, Zenon DEF filled
  <2>3. CASE Window(x) \in HugePages
    BY <2>1, <2>3, Zenon
  <2>4. CASE Window(x) \notin HugePages
    <3>1. Window(x) \in DOMAIN pt
      BY <2>2, <2>4 DEF Mapped
    <3>2. Window(x) \notin HeapPages
      BY <1>3, <2>1, LayoutOK DEF f
    <3>3. x # f
      <4>1. f \in 0 .. nth(c.slot)
        BY <1>6 DEF f
      <4>2. Window(f) \in HugePages
        BY <1>3, <4>1, LayoutOK, Zenon
      <4> QED BY <2>4, <4>2, Zenon
    <3>4. pt[Window(x)] + Offset + 1 >= Window(x) /\ pt[Window(x)] \in Nat
      BY <1>0, <3>1, <3>2 DEF WindowAbove
    <3>5. pt[Window(x)] + Offset + 1 >= Offset + x
      BY <3>4, Zenon DEF Window
    <3>6. pt[Window(x)] >= f
      BY <1>6, <2>1, <3>3, <3>4, <3>5, FillAbove, Zenon
    <3> QED BY <2>4, <3>6, Zenon
  <2> QED BY <2>3, <2>4, Zenon
<1>9. \A x \in others : ~(x >= f)
  BY <1>7, Zenon DEF others
<1>10. \A y \in behind : y >= f
  BY <1>8, Zenon DEF behind
<1>11. others \cap behind = {}
  BY <1>9, <1>10, Zenon
<1> QED BY <1>1, <1>11, Zenon

(* Every step keeps the heap's frames and the order of the window. *)
LEMMA MemoryStep ==
  ASSUME IteratorOK, TypeOK, HeapCall, SlotsTiled, todo \in Seq(SafeCalls), MemoryOK, NothingWiped, [Next]_vars,
         TypeOK', HeapCall'
  PROVE  MemoryOK' /\ NothingWiped'
<1>1. disciplined' => disciplined
  <2>1. CASE \E a, b \in FreeAddrs : PhysFree(a, b)
    BY <2>1, Zenon DEF PhysFree
  <2>2. CASE UNCHANGED disciplined
    BY <2>2
  <2>3. ASSUME NEW x, PmmAlloc(x) \/ AddrAlloc(x) \/ PhysAlloc(x) \/ Call(x) PROVE UNCHANGED disciplined
    BY <2>3, Zenon DEF PmmAlloc, AddrAlloc, PhysAlloc, Call
  <2>4. CASE HeapAlloc \/ HeapMap \/ MapPage \/ UnmapPage \/ ZeroFill \/ AddrAllocFrame \/ Touch
    BY <2>2, <2>4, Zenon DEF HeapAlloc, HeapMap, MapPage, UnmapPage, ZeroFill, AddrAllocFrame, Touch
  <2>5. CASE PortStart \/ PhysMap \/ PanicLoop \/ UNCHANGED vars
    BY <2>2, <2>5, Zenon DEF PortStart, PhysMap, PanicLoop, vars
  <2> QED BY <2>1, <2>2, <2>3, <2>4, <2>5, Zenon
          DEF Next, HeapInit, Continue, MapDevice, UnmapDevice, AmlRead, AmlWrite, XhciMap, XhciUnmap, Access
<1>2. panicked => UNCHANGED vars
  <2>1. ASSUME NEW x, NEW y, panicked PROVE ~(PmmAlloc(x) \/ AddrAlloc(x) \/ PhysAlloc(x) \/ PhysFree(x, y) \/ Call(x))
    BY <2>1, Zenon DEF PmmAlloc, AddrAlloc, PhysAlloc, PhysFree, Call, Ready, Running
  <2>2. ASSUME panicked PROVE ~(HeapInit \/ Continue \/ PortStart \/ PhysMap)
    BY <2>2, Zenon DEF HeapInit, Continue, HeapAlloc, HeapMap, MapPage, UnmapPage, ZeroFill,
                       AddrAllocFrame, Touch, PortStart, PhysMap, Ready, Running
  <2> QED BY <2>1, <2>2, Zenon
          DEF Next, PanicLoop, MapDevice, UnmapDevice, AmlRead, AmlWrite, XhciMap, XhciUnmap, Access
<1>3. CASE UNCHANGED vars
  BY <1>3 DEF vars, MemoryOK, NothingWiped, HeapOwn, HeapPending, WindowAbove
<1>4. ASSUME Next, ~panicked, disciplined', ~panicked'
      PROVE  HeapOwn' /\ HeapPending' /\ WindowAbove' /\ Fills(todo', next') /\ FillGrants(todo', grants')
  <2>1. disciplined /\ HeapOwn /\ HeapPending /\ WindowAbove /\ Fills(todo, next) /\ FillGrants(todo, grants)
    BY <1>1, <1>4, Zenon DEF MemoryOK
  <2>2. Fills(todo', next') /\ FillGrants(todo', grants')
    BY <1>4, <2>1, FillStep, FillGrantStep
  <2>3. HeapPending'
    <3>1. CASE HeapAlloc
      BY <1>4, <2>1, <3>1, HeapAllocStep, Zenon
    <3>2. CASE ~HeapAlloc
      BY <1>4, <3>2, HeapHead DEF HeapPending
    <3> QED BY <3>1, <3>2
  <2>4. HeapOwn' /\ WindowAbove'
    <3>1. CASE HeapMap
      BY <1>4, <2>1, <3>1, HeapMapStep
    <3>2. CASE MapPage \/ UnmapPage
      BY <1>4, <2>1, <3>2, MapStep, Zenon
    <3>3. CASE UNCHANGED <<pt, heap>>
      BY <1>4, <2>1, <3>3, HeapUntouched
    <3>4. CASE HeapAlloc \/ ZeroFill \/ Touch \/ AddrAllocFrame \/ PortStart \/ PhysMap \/ PanicLoop
      BY <3>3, <3>4, Zenon DEF HeapAlloc, ZeroFill, Touch, AddrAllocFrame, PortStart, PhysMap, PanicLoop, vars
    <3>5. ASSUME NEW x, NEW y, PmmAlloc(x) \/ AddrAlloc(x) \/ PhysAlloc(x) \/ PhysFree(x, y) \/ Call(x)
          PROVE  UNCHANGED <<pt, heap>>
      BY <3>5, Zenon DEF PmmAlloc, AddrAlloc, PhysAlloc, PhysFree, Call
    <3> QED BY <1>4, <3>1, <3>2, <3>3, <3>4, <3>5, Zenon
            DEF Next, HeapInit, Continue, MapDevice, UnmapDevice, AmlRead, AmlWrite, XhciMap, XhciUnmap, Access
  <2> QED BY <2>2, <2>3, <2>4
<1>5. ASSUME Next, ~panicked PROVE NothingWiped'
  <2>1. CASE UNCHANGED wiped
    BY <1>1, <2>1, Zenon DEF NothingWiped
  <2>2. CASE ZeroFill
    <3>1. disciplined' => wiped' = wiped
      BY <1>1, <1>5, <2>2, WipeStep DEF MemoryOK
    <3> QED BY <1>1, <3>1, Zenon DEF NothingWiped
  <2>3. CASE HeapAlloc \/ HeapMap \/ MapPage \/ UnmapPage \/ Touch \/ AddrAllocFrame
    BY <2>1, <2>3, Zenon DEF HeapAlloc, HeapMap, MapPage, UnmapPage, Touch, AddrAllocFrame
  <2>4. CASE PortStart \/ PhysMap \/ PanicLoop
    BY <2>1, <2>4, Zenon DEF PortStart, PhysMap, PanicLoop, vars
  <2>5. ASSUME NEW x, NEW y, PmmAlloc(x) \/ AddrAlloc(x) \/ PhysAlloc(x) \/ PhysFree(x, y) \/ Call(x)
        PROVE  UNCHANGED wiped
    BY <2>5, Zenon DEF PmmAlloc, AddrAlloc, PhysAlloc, PhysFree, Call
  <2> QED BY <1>5, <2>1, <2>2, <2>3, <2>4, <2>5, Zenon
          DEF Next, HeapInit, Continue, MapDevice, UnmapDevice, AmlRead, AmlWrite, XhciMap, XhciUnmap, Access
<1>6. MemoryOK'
  BY <1>2, <1>3, <1>4, Zenon DEF MemoryOK
<1> QED BY <1>2, <1>3, <1>5, <1>6, Zenon

(* A heap page's frame is in the heap's grant, hence in no other. *)
LEMMA HeapOwnBacked ==
  ASSUME TypeOK, GrantsDisjoint, MemoryOK
  PROVE  HeapBacked
<1> SUFFICES ASSUME disciplined, ~panicked, NEW i \in 0 .. (heap - 1)
             PROVE  /\ HeapBase + i \in DOMAIN pt
                    /\ \A j \in 0 .. (heap - 1) : i # j => pt[HeapBase + i] # pt[HeapBase + j]
                    /\ \A g \in DOMAIN grants :
                         pt[HeapBase + i] \in Frames(grants[g]) => grants[g].use = "heap"
  BY Zenon DEF HeapBacked
<1>1. PICK h \in DOMAIN grants : /\ grants[h].use = "heap" /\ grants[h].first = grants[h].last
                                 /\ pt[HeapBase + i] = nth(grants[h].first)
  BY Zenon DEF MemoryOK, HeapOwn
<1>2. ASSUME NEW g \in DOMAIN grants, pt[HeapBase + i] \in Frames(grants[g])
      PROVE  grants[g].use = "heap"
  <2>1. CASE g = h
    BY <1>1, <2>1, Zenon
  <2>2. CASE g # h
    <3>1. Frames(grants[g]) \cap Frames(grants[h]) = {}
      BY <2>2 DEF GrantsDisjoint
    <3>2. grants[h].first \in Nat
      <4>1. grants \in Seq(Grants) /\ h \in 1 .. Len(grants)
        BY LenProperties, Zenon DEF TypeOK, Grants
      <4>2. grants[h] \in Grants
        BY <4>1, ElementOfSeq, Zenon
      <4> QED BY <4>2 DEF Grants
    <3>3. grants[h].first \in grants[h].first .. grants[h].last
      BY <1>1, <3>2, SMTT(30)
    <3>4. pt[HeapBase + i] \in Frames(grants[h])
      BY <1>1, <3>3 DEF Frames
    <3> QED BY <1>2, <3>1, <3>4
  <2> QED BY <2>1, <2>2, Zenon
<1> QED BY <1>2 DEF MemoryOK, HeapOwn

(* Initially nothing is mapped and nothing is to be done. *)
LEMMA StartMemory ==
  ASSUME Init
  PROVE  todo \in Seq(SafeCalls) /\ MemoryOK /\ NothingWiped
<1>1. todo = <<>> /\ heap = 0 /\ DOMAIN pt = {} /\ wiped = {}
  BY Zenon DEF Init
<1>2. todo \in Seq(SafeCalls)
  BY <1>1, SafeTyped
<1>3. Len(todo) = 0 /\ 1 .. Len(todo) = {} /\ 0 .. (heap - 1) = {}
  BY <1>1
<1>4. HeapOwn /\ HeapPending /\ WindowAbove
  BY <1>1, <1>3, Zenon DEF HeapOwn, HeapPending, WindowAbove
<1>5. Fills(todo, next) /\ FillGrants(todo, grants)
  BY <1>3, Zenon DEF Fills, FillGrants
<1> QED BY <1>1, <1>2, <1>4, <1>5, Zenon DEF MemoryOK, NothingWiped

-----------------------------------------------------------------------------
(* The iterator's facts rest on those of finite sets. *)
FS == INSTANCE FiniteSetTheorems

(* The instance's operators are the ones KernelFrames uses. *)
LEMMA SameSets ==
  ASSUME NEW S
  PROVE  (IsFiniteSet(S) <=> FS!IsFiniteSet(S)) /\ Cardinality(S) = FS!Cardinality(S)
<1>1. IsFiniteSet(S) <=> FS!IsFiniteSet(S)
  BY DEF IsFiniteSet, FS!IsFiniteSet
<1>2. Cardinality(S) = FS!Cardinality(S)
  BY Zenon DEF Cardinality, FS!Cardinality
<1> QED BY <1>1, <1>2, Zenon

(* A finite set has a size, and its subsets are finite and no larger. *)
LEMMA FiniteSubset ==
  ASSUME NEW S, IsFiniteSet(S), NEW T \in SUBSET S
  PROVE  /\ IsFiniteSet(T) /\ Cardinality(T) <= Cardinality(S)
         /\ Cardinality(S) \in Nat /\ Cardinality(T) \in Nat
<1>1. FS!IsFiniteSet(S)
  BY SameSets
<1>2. FS!IsFiniteSet(T) /\ FS!Cardinality(T) <= FS!Cardinality(S)
  BY <1>1, FS!FS_Subset, Zenon
<1>3. FS!Cardinality(S) \in Nat /\ FS!Cardinality(T) \in Nat
  BY <1>1, <1>2, FS!FS_CardinalityType, Zenon
<1> QED BY <1>2, <1>3, SameSets

(* Intervals and products of finite sets are finite. *)
LEMMA FiniteInterval ==
  ASSUME NEW a \in Int, NEW b \in Int
  PROVE  IsFiniteSet(a .. b)
BY FS!FS_Interval, SameSets

LEMMA FiniteProduct ==
  ASSUME NEW S, IsFiniteSet(S), NEW T, IsFiniteSet(T)
  PROVE  IsFiniteSet(S \X T)
<1>1. FS!IsFiniteSet(S) /\ FS!IsFiniteSet(T)
  BY SameSets
<1>2. FS!IsFiniteSet(S \X T)
  BY <1>1, FS!FS_Product, Zenon
<1> QED BY <1>2, SameSets

(* So is the range of a function on a finite set. *)
LEMMA FiniteRange ==
  ASSUME NEW S, IsFiniteSet(S), NEW f, DOMAIN f = S, f = [x \in S |-> f[x]]
  PROVE  IsFiniteSet({f[x] : x \in S})
<1> DEFINE T == {f[x] : x \in S}
<1>1. f \in FS!Surjection(S, T)
  BY Zenon DEF FS!Surjection
<1> HIDE DEF T
<1>2. FS!IsFiniteSet(S)
  BY SameSets, Zenon
<1>3. FS!IsFiniteSet(T)
  BY <1>1, <1>2, FS!FS_Surjection, Zenon
<1>4. IsFiniteSet(T)
  BY <1>3, SameSets, Zenon
<1> QED BY <1>4 DEF T

(* The bounds of a region of the memory map are numbers. *)
LEMMA RegionBounds ==
  ASSUME NEW i \in DOMAIN Regions
  PROVE  /\ Regions[i].start \in Nat /\ Regions[i].end \in Nat
         /\ i \in Nat
<1> DEFINE R == [start : Nat, end : Nat, kind : {"Usable", "Reserved"}]
<1>1. Regions \in Seq(R)
  BY RegionsOK
<1>2. DOMAIN Regions = 1 .. Len(Regions) /\ Len(Regions) \in Nat
  BY <1>1, LenProperties
<1>3. Regions[i] \in R
  BY <1>1, <1>2, ElementOfSeq, Zenon
<1> QED BY <1>2, <1>3, SMTT(30)

(* The iterator usable() runs over finitely many frames. *)
LEMMA CellsFinite == IsFiniteSet(Cells)
<1> DEFINE n == Len(Regions)
<1> DEFINE top == Regions[n].end
<1>1. CASE n = 0
  <2>1. DOMAIN Regions = {}
    BY <1>1, RegionsOK, SMTT(30)
  <2>2. Cells = {}
    BY <2>1 DEF Cells
  <2> QED BY <2>2, FiniteInterval, SMTT(30)
<1>2. CASE n # 0
  <2>1. n \in DOMAIN Regions /\ n \in Nat /\ DOMAIN Regions = 1 .. n
    BY <1>2, RegionsOK, SMTT(30)
  <2>2. top \in Nat
    BY <2>1, RegionBounds, Zenon
  <2>3. ASSUME NEW i \in DOMAIN Regions PROVE Regions[i].end <= top
    <3>1. CASE i = n
      BY <3>1, <2>2, SMTT(30)
    <3>2. CASE i < n
      <4>1. Regions[i].end <= Regions[n].start /\ Regions[n].start <= top
        BY <3>2, <2>1, RegionsOK, Zenon
      <4> QED BY <4>1, <2>1, <2>2, RegionBounds, SMTT(30)
    <3> QED BY <3>1, <3>2, <2>1, SMTT(30)
  <2>4. Cells \in SUBSET ((1 .. n) \X (0 .. top))
    <3> SUFFICES ASSUME NEW c \in Cells PROVE c \in (1 .. n) \X (0 .. top)
      OBVIOUS
    <3>1. c[1] \in DOMAIN Regions /\ Regions[c[1]].start <= c[2] /\ c[2] < Regions[c[1]].end
      BY Zenon DEF Cells
    <3>2. c = <<c[1], c[2]>> /\ c[2] \in UNION {Regions[i].start .. Regions[i].end : i \in DOMAIN Regions}
      BY DEF Cells
    <3>3. c[2] \in Nat
      BY <3>2, RegionBounds, SMTT(30)
    <3>4. c[2] <= top
      BY <3>1, <3>3, <2>2, <2>3, RegionBounds, SMTT(30)
    <3> QED BY <3>1, <3>2, <3>3, <3>4, <2>1, <2>2, SMTT(30)
  <2>5. IsFiniteSet((1 .. n) \X (0 .. top))
    <3> HIDE DEF n, top
    <3>1. IsFiniteSet(1 .. n) /\ IsFiniteSet(0 .. top)
      BY <2>1, <2>2, FiniteInterval, SMTT(30)
    <3> QED BY <3>1, FiniteProduct, Zenon
  <2> QED BY <2>4, <2>5, FiniteSubset, Zenon
<1> QED BY <1>1, <1>2

(* A cell is a region and a frame within its bounds. *)
LEMMA CellType ==
  ASSUME NEW c \in Cells
  PROVE  /\ c[1] \in DOMAIN Regions /\ c[1] \in Nat /\ c[2] \in Nat
         /\ c = <<c[1], c[2]>>
         /\ Regions[c[1]].start <= c[2] /\ c[2] < Regions[c[1]].end
BY RegionBounds DEF Cells

(* Only finitely many cells come before a cell. *)
LEMMA BeforeFinite ==
  ASSUME NEW c \in Cells
  PROVE  IsFiniteSet(Before(c)) /\ Cardinality(Before(c)) \in Nat
<1>1. Before(c) \in SUBSET Cells
  BY DEF Before
<1>2. IsFiniteSet(Before(c))
  BY <1>1, CellsFinite, FiniteSubset, Zenon
<1> QED BY <1>2, FiniteSubset

(* A slot number identifies a frame of a usable region. *)
LEMMA SlotCell ==
  ASSUME NEW n \in Slots
  PROVE  /\ n \in Nat
         /\ \E c \in Cells : Cardinality(Before(c)) = n /\ nth(n) = c[2]
<1>1. \E c \in Cells : Cardinality(Before(c)) = n
  BY DEF Slots
<1>2. DEFINE d == CHOOSE c \in Cells : Cardinality(Before(c)) = n
<1>3. d \in Cells /\ Cardinality(Before(d)) = n
  BY <1>1, Zenon
<1>4. nth(n) = d[2]
  BY DEF nth, usable
<1> QED BY <1>3, <1>4, BeforeFinite, Zenon

(* nth(n) is a frame number. *)
LEMMA FrameType ==
  ASSUME NEW n \in Slots
  PROVE  nth(n) \in Nat
BY SlotCell, CellType, Zenon

(* usable() yields frames in strictly ascending order, across regions. *)
LEMMA Ascending ==
  ASSUME NEW m \in Slots, NEW n \in Slots, m < n
  PROVE  nth(m) < nth(n)
<1>1. PICK c \in Cells : Cardinality(Before(c)) = m /\ nth(m) = c[2]
  BY SlotCell, Zenon
<1>2. PICK d \in Cells : Cardinality(Before(d)) = n /\ nth(n) = d[2]
  BY SlotCell
<1>3. m \in Nat /\ n \in Nat
  BY SlotCell, Zenon
<1>4. ~Earlier(d, c)
  <2> SUFFICES ASSUME Earlier(d, c) PROVE FALSE
    OBVIOUS
  <2>1. Before(d) \in SUBSET Before(c)
    <3> SUFFICES ASSUME NEW b \in Cells, Earlier(b, d) PROVE Earlier(b, c)
      BY Zenon DEF Before
    <3> QED BY CellType DEF Earlier
  <2>2. Cardinality(Before(d)) <= Cardinality(Before(c))
    BY <2>1, BeforeFinite, FiniteSubset, Zenon
  <2> QED BY <2>2, <1>1, <1>2, <1>3, SMTT(30)
<1>5. c # d
  BY <1>1, <1>2, <1>3, SMTT(30)
<1>6. Earlier(c, d)
  BY <1>4, <1>5, CellType, SMTT(30) DEF Earlier
<1>7. CASE c[1] = d[1]
  BY <1>1, <1>2, <1>6, <1>7, CellType, SMTT(30) DEF Earlier
<1>8. CASE c[1] < d[1]
  <2>1. c[1] \in DOMAIN Regions /\ d[1] \in DOMAIN Regions
    BY CellType, Zenon
  <2>2. Regions[c[1]].end <= Regions[d[1]].start
    BY <2>1, <1>8, RegionsOK, Zenon
  <2>3. c[2] < Regions[c[1]].end /\ Regions[d[1]].start <= d[2]
    BY CellType, Zenon
  <2>4. c[2] \in Nat /\ d[2] \in Nat
    BY CellType, Zenon
  <2> QED BY <1>1, <1>2, <2>1, <2>2, <2>3, <2>4, RegionBounds, SMTT(30)
<1> QED BY <1>6, <1>7, <1>8, Zenon DEF Earlier

(* map_to creates finitely many page tables. *)
LEMMA MissingFinite ==
  ASSUME NEW p \in Nat
  PROVE  Cardinality(Missing(p)) \in Nat
<1> DEFINE levels == DOMAIN Spans
           t == [l \in levels |-> <<l, p \div Spans[l]>>]
<1>1. levels = 1 .. Len(Spans) /\ Len(Spans) \in Nat
  BY ConstantsOK, LenProperties
<1>2. IsFiniteSet(levels)
  BY <1>1, FiniteInterval
<1>3. {t[l] : l \in levels} = TablesOf(p)
  BY Zenon DEF TablesOf
<1>4. IsFiniteSet(TablesOf(p))
  <2>1. DOMAIN t = levels /\ t = [l \in levels |-> t[l]]
    BY Zenon
  <2> HIDE DEF t, levels
  <2>2. IsFiniteSet({t[l] : l \in levels})
    BY <1>2, <2>1, FiniteRange, SMTT(30)
  <2> QED BY <1>3, <2>2
<1> QED BY <1>4, FiniteSubset, Zenon DEF Missing

(* IteratorOK for every memory map. *)
LEMMA Iterator == IteratorOK
<1>1. \A n \in Slots : n \in Nat /\ nth(n) \in Nat
  BY SlotCell, FrameType, Zenon
<1>2. \A m, n \in Slots : m < n => nth(m) < nth(n)
  BY Ascending, Zenon
<1>3. \A p \in Nat : Cardinality(Missing(p)) \in Nat
  BY MissingFinite, Zenon
<1> QED BY <1>1, <1>2, <1>3, Zenon DEF IteratorOK

-----------------------------------------------------------------------------
(* The theorems. *)

(* Type correctness of KernelFrames, for every memory map: in particular   *)
(* the counter of KernelFrameAlloc never goes below zero and heap_init     *)
(* never maps more than HEAP_LEN pages.                                    *)
THEOREM TypeCorrect == Spec => []TypeOK
<1>1. Init => TypeOK /\ HeapCall
  BY Start
<1>2. TypeOK /\ HeapCall /\ [Next]_vars => (TypeOK /\ HeapCall)'
  BY TypeStep, Iterator
<1> QED BY <1>1, <1>2, PTL DEF Spec

(* While frees are LIFO the outstanding grants tile the slots below next:  *)
(* KernelFrameAlloc loses no slot and hands none out twice.                *)
THEOREM Tiling == Spec => []SlotsTiled
<1>1. Init => TypeOK /\ HeapCall /\ SlotsTiled
  BY Start
<1>2. TypeOK /\ HeapCall /\ SlotsTiled /\ [Next]_vars => (TypeOK /\ HeapCall /\ SlotsTiled)'
  BY TypeStep, TileStep, Iterator, Zenon
<1> QED BY <1>1, <1>2, PTL DEF Spec

(* While frees are LIFO no frame belongs to two owners: the heap, page     *)
(* tables, DMA buffers, objects and physalloc ranges are pairwise          *)
(* disjoint, for every memory map with ordered, disjoint regions.          *)
THEOREM Disjointness == Spec => []GrantsDisjoint
<1>1. Init => TypeOK /\ HeapCall /\ SlotsTiled
  BY Start
<1>2. TypeOK /\ HeapCall /\ SlotsTiled /\ [Next]_vars => (TypeOK /\ HeapCall /\ SlotsTiled)'
  BY TypeStep, TileStep, Iterator, Zenon
<1>3. TypeOK /\ SlotsTiled => GrantsDisjoint
  BY TiledDisjoint, Iterator, Zenon
<1> QED BY <1>1, <1>2, <1>3, PTL DEF Spec

(* The invariant of calls, heap, window and fills. *)
THEOREM MemoryInvariance ==
  Spec => [](TypeOK /\ HeapCall /\ SlotsTiled /\ todo \in Seq(SafeCalls) /\ MemoryOK /\ NothingWiped)
<1> DEFINE I == TypeOK /\ HeapCall /\ SlotsTiled /\ todo \in Seq(SafeCalls) /\ MemoryOK /\ NothingWiped
<1>1. Init => I
  <2> SUFFICES ASSUME Init PROVE I
    OBVIOUS
  <2>1. TypeOK /\ HeapCall /\ SlotsTiled
    BY Start
  <2>2. todo \in Seq(SafeCalls) /\ MemoryOK /\ NothingWiped
    BY StartMemory, Zenon
  <2> QED BY <2>1, <2>2, Zenon
<1>2. I /\ [Next]_vars => I'
  <2> SUFFICES ASSUME I, [Next]_vars PROVE I'
    OBVIOUS
  <2>1. TypeOK' /\ HeapCall'
    BY TypeStep, Iterator, Zenon
  <2>2. SlotsTiled'
    BY TileStep, Iterator, Zenon
  <2>3. (todo \in Seq(SafeCalls))'
    BY SafeStep, Iterator, Zenon
  <2>4. MemoryOK' /\ NothingWiped'
    BY <2>1, MemoryStep, Iterator, Zenon
  <2> QED BY <2>1, <2>2, <2>3, <2>4, Zenon
<1> QED BY <1>1, <1>2, PTL DEF Spec

(* HeapBacked for every memory map and layout: while frees are LIFO, every *)
(* page heap_init has finished keeps a frame of its own that no other      *)
(* owner gets, whatever services run afterwards.                           *)
THEOREM HeapFrames == Spec => []HeapBacked
<1>1. TypeOK /\ SlotsTiled /\ MemoryOK => HeapBacked
  BY TiledDisjoint, HeapOwnBacked, Iterator
<1> QED BY <1>1, MemoryInvariance, PTL

(* NothingWiped for every memory map and every size of the fill: pmm_alloc *)
(* zeroes no frame of another owner, though it fills more than it owns.    *)
THEOREM NoWipe == Spec => []NothingWiped
BY MemoryInvariance, PTL

=============================================================================
