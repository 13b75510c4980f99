------------------------ MODULE CanvasXhciRunnerProofs ----------------------
(***************************************************************************)
(* Proofs about three components that share no state: Canvas for any size  *)
(* of screen, any stride and any colours, XhciController for any number of *)
(* interrupters and ports, and Runner for every host.                      *)
(***************************************************************************)
EXTENDS Canvas, XhciController, Runner, TLAPS

-----------------------------------------------------------------------------
(***************************************************************************)
(* Canvas                                                                  *)
(***************************************************************************)
Canvases == [pixels : [0 .. (Size - 1) -> Cells], drawn : [Points -> Cells], id : Nat]

(* Types of the variables. *)
TypeOK ==
  /\ stride \in Nat /\ stride >= Width
  /\ screen \in [0 .. (stride * Height - 1) -> Cells]
  /\ canvas # None => canvas \in Canvases
  /\ table \in Seq(Canvases)
  /\ merged # None => merged \in 0 .. Len(table)

(* A canvas holds, in the order of the frame buffer, what it should show. *)
Exact(c) == \A p \in Points : Covered(p) => c.pixels[Offset(p)] = c.drawn[p]

(* The canvas being drawn and those registered do. *)
AllExact ==
  /\ canvas # None => Exact(canvas)
  /\ \A k \in DOMAIN table : Exact(table[k])

(* Canvases are registered in the order in which they are made. *)
InTurn ==
  /\ canvas # None => canvas.id = Len(table) + 1
  /\ \A k \in DOMAIN table : table[k].id = k

Inv == TypeOK /\ AllExact /\ InTurn

-----------------------------------------------------------------------------
(* Facts about sequences. *)
LEMMA AppendProperties ==
  ASSUME NEW S, NEW s \in Seq(S), NEW e \in S
  PROVE  /\ Append(s, e) \in Seq(S) /\ Len(Append(s, e)) = Len(s) + 1 /\ Len(s) \in Nat
         /\ DOMAIN s = 1 .. Len(s) /\ DOMAIN Append(s, e) = 1 .. (Len(s) + 1)
         /\ Append(s, e)[Len(s) + 1] = e
         /\ \A k \in 1 .. Len(s) : Append(s, e)[k] = s[k]
OBVIOUS

(* Multiplication by a stride keeps the order of rows. *)
LEMMA RowsAscend ==
  ASSUME NEW s \in Nat, NEW a \in Nat, NEW b \in Nat, a < b
  PROVE  a * s \in Nat /\ b * s \in Nat /\ a * s + s <= b * s
OBVIOUS

(* What draw_iter computes for a point: an index of the frame buffer, and  *)
(* for each point its own.                                                 *)
LEMMA OffsetIndex ==
  ASSUME stride \in Nat, stride >= Width, NEW p \in Points
  PROVE  Offset(p) \in 0 .. (stride * Height - 1)
<1>1. p[1] \in Nat /\ p[1] < stride /\ p[2] \in Nat /\ p[2] < Height
  BY CanvasConstants DEF Points
<1>2. Height \in Nat
  BY CanvasConstants
<1>3. p[2] * stride \in Nat /\ Height * stride \in Nat /\ p[2] * stride + stride <= Height * stride
  BY <1>1, <1>2, RowsAscend
<1>4. Height * stride = stride * Height
  BY <1>2
<1> QED BY <1>1, <1>3, <1>4 DEF Offset

(* No two points of the screen share a pixel. *)
LEMMA OffsetInjective ==
  ASSUME stride \in Nat, stride >= Width, NEW p \in Points, NEW q \in Points, Offset(p) = Offset(q)
  PROVE  p = q
<1>1. /\ p[1] \in Nat /\ p[1] < stride /\ p[2] \in Nat
      /\ q[1] \in Nat /\ q[1] < stride /\ q[2] \in Nat
      /\ p = <<p[1], p[2]>> /\ q = <<q[1], q[2]>>
  BY CanvasConstants DEF Points
<1>2. p[2] * stride + p[1] = q[2] * stride + q[1]
  BY DEF Offset
<1>3. p[2] * stride \in Nat /\ q[2] * stride \in Nat
  BY <1>1
<1>4. ~(p[2] < q[2])
  <2> SUFFICES ASSUME p[2] < q[2] PROVE FALSE
    OBVIOUS
  <2>1. p[2] * stride + stride <= q[2] * stride
    BY <1>1, RowsAscend
  <2> QED BY <1>1, <1>2, <1>3, <2>1
<1>5. ~(q[2] < p[2])
  <2> SUFFICES ASSUME q[2] < p[2] PROVE FALSE
    OBVIOUS
  <2>1. q[2] * stride + stride <= p[2] * stride
    BY <1>1, RowsAscend
  <2> QED BY <1>1, <1>2, <1>3, <2>1
<1>6. p[2] = q[2]
  BY <1>1, <1>4, <1>5
<1>7. p[1] = q[1]
  BY <1>1, <1>2, <1>3, <1>6
<1> QED BY <1>1, <1>6, <1>7

(* Changing the order of bytes twice changes nothing. *)
LEMMA SwappedTwice ==
  ASSUME NEW c \in Cells
  PROVE  Swapped(c) \in Cells /\ Swapped(Swapped(c)) = c
BY DEF Cells, Swapped

(* Reading the frame buffer, writing it and drawing agree on the order. *)
LEMMA ColorsKept ==
  ASSUME NEW c \in Cells
  PROVE  /\ BufferColor(c) \in Cells /\ Chunk(c) \in Cells
         /\ BufferColor(Chunk(c)) = c
         /\ \A kind \in {"Rgb", "Bgr"} : DrawnColor(kind, c) = c
BY SwappedTwice DEF BufferColor, Chunk, DrawnColor

(* A canvas is no larger than the screen. *)
LEMMA SizeFits ==
  ASSUME stride \in Nat, stride >= Width
  PROVE  Size \in Nat /\ 0 .. (Size - 1) \subseteq 0 .. (stride * Height - 1)
<1>1. Width \in Nat /\ Height \in Nat
  BY CanvasConstants
<1>2. Width * Height <= stride * Height
  <2>1. CASE Width = stride
    BY <1>1, <2>1
  <2>2. CASE Width < stride
    BY <1>1, <2>2, RowsAscend
  <2> QED BY <1>1, <2>1, <2>2
<1> QED BY <1>1, <1>2 DEF Size

-----------------------------------------------------------------------------
(* Nothing is drawn or registered at the start. *)
LEMMA InitInv == Init => Inv
<1> SUFFICES ASSUME Init PROVE Inv
  OBVIOUS
<1>1. stride \in Nat /\ stride >= Width
  BY CanvasConstants DEF Init
<1>2. Black \in Cells
  BY DEF Black, Cells
<1>3. screen \in [0 .. (stride * Height - 1) -> Cells]
  BY <1>2 DEF Init
<1>4. canvas = None /\ table = <<>> /\ merged = None
  BY DEF Init
<1>5. table \in Seq(Canvases) /\ DOMAIN table = {}
  BY <1>4
<1> QED BY <1>1, <1>3, <1>4, <1>5 DEF Inv, TypeOK, AllExact, InTurn

(* A step that leaves the canvases alone. *)
LEMMA SameCanvases ==
  ASSUME Inv, UNCHANGED <<stride, canvas, table>>,
         screen' \in [0 .. (stride * Height - 1) -> Cells],
         merged' # None => merged' \in 0 .. Len(table)
  PROVE  Inv'
<1>1. TypeOK'
  BY DEF Inv, TypeOK
<1>2. \A c : Exact(c) => Exact(c)'
  BY DEF Exact, Covered, Offset
<1> QED BY <1>1, <1>2 DEF Inv, AllExact, InTurn, Exact, Covered, Offset

(* CanvasBuf::new copies the frame buffer's first pixels, in its order. *)
LEMMA NewInv == ASSUME Inv, New PROVE Inv'
<1>1. stride \in Nat /\ stride >= Width /\ screen \in [0 .. (stride * Height - 1) -> Cells]
  BY DEF Inv, TypeOK
<1>2. canvas' = [pixels |-> [n \in 0 .. (Size - 1) |-> BufferColor(screen[n])],
                 drawn |-> [p \in Points |-> Shows(screen, p)],
                 id |-> Len(table) + 1]
  BY DEF New
<1>3. UNCHANGED <<stride, screen, table, merged>>
  BY DEF New, machine
<1>4. canvas'.id = Len(table) + 1 /\ canvas'.id \in Nat
  BY <1>2 DEF Inv, TypeOK
<1>5. \A n \in 0 .. (Size - 1) : BufferColor(screen[n]) \in Cells
  BY <1>1, SizeFits, ColorsKept
<1>6. \A p \in Points : Shows(screen, p) \in Cells
  BY <1>1, OffsetIndex, ColorsKept DEF Shows, Offset
<1>7. canvas' \in Canvases
  BY <1>2, <1>4, <1>5, <1>6 DEF Canvases
<1>8. Exact(canvas')
  <2> SUFFICES ASSUME NEW p \in Points, Covered(p)
               PROVE  canvas'.pixels[Offset(p)] = canvas'.drawn[p]
    BY DEF Exact
  <2>1. Offset(p) \in 0 .. (Size - 1)
    BY <1>1, OffsetIndex, SizeFits DEF Covered, Offset
  <2> QED BY <1>2, <2>1 DEF Shows, Offset
<1>9. TypeOK'
  BY <1>1, <1>3, <1>7 DEF Inv, TypeOK
<1>10. AllExact'
  BY <1>3, <1>8 DEF Inv, AllExact, Exact, Covered, Offset
<1>11. InTurn'
  BY <1>3, <1>4 DEF Inv, InTurn
<1> QED BY <1>9, <1>10, <1>11 DEF Inv

(* draw_iter changes the pixel of the point it draws and of no other. *)
LEMMA DrawInv ==
  ASSUME Inv, NEW point \in Points, NEW kind \in {"Rgb", "Bgr"}, NEW color \in Colors,
         Draw(point, kind, color)
  PROVE  Inv'
<1>1. /\ stride \in Nat /\ stride >= Width /\ screen \in [0 .. (stride * Height - 1) -> Cells]
      /\ canvas \in Canvases /\ canvas # None /\ Exact(canvas)
  BY DEF Inv, TypeOK, AllExact, Draw
<1>2. UNCHANGED <<stride, screen, table, merged>>
  BY DEF Draw, machine
<1>3. CASE Offset(point) < Size
  <2>1. canvas' = [canvas EXCEPT !.pixels[Offset(point)] = DrawnColor(kind, color),
                                 !.drawn[point] = color]
    BY <1>3 DEF Draw
  <2>2. DrawnColor(kind, color) = color /\ color \in Cells
    BY ColorsKept, CanvasConstants
  <2>3. Offset(point) \in 0 .. (Size - 1)
    BY <1>1, <1>3, OffsetIndex, SizeFits
  <2>4. /\ canvas'.pixels = [canvas.pixels EXCEPT ![Offset(point)] = color]
        /\ canvas'.drawn = [canvas.drawn EXCEPT ![point] = color]
        /\ canvas'.id = canvas.id
        /\ canvas' \in Canvases
    BY <1>1, <2>1, <2>2, <2>3, Zenon DEF Canvases
  <2>5. Exact(canvas')
    <3> SUFFICES ASSUME NEW p \in Points, Covered(p)
                 PROVE  canvas'.pixels[Offset(p)] = canvas'.drawn[p]
      BY DEF Exact
    <3>1. Offset(p) \in 0 .. (Size - 1)
      BY <1>1, OffsetIndex, SizeFits DEF Covered, Offset
    <3>2. canvas.pixels[Offset(p)] = canvas.drawn[p]
      BY <1>1 DEF Exact
    <3>3. /\ canvas.pixels \in [0 .. (Size - 1) -> Cells] /\ canvas.drawn \in [Points -> Cells]
      BY <1>1 DEF Canvases
    <3>4. CASE p = point
      BY <2>3, <2>4, <3>3, <3>4, Zenon
    <3>5. CASE p # point
      <4>1. Offset(p) # Offset(point)
        BY <1>1, <3>5, OffsetInjective
      <4> QED BY <2>3, <2>4, <3>1, <3>2, <3>3, <3>5, <4>1
    <3> QED BY <3>4, <3>5
  <2>6. TypeOK'
    BY <1>1, <1>2, <2>4 DEF Inv, TypeOK
  <2>7. AllExact'
    BY <1>2, <2>5 DEF Inv, AllExact, Exact, Covered, Offset
  <2>8. InTurn'
    BY <1>1, <1>2, <2>4 DEF Inv, InTurn
  <2> QED BY <2>6, <2>7, <2>8 DEF Inv
<1>4. CASE ~(Offset(point) < Size)
  <2>1. UNCHANGED canvas
    BY <1>4 DEF Draw
  <2> QED BY <1>1, <1>2, <2>1, SameCanvases DEF Inv, TypeOK
<1> QED BY <1>3, <1>4

(* register appends the canvas. *)
LEMMA RegisterInv == ASSUME Inv, Register PROVE Inv'
<1>1. canvas # None /\ canvas \in Canvases /\ Exact(canvas) /\ canvas.id = Len(table) + 1
  BY DEF Inv, TypeOK, AllExact, InTurn, Register
<1>2. /\ table' = Append(table, canvas) /\ canvas' = None
      /\ merged = None /\ UNCHANGED <<stride, screen, merged>>
  BY DEF Register, machine
<1>3. table \in Seq(Canvases)
  BY DEF Inv, TypeOK
<1>4. /\ table' \in Seq(Canvases) /\ Len(table) \in Nat /\ Len(table') = Len(table) + 1
      /\ DOMAIN table = 1 .. Len(table) /\ DOMAIN table' = 1 .. (Len(table) + 1)
      /\ table'[Len(table) + 1] = canvas
      /\ \A k \in 1 .. Len(table) : table'[k] = table[k]
  BY <1>1, <1>2, <1>3, AppendProperties
<1>5. TypeOK'
  BY <1>2, <1>4 DEF Inv, TypeOK
<1>6. \A k \in DOMAIN table' : Exact(table'[k]) /\ table'[k].id = k
  <2> SUFFICES ASSUME NEW k \in DOMAIN table' PROVE Exact(table'[k]) /\ table'[k].id = k
    OBVIOUS
  <2>1. CASE k = Len(table) + 1
    BY <1>1, <1>4, <2>1
  <2>2. CASE k # Len(table) + 1
    <3>1. k \in DOMAIN table /\ table'[k] = table[k]
      BY <1>4, <2>2
    <3> QED BY <3>1 DEF Inv, AllExact, InTurn
  <2> QED BY <2>1, <2>2
<1> QED BY <1>2, <1>5, <1>6 DEF Inv, AllExact, InTurn, Exact, Covered, Offset

(* merge_down writes as many pixels as the canvas has. *)
LEMMA MergeFacts ==
  ASSUME Inv, MergeDown, merged' # merged
  PROVE  /\ UNCHANGED <<format, stride, canvas, table>>
         /\ merged' = merged + 1 /\ merged' \in 1 .. Len(table)
         /\ table[merged'] \in Canvases /\ Exact(table[merged'])
         /\ screen' = [n \in 0 .. (stride * Height - 1) |->
                         IF n < Size THEN Chunk(table[merged'].pixels[n]) ELSE screen[n]]
<1>1. /\ merged # None /\ merged < Len(table) /\ avx
      /\ screen' = [n \in DOMAIN screen |->
                      IF n < Size THEN Chunk(table[merged + 1].pixels[n]) ELSE screen[n]]
      /\ merged' = merged + 1
      /\ UNCHANGED <<format, stride, canvas, table>>
  BY DEF MergeDown, machine
<1>2. merged \in 0 .. Len(table) /\ table \in Seq(Canvases) /\ DOMAIN screen = 0 .. (stride * Height - 1)
  BY <1>1 DEF Inv, TypeOK
<1>3. merged' \in 1 .. Len(table) /\ merged' \in DOMAIN table /\ table[merged'] \in Canvases
  BY <1>1, <1>2
<1>4. Exact(table[merged'])
  BY <1>3 DEF Inv, AllExact
<1> QED BY <1>1, <1>2, <1>3, <1>4

LEMMA MergeInv == ASSUME Inv, MergeDown PROVE Inv'
<1>1. stride \in Nat /\ stride >= Width /\ screen \in [0 .. (stride * Height - 1) -> Cells]
  BY DEF Inv, TypeOK
<1>2. CASE merged' = merged
  <2>1. UNCHANGED <<stride, screen, canvas, table>>
    BY <1>2 DEF MergeDown, machine, Inv, TypeOK
  <2> QED BY <1>1, <1>2, <2>1, SameCanvases DEF Inv, TypeOK
<1>3. CASE merged' # merged
  <2> DEFINE c == table[merged']
  <2>1. /\ UNCHANGED <<stride, canvas, table>> /\ merged' \in 1 .. Len(table) /\ c \in Canvases
        /\ screen' = [n \in 0 .. (stride * Height - 1) |->
                        IF n < Size THEN Chunk(c.pixels[n]) ELSE screen[n]]
    BY <1>3, MergeFacts
  <2> HIDE DEF c
  <2>2. \A n \in 0 .. (stride * Height - 1) : n < Size => Chunk(c.pixels[n]) \in Cells
    BY <1>1, <2>1, SizeFits, ColorsKept DEF Canvases
  <2>3. screen' \in [0 .. (stride * Height - 1) -> Cells]
    BY <1>1, <2>1, <2>2
  <2> QED BY <2>1, <2>3, SameCanvases
<1> QED BY <1>2, <1>3

(* Every step keeps the invariant. *)
LEMMA NextInv == Inv /\ [Next]_vars => Inv'
<1> SUFFICES ASSUME Inv, [Next]_vars PROVE Inv'
  OBVIOUS
<1>0. /\ stride \in Nat /\ stride >= Width /\ screen \in [0 .. (stride * Height - 1) -> Cells]
      /\ merged # None => merged \in 0 .. Len(table)
      /\ Len(table) \in Nat
  BY DEF Inv, TypeOK
<1>1. CASE New
  BY <1>1, NewInv
<1>2. CASE Register
  BY <1>2, RegisterInv
<1>3. CASE MergeDown
  BY <1>3, MergeInv
<1>4. ASSUME NEW p \in Points, NEW kind \in {"Rgb", "Bgr"}, NEW c \in Colors, Draw(p, kind, c)
      PROVE  Inv'
  BY <1>4, DrawInv
<1>5. ASSUME UNCHANGED <<stride, canvas, table, screen, merged>> PROVE Inv'
  BY <1>0, <1>5, SameCanvases
<1>6. CASE Blend \/ Panicked \/ UNCHANGED vars
  BY <1>5, <1>6, Zenon DEF Blend, Panicked, vars, machine
<1>7. CASE BeginPass
  BY <1>0, <1>7, SameCanvases DEF BeginPass, machine
<1>8. CASE EndPass
  BY <1>0, <1>8, SameCanvases DEF EndPass, machine
<1>9. ASSUME NEW p \in Points, Log(p) PROVE Inv'
  <2>1. UNCHANGED <<stride, canvas, table, merged>>
    BY <1>9 DEF Log, machine
  <2>2. screen' \in [0 .. (stride * Height - 1) -> Cells]
    BY <1>0, <1>9, CanvasConstants DEF Log
  <2> QED BY <1>0, <2>1, <2>2, SameCanvases
<1>10. ASSUME NEW p \in Points, NEW c \in Colors, NEW a \in Alphas, DrawImage(p, c, a) PROVE Inv'
  BY <1>4, <1>5, <1>10, Zenon DEF DrawImage, machine
<1> QED BY <1>1, <1>2, <1>3, <1>4, <1>6, <1>7, <1>8, <1>9, <1>10, Zenon DEF Next, Render

(* The invariant behind the theorems below, for canvases made, drawn on    *)
(* and registered while the rendering loop merges them.                    *)
THEOREM Invariance == Spec => []Inv
BY InitInv, NextInv, PTL DEF Spec

-----------------------------------------------------------------------------
(* What the screen shows after merge_down. *)
LEMMA MergeShows ==
  ASSUME Inv, MergeDown, merged' # merged, NEW p \in Points
  PROVE  Shows(screen', p) = IF Covered(p) THEN table[merged'].drawn[p] ELSE Shows(screen, p)
<1> DEFINE c == table[merged']
<1>1. stride \in Nat /\ stride >= Width
  BY DEF Inv, TypeOK
<1>2. /\ c \in Canvases /\ Exact(c)
      /\ screen' = [n \in 0 .. (stride * Height - 1) |->
                      IF n < Size THEN Chunk(c.pixels[n]) ELSE screen[n]]
  BY MergeFacts
<1> HIDE DEF c
<1>3. Offset(p) \in 0 .. (stride * Height - 1)
  BY <1>1, OffsetIndex
<1>4. CASE Covered(p)
  <2>1. Offset(p) \in 0 .. (Size - 1)
    BY <1>1, <1>3, <1>4, SizeFits DEF Covered, Offset
  <2>2. c.pixels[Offset(p)] = c.drawn[p] /\ c.pixels[Offset(p)] \in Cells
    BY <1>2, <1>4, <2>1 DEF Exact, Canvases
  <2>3. screen'[Offset(p)] = Chunk(c.pixels[Offset(p)])
    BY <1>2, <1>3, <1>4 DEF Covered, Offset
  <2>4. BufferColor(screen'[Offset(p)]) = c.drawn[p]
    BY <2>2, <2>3, ColorsKept
  <2> QED BY <1>4, <2>4 DEF Shows, Offset, c
<1>5. CASE ~Covered(p)
  BY <1>2, <1>3, <1>5 DEF Covered, Shows, Offset
<1> QED BY <1>4, <1>5

(* MergeExact for any screen and any colours: reading the frame buffer,    *)
(* draw_iter and merge_down agree on the order of bytes and of pixels.     *)
THEOREM ExactMerge == Spec => MergeExact
<1> DEFINE Merges == (merged' # merged /\ merged' # None /\ merged # None) =>
                       \A p \in Points :
                         Shows(screen', p) = IF Covered(p)
                                             THEN table[merged'].drawn[p] ELSE Shows(screen, p)
<1>1. Inv /\ [Next]_vars => [Merges]_vars
  <2> SUFFICES ASSUME Inv, Next, merged' # merged, merged' # None, merged # None
               PROVE  \A p \in Points :
                         Shows(screen', p) = IF Covered(p)
                                             THEN table[merged'].drawn[p] ELSE Shows(screen, p)
    OBVIOUS
  <2>1. MergeDown
    BY Zenon DEF Next, New, Blend, Register, Render, BeginPass, EndPass, Panicked, vars, Log, Draw, DrawImage
  <2> QED BY <2>1, MergeShows
<1> QED BY <1>1, Invariance, PTL DEF Spec, MergeExact

(* The end of a pass over COMPOSITING_TABLE shows the canvas made last.    *)
(* This is the state that LastOnTop waits for.                             *)
LastMergedShows ==
  [][(merged' # merged /\ merged # None /\ merged' = Len(table)) =>
       /\ table[merged'].id = Len(table)
       /\ \A p \in Points : Covered(p) => Shows(screen', p) = table[merged'].drawn[p]]_vars

(* LastMergedShows for any screen and any number of canvases: they are     *)
(* registered in the order in which they are made, and the one merged last *)
(* hides the others wherever it covers the screen.                         *)
THEOREM LastMerged == Spec => LastMergedShows
<1> DEFINE Last == (merged' # merged /\ merged # None /\ merged' = Len(table)) =>
                     /\ table[merged'].id = Len(table)
                     /\ \A p \in Points : Covered(p) => Shows(screen', p) = table[merged'].drawn[p]
<1>1. Inv /\ [Next]_vars => [Last]_vars
  <2> SUFFICES ASSUME Inv, Next, merged' # merged, merged # None, merged' = Len(table)
               PROVE  /\ table[merged'].id = Len(table)
                      /\ \A p \in Points : Covered(p) => Shows(screen', p) = table[merged'].drawn[p]
    OBVIOUS
  <2>1. MergeDown
    BY Zenon DEF Next, New, Blend, Register, Render, BeginPass, EndPass, Panicked, vars, Log, Draw, DrawImage
  <2>2. merged' \in DOMAIN table
    BY <2>1, MergeFacts DEF Inv, TypeOK
  <2> QED BY <2>1, <2>2, MergeShows DEF Inv, InTurn
<1> QED BY <1>1, Invariance, PTL DEF Spec, LastMergedShows

-----------------------------------------------------------------------------
(***************************************************************************)
(* XhciController                                                          *)
(***************************************************************************)
XhciFlags == {"RS", "HCRST", "INTE"}

(***************************************************************************)
(* The labels of init in its order; each operator gives the places at      *)
(* which a write of init has happened.                                     *)
(***************************************************************************)
Rung == {"info", "resetports", "copywait", "done"}
RunSet == {"running", "doorbell"} \cup Rung
InteSet == {"scratchpad", "run"} \cup RunSet
RingsSet == {"enable"} \cup InteSet
CrcrSet == {"interrupters"} \cup RingsSet
DcbaapSet == {"crcr"} \cup CrcrSet
ConfigSet == {"ports", "dcbaap"} \cup DcbaapSet
Labels == {"ready", "stop", "stopping", "reset", "config", "panic"} \cup ConfigSet

(* Types of the variables. *)
XhciTypeOK ==
  /\ pc \in Labels
  /\ copy \in (SUBSET XhciFlags) \cup {None}
  /\ copy # None => pc \in DOMAIN Then
  /\ i \in Nat
  /\ pc = "interrupters" => i <= NumInterrupters
  /\ pc \notin {"interrupters", "resetports", "copywait", "done", "panic"} => i = 0
  /\ cmd \in SUBSET XhciFlags
  /\ halted \in BOOLEAN /\ notReady \in BOOLEAN /\ rung \in BOOLEAN /\ raced \in BOOLEAN
  /\ DOMAIN regs = {"config", "dcbaap", "crcr"}
  /\ DOMAIN rings = Interrupters

(* Once init has written a register outside a reset, the controller is not *)
(* resetting and will not again: HCRST is neither in USBCMD nor in the     *)
(* copy that update_volatile writes back.                                  *)
ResetOver ==
  (pc \in ConfigSet /\ ~raced) =>
     /\ ~Resetting
     /\ copy # None => copy = cmd

(* What init has written is in the registers. *)
Written ==
  ~raced =>
    /\ pc \in ConfigSet => regs["config"] = "driver"
    /\ pc \in DcbaapSet => regs["dcbaap"] = "driver"
    /\ pc \in CrcrSet => regs["crcr"] = "driver"
    /\ pc = "interrupters" => \A n \in Interrupters : n < i => rings[n] = NewRing
    /\ pc \in RingsSet => \A n \in Interrupters : rings[n] = NewRing
    /\ pc \in InteSet => "INTE" \in cmd
    /\ pc \in RunSet => "RS" \in cmd

(* The doorbell is rung at one place, after the controller has left the    *)
(* halted state.                                                           *)
DoorbellPlace ==
  /\ rung => pc \in Rung
  /\ (pc = "doorbell" /\ ~raced) => ~halted

(* Once init has cleared RS only init sets it. *)
RunCleared == pc = "stopping" => "RS" \notin cmd

XhciInv == XhciTypeOK /\ ResetOver /\ Written /\ DoorbellPlace /\ RunCleared

-----------------------------------------------------------------------------
USE XhciConstants DEF Interrupters, XhciFlags, Labels, ConfigSet, DcbaapSet, CrcrSet,
        RingsSet, InteSet, RunSet, Rung

(* The firmware's state satisfies the invariant. *)
LEMMA XhciInitInv == ASSUME XhciInit PROVE XhciInv
<1>1. cmd \in SUBSET XhciFlags
  BY DEF XhciInit
<1>2. halted \in BOOLEAN
  BY Zenon DEF XhciInit
<1>3. XhciTypeOK
  <2>1. notReady \in BOOLEAN /\ rung \in BOOLEAN /\ raced \in BOOLEAN
    BY Zenon DEF XhciInit
  <2>2. copy \in (SUBSET XhciFlags) \cup {None}
    BY Zenon DEF XhciInit
  <2>3. DOMAIN regs = {"config", "dcbaap", "crcr"} /\ DOMAIN rings = Interrupters
    BY Zenon DEF XhciInit, RegsFrom, RingsFrom
  <2> QED BY <1>1, <1>2, <2>1, <2>2, <2>3 DEF XhciInit, XhciTypeOK
<1> QED BY <1>3 DEF XhciInit, XhciInv, ResetOver, Written, DoorbellPlace, RunCleared

(* init, one step per action. *)
LEMMA XhciDriverInv ==
  ASSUME XhciInv, Driver \/ OutOfMemory
  PROVE  XhciInv'
<1>1. CASE ReadCmd
  <2>1. copy' = cmd /\ pc \in DOMAIN Then /\ UNCHANGED <<pc, i, controller, rung, raced>>
    BY <1>1, Zenon DEF ReadCmd
  <2>2. XhciTypeOK'
    <3>1. copy' \in (SUBSET XhciFlags) \cup {None}
      BY <2>1, Zenon DEF XhciInv, XhciTypeOK
    <3>2. (DOMAIN Then)' = DOMAIN Then
      BY Zenon DEF Then
    <3> HIDE DEF XhciFlags, Labels
    <3> QED BY <2>1, <3>1, <3>2, Zenon DEF XhciInv, XhciTypeOK, controller
  <2>3. ResetOver' /\ Written'
    BY <2>1 DEF XhciInv, ResetOver, Written, Resetting, controller, Then
  <2>4. DoorbellPlace' /\ RunCleared'
    BY <2>1, Zenon DEF XhciInv, DoorbellPlace, RunCleared, controller
  <2> QED BY <2>2, <2>3, <2>4, Zenon DEF XhciInv
<1> USE DEF XhciInv, XhciTypeOK, ResetOver, Written, DoorbellPlace, RunCleared, Resetting, Then,
            controller
<1>2. CASE WriteCmd
  <2>1. copy \in SUBSET XhciFlags
    BY <1>2, Zenon DEF WriteCmd
  <2>2. cmd' \in SUBSET XhciFlags
    <3>1. cmd' \in {copy \ {"RS"}, copy \cup {"HCRST"}, copy \cup {"INTE"}, copy \cup {"RS"}}
      BY <1>2 DEF WriteCmd, Updated
    <3> HIDE DEF XhciFlags
    <3> QED BY <2>1, <3>1 DEF XhciFlags
  <2>3. raced' \in BOOLEAN
    BY <1>2, Zenon DEF WriteCmd
  <2>4. XhciTypeOK'
    <3>1. copy' \in (SUBSET XhciFlags) \cup {None}
      BY <1>2, Zenon DEF WriteCmd
    <3>2. halted' \in BOOLEAN /\ notReady' \in BOOLEAN /\ rung' \in BOOLEAN
      BY <1>2, Zenon DEF WriteCmd
    <3> QED BY <1>2, <2>2, <2>3, <3>1, <3>2 DEF WriteCmd
  <2>5. CASE pc \in {"stop", "reset"}
    BY <1>2, <2>4, <2>5 DEF WriteCmd, Updated
  <2>6. CASE pc \in {"enable", "run"}
    BY <1>2, <2>4, <2>6 DEF WriteCmd, Updated
  <2> QED BY <1>2, <2>5, <2>6, Zenon DEF WriteCmd, Then
<1>3. CASE WaitReady
  BY <1>3, Zenon DEF WaitReady
<1>4. CASE WaitStop
  BY <1>4, Zenon DEF WaitStop
<1>5. CASE WaitRun
  BY <1>5, Zenon DEF WaitRun
<1>6. CASE SetSlots
  BY <1>6, Zenon DEF SetSlots, Write
<1>7. CASE PowerPorts
  BY <1>7, Zenon DEF PowerPorts
<1>8. CASE SetDcbaap
  BY <1>8, Zenon DEF SetDcbaap, Write
<1>9. CASE SetCrcr
  BY <1>9 DEF SetCrcr, Write
<1>10. CASE SetInterrupter
  BY <1>10 DEF SetInterrupter, LastInterrupter
<1>11. CASE InterruptersSet
  BY <1>11 DEF InterruptersSet, LastInterrupter
<1>12. CASE SetScratchpad
  BY <1>12, Zenon DEF SetScratchpad
<1>13. CASE RingDoorbell
  BY <1>13, Zenon DEF RingDoorbell
<1>14. CASE EnableConfigInfo
  BY <1>14, Zenon DEF EnableConfigInfo
<1>15. CASE ResetPort
  BY <1>15 DEF ResetPort
<1>16. CASE Probe
  BY <1>16, Zenon DEF Probe
<1>17. CASE OutOfMemory
  BY <1>17, Zenon DEF OutOfMemory
<1> QED BY <1>1, <1>2, <1>3, <1>4, <1>5, <1>6, <1>7, <1>8, <1>9, <1>10, <1>11, <1>12, <1>13, <1>14,
           <1>15, <1>16, <1>17, Zenon DEF Driver

(* A step that leaves the driver and its registers alone keeps what is     *)
(* said of them, unless it starts a reset.                                 *)
LEMMA SameWrites ==
  ASSUME ResetOver, Written, UNCHANGED <<driver, cmd, regs, rings, raced>>,
         Resetting' => Resetting
  PROVE  ResetOver' /\ Written'
<1>1. UNCHANGED <<pc, copy, i>>
  BY Zenon DEF driver
<1>2. ResetOver'
  BY <1>1 DEF ResetOver
<1>3. Written'
  BY <1>1, Zenon DEF Written
<1> QED BY <1>2, <1>3

(* The controller. *)
LEMMA XhciDeviceInv ==
  ASSUME XhciInv,
         \/ DevReady \/ DevHalt \/ DevRun \/ DevReset
         \/ \E p \in Ports : DevPort(p)
  PROVE  XhciInv'
<1>1. ASSUME UNCHANGED <<driver, cmd, regs, rings, rung, raced>>, Resetting' => Resetting,
             halted' \in BOOLEAN, notReady' \in BOOLEAN,
             (pc = "doorbell" /\ ~raced) => ~halted'
      PROVE  XhciInv'
  <2>1. XhciTypeOK'
    BY <1>1 DEF XhciInv, XhciTypeOK, driver
  <2>2. ResetOver' /\ Written'
    BY <1>1, SameWrites DEF XhciInv
  <2>3. DoorbellPlace' /\ RunCleared'
    BY <1>1 DEF XhciInv, DoorbellPlace, RunCleared, driver
  <2> QED BY <2>1, <2>2, <2>3 DEF XhciInv
<1>2. CASE DevReady
  <2>1. notReady' \in BOOLEAN /\ (Resetting' => Resetting)
    BY <1>2, Zenon DEF DevReady, Resetting
  <2>2. halted' \in BOOLEAN /\ ((pc = "doorbell" /\ ~raced) => ~halted')
    BY <1>2 DEF DevReady, XhciInv, XhciTypeOK, DoorbellPlace
  <2> QED BY <1>1, <1>2, <2>1, <2>2, Zenon DEF DevReady
<1>3. CASE DevHalt
  <2>1. notReady' \in BOOLEAN /\ (Resetting' => Resetting)
    BY <1>3 DEF DevHalt, Resetting, XhciInv, XhciTypeOK
  <2>2. halted' \in BOOLEAN /\ ~(pc = "doorbell" /\ ~raced)
    BY <1>3 DEF DevHalt, XhciInv, Written
  <2> QED BY <1>1, <1>3, <2>1, <2>2, Zenon DEF DevHalt
<1>4. CASE DevRun
  <2>1. notReady' \in BOOLEAN /\ (Resetting' => Resetting)
    BY <1>4 DEF DevRun, Resetting, XhciInv, XhciTypeOK
  <2>2. halted' \in BOOLEAN /\ ~halted'
    BY <1>4, Zenon DEF DevRun
  <2> QED BY <1>1, <1>4, <2>1, <2>2, Zenon DEF DevRun
<1>5. CASE DevReset
  <2>1. pc \in ConfigSet => raced
    BY <1>5, Zenon DEF DevReset, XhciInv, ResetOver, Resetting
  <2>2. UNCHANGED <<pc, copy, i, rung, raced>>
    BY <1>5, Zenon DEF DevReset, driver
  <2>3. XhciTypeOK'
    <3>1. cmd' \in SUBSET XhciFlags /\ halted' \in BOOLEAN /\ notReady' \in BOOLEAN
      BY <1>5 DEF DevReset
    <3>2. DOMAIN regs' = {"config", "dcbaap", "crcr"} /\ DOMAIN rings' = Interrupters
      BY <1>5, Zenon DEF DevReset, RegsFrom, RingsFrom
    <3> QED BY <2>2, <3>1, <3>2 DEF XhciInv, XhciTypeOK
  <2>4. ResetOver' /\ Written'
    BY <2>1, <2>2 DEF ResetOver, Written
  <2>5. DoorbellPlace' /\ RunCleared'
    BY <1>5, <2>1, <2>2 DEF XhciInv, DoorbellPlace, RunCleared, DevReset
  <2> QED BY <2>3, <2>4, <2>5 DEF XhciInv
<1>6. ASSUME NEW p \in Ports, DevPort(p) PROVE XhciInv'
  <2>1. UNCHANGED <<halted, notReady>> /\ (Resetting' => Resetting)
    BY <1>6 DEF DevPort, Resetting
  <2>2. halted' \in BOOLEAN /\ notReady' \in BOOLEAN /\ ((pc = "doorbell" /\ ~raced) => ~halted')
    BY <2>1 DEF XhciInv, XhciTypeOK, DoorbellPlace
  <2> QED BY <1>1, <1>6, <2>1, <2>2, Zenon DEF DevPort
<1> QED BY <1>2, <1>3, <1>4, <1>5, <1>6, Zenon

(* Every step keeps the invariant. *)
LEMMA XhciNextInv == ASSUME XhciInv, [XhciNext]_xhciVars PROVE XhciInv'
<1>1. CASE UNCHANGED xhciVars
  BY <1>1 DEF xhciVars, driver, controller, XhciInv, XhciTypeOK, ResetOver, Written,
              DoorbellPlace, RunCleared, Resetting
<1> QED BY <1>1, XhciDriverInv, XhciDeviceInv, Zenon DEF XhciNext

(* The invariant behind the three theorems below, for XhciImpl::init and a *)
(* controller that resets, halts and runs on its own.                      *)
THEOREM XhciInvariance == XhciSpec => []XhciInv
<1>1. XhciInit => XhciInv
  BY XhciInitInv
<1>2. XhciInv /\ [XhciNext]_xhciVars => XhciInv'
  BY XhciNextInv
<1> QED BY <1>1, <1>2, PTL DEF XhciSpec

(* RegistersKept for any number of interrupters: unless the reset outlives *)
(* a write, the doorbell is rung on a controller that has every register   *)
(* init has written.                                                       *)
THEOREM KeptRegisters == XhciSpec => []RegistersKept
<1>1. XhciInv => RegistersKept
  BY DEF XhciInv, XhciTypeOK, Written, DoorbellPlace, RegistersKept
<1>2. XhciSpec => []XhciInv
  BY XhciInvariance
<1> QED BY <1>1, <1>2, PTL

(* DoorbellWhileRunning for any number of interrupters and ports. *)
THEOREM RunningAtDoorbell == XhciSpec => DoorbellWhileRunning
<1> DEFINE Rings == rung' # rung => (~halted \/ raced')
<1>1. XhciInv /\ [XhciNext]_xhciVars => [Rings]_xhciVars
  <2> SUFFICES ASSUME XhciInv, XhciNext, rung' # rung PROVE ~halted \/ raced'
    OBVIOUS
  <2>1. RingDoorbell
    BY Zenon
       DEF XhciNext, Driver, ReadCmd, WriteCmd, WaitReady, WaitStop, WaitRun,
           SetSlots, Write, PowerPorts, SetDcbaap, SetCrcr, SetInterrupter,
           InterruptersSet, SetScratchpad, EnableConfigInfo, ResetPort, Probe,
           OutOfMemory, DevReady, DevHalt, DevRun, DevReset, DevPort, xhciVars
  <2> QED BY <2>1, Zenon DEF RingDoorbell, XhciInv, DoorbellPlace
<1>2. XhciSpec => []XhciInv
  BY XhciInvariance
<1> QED BY <1>1, <1>2, PTL DEF XhciSpec, DoorbellWhileRunning

(* init's loops wait for what is so already or for what the controller     *)
(* does by itself: RS is clear when init waits for that, and when it waits *)
(* for the controller to run, RS is set and no reset is under way, unless  *)
(* a register was written during the reset.                                *)
XhciLoopsServed ==
  /\ pc = "stopping" => "RS" \notin cmd
  /\ (pc = "running" /\ ~raced) => ~halted \/ ("RS" \in cmd /\ ~Resetting)

(* XhciLoopsServed for any number of interrupters and ports: InitEnds      *)
(* needs only that init goes on and that the controller does its part.     *)
THEOREM ServedXhciLoops == XhciSpec => []XhciLoopsServed
<1>1. XhciInv => XhciLoopsServed
  BY DEF XhciInv, ResetOver, Written, RunCleared, XhciLoopsServed
<1>2. XhciSpec => []XhciInv
  BY XhciInvariance
<1> QED BY <1>1, <1>2, PTL

-----------------------------------------------------------------------------
(***************************************************************************)
(* Runner                                                                  *)
(***************************************************************************)
HIDE XhciConstants DEF Interrupters, XhciFlags, Labels, ConfigSet, DcbaapSet, CrcrSet,
         RingsSet, InteSet, RunSet, Rung

(* QEMU is started from here on. *)
Booting == {"download", "copy", "qemu", "spawn"}

(* The tool has not ended before its end, boots only in that mode, and has *)
(* an image of its own from the step after create_disk_image on.           *)
Progress ==
  /\ stage # "end" => ran = None /\ exit = None
  /\ stage \in Booting => mode = "boot"
  /\ stage \in {"run"} \cup Booting => image = "new"

(* In `home', the firmware is there for the tool when it is for QEMU.      *)
(* download_ovmf gives up unless its copy has succeeded.                   *)
Firmware ==
  atHome => /\ "cwd" \in ovmf <=> "home" \in ovmf
            /\ stage \in {"qemu", "spawn"} => "home" \in ovmf

RunnerInv == Progress /\ Firmware /\ SuccessMeansDone

(* No command has run at the start. *)
LEMMA RunnerInitInv == ASSUME RunnerInit PROVE RunnerInv
BY RunnerConstants DEF RunnerInit, RunnerInv, Progress, Firmware, Booting, SuccessMeansDone

(* Every step of main keeps the invariant, one step per action. *)
LEMMA RunnerNextInv == ASSUME RunnerInv, [RunnerNext]_runnerVars PROVE RunnerInv'
<1> USE RunnerConstants DEF RunnerInv, Progress, Firmware, Booting, SuccessMeansDone,
            host, Go, End, Checked, Outcomes
<1>1. CASE Distro
  BY <1>1 DEF Distro, HostDistro
<1>2. CASE InstallUbuntuDeps
  BY <1>2, Zenon DEF InstallUbuntuDeps, InstallDeps
<1>3. CASE InstallArchDeps
  BY <1>3, Zenon DEF InstallArchDeps, InstallDeps
<1>4. CASE CreateDiskImage
  BY <1>4 DEF CreateDiskImage, ImageFailure
<1>5. CASE UnknownArgument
  BY <1>5 DEF UnknownArgument
<1>6. CASE BuildOnly
  BY <1>6 DEF BuildOnly
<1>7. CASE FindOvmf
  BY <1>7 DEF FindOvmf
<1>8. CASE DownloadOvmf
  BY <1>8 DEF DownloadOvmf
<1>9. CASE CopyOvmf
  BY <1>9, Zenon DEF CopyOvmf
<1>10. CASE SnapWorkaround
  BY <1>10 DEF SnapWorkaround, HostDistro
<1>11. CASE RunQemu
  BY <1>11, Zenon DEF RunQemu
<1>12. CASE WriteImage
  BY <1>12 DEF WriteImage
<1>13. CASE Ended \/ UNCHANGED runnerVars
  BY <1>13 DEF Ended, runnerVars
<1> QED BY <1>1, <1>2, <1>3, <1>4, <1>5, <1>6, <1>7, <1>8, <1>9, <1>10, <1>11, <1>12, <1>13, Zenon
        DEF RunnerNext

(* The invariant behind the two theorems below, for main of the runner on  *)
(* every host: whatever its tools and arguments, and whichever command     *)
(* fails.                                                                  *)
THEOREM RunnerInvariance == RunnerSpec => []RunnerInv
<1>1. RunnerInit => RunnerInv
  BY RunnerInitInv
<1>2. RunnerInv /\ [RunnerNext]_runnerVars => RunnerInv'
  BY RunnerNextInv
<1> QED BY <1>1, <1>2, PTL DEF RunnerSpec

(* FirmwareInPlace: in `home' QEMU is never started without its firmware.  *)
THEOREM FirmwareFirst == RunnerSpec => []FirmwareInPlace
<1>1. RunnerInv => FirmwareInPlace
  BY DEF RunnerInv, Firmware, FirmwareInPlace
<1>2. RunnerSpec => []RunnerInv
  BY RunnerInvariance
<1> QED BY <1>1, <1>2, PTL

(* SuccessMeansDone: an exit code of 0 means that this run's image is made *)
(* and that QEMU, where it was asked for, has run to its end.              *)
THEOREM DoneOnSuccess == RunnerSpec => []SuccessMeansDone
<1>1. RunnerInv => SuccessMeansDone
  BY DEF RunnerInv
<1>2. RunnerSpec => []RunnerInv
  BY RunnerInvariance
<1> QED BY <1>1, <1>2, PTL
=============================================================================
