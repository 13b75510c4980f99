------------------------------- MODULE Canvas -------------------------------
(***************************************************************************)
(* The compositing framework (drm/): canvases made from the frame buffer,  *)
(* drawn on, blended and registered, and the rendering loop at the end of  *)
(* maink, which merges them down.  The log writes to the same frame        *)
(* buffer.  A colour is a tuple <<red, green, blue>>, a cell of the frame  *)
(* buffer the first three bytes of a pixel in the order of its format:     *)
(* UEFI gives four bytes to a pixel, red or blue first.  The points of a   *)
(* canvas's pixels are not modelled: only the colours are used.            *)
(***************************************************************************)
EXTENDS Sequences, Integers, Option

CONSTANTS
  Width, Height,
  Strides,       \* the pixels a row may take
  Lanes,         \* 16
  Colors,        \* the colours drawn
  Alphas,        \* the alpha bytes of images: 0 .. 255
  LogColor,      \* the logger's
  MaxCanvases, MaxDraws, MaxLogs

(* The three bytes of a pixel. *)
Cells == (0 .. 255) \X (0 .. 255) \X (0 .. 255)

ASSUME CanvasConstants ==
  /\ Width \in Nat \ {0} /\ Height \in Nat \ {0} /\ Lanes \in Nat \ {0}
  /\ \A s \in Strides : s \in Nat /\ s >= Width
  /\ Colors \subseteq Cells /\ LogColor \in Cells

VARIABLES
  format,     \* FrameBufferInfo::pixel_format
  stride,     \* FrameBufferInfo::stride
  avx,        \* CpuId's has_avx
  screen,     \* the frame buffer: index -> cell
  canvas,     \* the canvas being drawn, or None
  table,      \* COMPOSITING_TABLE
  merged,     \* canvases merged in this pass over it, or None
  panicked,
  draws, logs \* how many

machine == <<format, stride, avx>>
vars == <<machine, screen, canvas, table, merged, panicked, draws, logs>>

Points == (0 .. (Width - 1)) \X (0 .. (Height - 1))
Size == Width * Height
Black == <<0, 0, 0>>

Init ==
  /\ format \in {"Rgb", "Bgr"} /\ stride \in Strides /\ avx \in BOOLEAN
  /\ screen = [i \in 0 .. (stride * Height - 1) |-> Black]
  /\ canvas = None /\ table = <<>> /\ merged = None
  /\ panicked = FALSE /\ draws = 0 /\ logs = 0

-----------------------------------------------------------------------------
Swapped(c) == <<c[3], c[2], c[1]>>

(* buffer_color, for one cell. *)
BufferColor(cell) == IF format = "Rgb" THEN cell ELSE Swapped(cell)

(* The bytes merge_down makes of a colour. *)
Chunk(color) == IF format = "Rgb" THEN color ELSE Swapped(color)

(* draw_iter: the bytes of a colour of either kind, and from_framebuffer. *)
DrawnColor(kind, color) ==
  LET bytes == IF kind = "Rgb" THEN color ELSE Swapped(color)
  IN  IF kind = "Rgb" THEN bytes ELSE Swapped(bytes)

OffsetByColumn(point) == point[1] * Height + point[2]

(* draw_iter: the pixel of a point. *)
Offset(point) == point[2] * stride + point[1]

(* What the frame buffer shows at a point. *)
Shows(buffer, point) == BufferColor(buffer[point[2] * stride + point[1]])

(* with_avx panics without AVX, and so does a closure that panics. *)
WithAvx(fails) == panicked' = (~avx \/ fails)

-----------------------------------------------------------------------------
(* CanvasBuf::new: as many pixels as points, in the order of the buffer.   *)
(* "drawn" is what the canvas should show, "id" its turn.                  *)
New ==
  /\ ~panicked /\ canvas = None /\ Len(table) < MaxCanvases
  /\ canvas' = [pixels |-> [i \in 0 .. (Size - 1) |-> BufferColor(screen[i])],
                drawn |-> [p \in Points |-> Shows(screen, p)],
                id |-> Len(table) + 1]
  /\ UNCHANGED <<machine, screen, table, merged, panicked, draws, logs>>

(* draw_iter with one pixel. *)
Draw(point, kind, color) ==
  /\ ~panicked /\ canvas # None /\ draws < MaxDraws
  /\ draws' = draws + 1
  /\ IF Offset(point) < Size
     THEN /\ canvas' = [canvas EXCEPT !.pixels[Offset(point)] = DrawnColor(kind, color),
                                      !.drawn[point] = color]
          /\ UNCHANGED panicked
     ELSE panicked' = TRUE /\ UNCHANGED canvas
  /\ UNCHANGED <<machine, screen, table, merged, logs>>

(* from_png_metadata blends a pixel with itself, with its alpha byte as    *)
(* the weight.                                                             *)
PngPanics(alpha) == alpha \notin {0, 1}

(* DesktopBackground::draw with a pixel of an RGBA image. *)
DrawImage(point, color, alpha) ==
  \/ ~PngPanics(alpha) /\ Draw(point, "Rgb", color)
  \/ /\ ~panicked /\ canvas # None /\ PngPanics(alpha)
     /\ panicked' = TRUE
     /\ UNCHANGED <<machine, screen, canvas, table, merged, draws, logs>>

(* Pixelx16::alpha_blend panics at the last pixel of the first chunk. *)
BlendPanics == Size >= Lanes

(* CanvasBuf::alpha_blend works on whole chunks only. *)
Blend ==
  /\ ~panicked /\ canvas # None
  /\ WithAvx(BlendPanics)
  /\ UNCHANGED <<machine, screen, canvas, table, merged, draws, logs>>

RegisterFirst ==
  /\ ~panicked /\ canvas # None /\ merged = None
  /\ table' = <<canvas>> \o table
  /\ canvas' = None
  /\ UNCHANGED <<machine, screen, merged, panicked, draws, logs>>

(* CanvasBuf::register waits for the rendering loop's guard. *)
Register ==
  /\ ~panicked /\ canvas # None /\ merged = None
  /\ table' = Append(table, canvas)
  /\ canvas' = None
  /\ UNCHANGED <<machine, screen, merged, panicked, draws, logs>>

(* The logger draws a character. *)
Log(point) ==
  /\ ~panicked /\ logs < MaxLogs
  /\ logs' = logs + 1
  /\ screen' = [screen EXCEPT ![point[2] * stride + point[1]] = LogColor]
  /\ UNCHANGED <<machine, canvas, table, merged, panicked, draws>>

-----------------------------------------------------------------------------
(* The rendering loop. *)
BeginPass ==
  /\ ~panicked /\ merged = None /\ table # <<>>
  /\ merged' = 0
  /\ UNCHANGED <<machine, screen, canvas, table, panicked, draws, logs>>

(* merge_down of the next canvas. *)
MergeDown ==
  /\ ~panicked /\ merged # None /\ merged < Len(table)
  /\ WithAvx(FALSE)
  /\ IF avx
     THEN /\ screen' = [i \in DOMAIN screen |->
                          IF i < Size THEN Chunk(table[merged + 1].pixels[i]) ELSE screen[i]]
          /\ merged' = merged + 1
     ELSE UNCHANGED <<screen, merged>>
  /\ UNCHANGED <<machine, canvas, table, draws, logs>>

EndPass ==
  /\ ~panicked /\ merged # None /\ merged = Len(table)
  /\ merged' = None
  /\ UNCHANGED <<machine, screen, canvas, table, panicked, draws, logs>>

Render == BeginPass \/ MergeDown \/ EndPass

(* The panic handler's loop. *)
Panicked == panicked /\ UNCHANGED vars

Next ==
  \/ New \/ Blend \/ Register \/ Render \/ Panicked
  \/ \E p \in Points : \/ Log(p)
                       \/ \E c \in Colors :
                            \/ \E kind \in {"Rgb", "Bgr"} : Draw(p, kind, c)
                            \/ \E a \in Alphas : DrawImage(p, c, a)

(* The rendering loop goes on; nobody need draw. *)
Spec == Init /\ [][Next]_vars /\ WF_vars(Render)

-----------------------------------------------------------------------------
Covered(point) == point[2] * stride + point[1] < Size

(* Merging a canvas down shows, at every point it covers, the colour last  *)
(* drawn there, or what the screen showed when the canvas was made: in     *)
(* either format and for colours of either kind, reading, drawing and      *)
(* writing agree on the order of bytes and of pixels.                      *)
MergeExact ==
  [][(merged' # merged /\ merged' # None /\ merged # None) =>
       \A p \in Points :
         Shows(screen', p) = IF Covered(p)
                             THEN table[merged'].drawn[p] ELSE Shows(screen, p)]_vars

(* The canvas made last is on top: again and again a pass of the rendering *)
(* loop ends with the screen showing all of it that it covers, unless      *)
(* something has panicked, whatever was logged since.                      *)
LastOnTop ==
  []((table # <<>>) =>
       <>(panicked \/ \E i \in DOMAIN table :
                          /\ merged = Len(table) /\ table[i].id = Len(table)
                          /\ \A p \in Points : Covered(p) => Shows(screen, p) = table[i].drawn[p]))
=============================================================================
