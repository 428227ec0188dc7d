------------------------------- MODULE Shapes -------------------------------
(***************************************************************************)
(* The shapes that the drawing thread of the IO chip paints into VRAM      *)
(* (draw_rectangle, draw_square, draw_dot and draw_line of                 *)
(* src/src/iochip.cpp).  VRAM holds one byte per pixel, row after row; the *)
(* control port says whether the screen is 64 by 36 pixels (landscape) or  *)
(* 36 by 64 (portrait).                                                    *)
(*                                                                         *)
(* A painting is a function from the offsets that a call writes to the     *)
(* brush it writes them with.  What a call paints does not depend on what  *)
(* VRAM holds, so each behaviour is one call on a cleared VRAM.            *)
(***************************************************************************)
EXTENDS Bytes, FiniteSets, FiniteSetsExt

CONSTANTS
  Coords,      \* the coordinates given to rectangles, squares and dots
  Sizes,       \* the widths and heights given to them
  LineCoords   \* the coordinates of end points of lines

ASSUME ShapesAssumption ==
  Coords \subseteq Byte /\ Sizes \subseteq Byte /\ LineCoords \subseteq Byte

kIOVideoWidth  == 64
kIOVideoHeight == 36
kIOVRAMSize    == kIOVideoWidth * kIOVideoHeight

Body    == "body"
Outline == "outline"

VARIABLES
  vram,   \* the pixels written and their brush
  call    \* the call of IOChip that wrote them

vars == <<vram, call>>

Abs(n) == IF n < 0 THEN -n ELSE n

screen_width(portrait)  == IF portrait THEN kIOVideoHeight ELSE kIOVideoWidth
screen_height(portrait) == IF portrait THEN kIOVideoWidth ELSE kIOVideoHeight

-----------------------------------------------------------------------------
(* A slip: the right column counts as body. *)
ShadeOpen(bx, by, w, h) == IF by = 0 \/ bx = 0 \/ by = h - 1 THEN Outline ELSE Body

Shade(bx, by, w, h) ==
  IF by = 0 \/ bx = 0 \/ by = h - 1 \/ bx = w - 1 THEN Outline ELSE Body

(* Rows below the screen and columns to the right of it are left out. *)
draw_rectangle(portrait, x, y, w, h) ==
  LET sw   == screen_width(portrait)
      rows == {by \in 0 .. h - 1 : by + y < screen_height(portrait)}
      cols == {bx \in 0 .. w - 1 : bx + x < sw}
  IN  [offset \in {(bx + x) + (by + y) * sw : bx \in cols, by \in rows} |->
         Shade((offset % sw) - x, (offset \div sw) - y, w, h)]

(* A slip: the last row and column are compared with s. *)
draw_square_past_end(portrait, x, y, s) ==
  LET sw == screen_width(portrait)
      col(offset, by) == offset - x - (by + y) * sw
      row(offset) == Max({by \in 0 .. s - 1 : col(offset, by) \in 0 .. s - 1})
      written == {offset \in {(bx + x) + (by + y) * sw : bx, by \in 0 .. s - 1} : offset < \h900}
  IN  [offset \in written |-> Shade(col(offset, row(offset)), row(offset), s + 1, s + 1)]

(* Only the end of VRAM is tested.  An offset can be written in two rows;  *)
(* the later one stays.                                                    *)
draw_square(portrait, x, y, s) ==
  LET sw == screen_width(portrait)
      col(offset, by) == offset - x - (by + y) * sw
      row(offset) == Max({by \in 0 .. s - 1 : col(offset, by) \in 0 .. s - 1})
      written == {offset \in {(bx + x) + (by + y) * sw : bx, by \in 0 .. s - 1} : offset < \h900}
  IN  [offset \in written |-> Shade(col(offset, row(offset)), row(offset), s, s)]

(* A slip: the end of VRAM itself passes the test. *)
draw_dot_at_end(portrait, x, y) ==
  [offset \in {U16(x + y * screen_width(portrait))} \cap 0 .. \h900 |-> Body]

draw_dot(portrait, x, y) ==
  [offset \in {U16(x + y * screen_width(portrait))} \cap 0 .. \h900 - 1 |-> Body]

-----------------------------------------------------------------------------
(***************************************************************************)
(* Bresenham's line.  p and q are the end points, the coordinate that      *)
(* changes most first, in increasing order of it.                          *)
(***************************************************************************)
Steep(x1, y1, x2, y2)   == Abs(y2 - y1) > Abs(x2 - x1)
Turn(steep, x, y)       == IF steep THEN <<y, x>> ELSE <<x, y>>

(* A slip: the end points keep their order. *)
EndsUnordered(p, q) == <<p, q>>

Ends(p, q) == IF p[1] > q[1] THEN <<q, p>> ELSE <<p, q>>

(* A slip: the error does not start in the middle. *)
FirstErrorZero(dx) == 0

(* error is a float in the code and takes multiples of 1/2: here it is doubled. *)
FirstError(dx) == dx

(* The minor coordinate and the error before the k-th dot. *)
Walk(p, q) ==
  LET dx    == q[1] - p[1]
      dy    == Abs(q[2] - p[2])
      ystep == IF p[2] < q[2] THEN 1 ELSE -1
      walk[k \in 0 .. dx] ==
        IF k = 0
          THEN [y |-> p[2], error |-> FirstError(dx)]
          ELSE LET last  == walk[k - 1]
                   error == last.error - 2 * dy
               IN  IF error < 0
                     THEN [y |-> last.y + ystep, error |-> error + 2 * dx]
                     ELSE [y |-> last.y, error |-> error]
  IN  walk

(* The loop ends before the x coordinate of q. *)
draw_line(portrait, x1, y1, x2, y2) ==
  LET steep == Steep(x1, y1, x2, y2)
      ends  == Ends(Turn(steep, x1, y1), Turn(steep, x2, y2))
      p     == ends[1]
      q     == ends[2]
      walk  == Walk(p, q)
      dot(k) == LET at == Turn(steep, p[1] + k, walk[k].y)
                IN  draw_dot(portrait, U8(at[1]), U8(at[2]))
  IN  [offset \in UNION {DOMAIN dot(k) : k \in 0 .. q[1] - p[1] - 1} |-> Body]

-----------------------------------------------------------------------------
Call == [shape : {"none"}]
        \cup [shape : {"rectangle", "square", "dot", "line"}, portrait : BOOLEAN,
              args : [1 .. 4 -> Byte]]

Init ==
  /\ vram = [offset \in {} |-> Body]
  /\ call = [shape |-> "none"]

Called(shape, portrait, args, painting) ==
  /\ call.shape = "none"
  /\ call' = [shape |-> shape, portrait |-> portrait, args |-> args]
  /\ vram' = painting

rectangle ==
  \E portrait \in BOOLEAN, x, y \in Coords, w, h \in Sizes :
    Called("rectangle", portrait, <<x, y, w, h>>, draw_rectangle(portrait, x, y, w, h))

square ==
  \E portrait \in BOOLEAN, x, y \in Coords, s \in Sizes :
    Called("square", portrait, <<x, y, s, s>>, draw_square(portrait, x, y, s))

dot ==
  \E portrait \in BOOLEAN, x, y \in Coords :
    Called("dot", portrait, <<x, y, 1, 1>>, draw_dot(portrait, x, y))

line ==
  \E portrait \in BOOLEAN, x1, y1, x2, y2 \in LineCoords :
    Called("line", portrait, <<x1, y1, x2, y2>>, draw_line(portrait, x1, y1, x2, y2))

Next == rectangle \/ square \/ dot \/ line

Spec == Init /\ [][Next]_vars

-----------------------------------------------------------------------------
OnScreen(portrait, x, y) == x < screen_width(portrait) /\ y < screen_height(portrait)

(***************************************************************************)
(* No call writes outside VRAM, whatever its arguments: the byte after it  *)
(* is the control port of the IO chip (the tests of screen_height,         *)
(* screen_width and 0x900 in the draw methods).                            *)
(***************************************************************************)
ShapesStayInVRAM == DOMAIN vram \subseteq 0 .. kIOVRAMSize - 1

(***************************************************************************)
(* The pixels of a rectangle in the body colour are those of the rectangle *)
(* one pixel inside it, also where the screen cuts it: clipping neither    *)
(* moves the outline nor adds one (draw_rectangle).                        *)
(***************************************************************************)
OutlineEnclosesBody ==
  call.shape = "rectangle" =>
    LET a == call.args
    IN  {o \in DOMAIN vram : vram[o] = Body}
          = DOMAIN draw_rectangle(call.portrait, a[1] + 1, a[2] + 1, a[3] - 2, a[4] - 2)

(***************************************************************************)
(* A square that fits the screen in width is the rectangle with equal      *)
(* sides, although draw_square has no test for the bottom row but the end  *)
(* of VRAM (draw_square, draw_rectangle).                                  *)
(***************************************************************************)
SquareIsRectangle ==
  call.shape = "square" /\ call.args[1] + call.args[3] <= screen_width(call.portrait) =>
    vram = draw_rectangle(call.portrait, call.args[1], call.args[2], call.args[3], call.args[3])

(***************************************************************************)
(* A line between two points of the screen has one pixel for each step of  *)
(* its longer side, and each is within half a pixel of the ideal line      *)
(* (draw_line, with its swaps and its accumulated error).                  *)
(***************************************************************************)
LineNearIdeal ==
  call.shape = "line" =>
    LET a  == call.args
        sw == screen_width(call.portrait)
        longer == Max({Abs(a[3] - a[1]), Abs(a[4] - a[2])})
        distance(o) == Abs(((o % sw) - a[1]) * (a[4] - a[2]) - ((o \div sw) - a[2]) * (a[3] - a[1]))
    IN  OnScreen(call.portrait, a[1], a[2]) /\ OnScreen(call.portrait, a[3], a[4]) =>
          /\ Cardinality(DOMAIN vram) = longer
          /\ \A o \in DOMAIN vram : 2 * distance(o) <= longer

(***************************************************************************)
(* A line is the same from either end, so that drawing it again backwards  *)
(* in the colour of the background removes it (the swaps of draw_line).    *)
(***************************************************************************)
LineReversible ==
  call.shape = "line" =>
    LET a == call.args
    IN  vram = draw_line(call.portrait, a[3], a[4], a[1], a[2])
=============================================================================
