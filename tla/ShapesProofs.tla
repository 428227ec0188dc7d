---------------------------- MODULE ShapesProofs ----------------------------
(***************************************************************************)
(* Proofs about the shapes, for every byte as a coordinate or a size and   *)
(* for both orientations: no shape writes outside VRAM, a square that fits *)
(* in width is the rectangle with equal sides, the body of a rectangle is  *)
(* the rectangle inside its outline, a line is the same from either end    *)
(* and stays within half a pixel of the ideal one.  The last is proved by  *)
(* induction over the steps of the line.                                   *)
(***************************************************************************)
EXTENDS Shapes, BytesProofs, FiniteSetTheorems

-----------------------------------------------------------------------------
(* The screen. *)

(* The two screens that there are. *)
LEMMA Screens ==
  ASSUME NEW portrait \in BOOLEAN
  PROVE  \/ screen_width(portrait) = 64 /\ screen_height(portrait) = 36
         \/ screen_width(portrait) = 36 /\ screen_height(portrait) = 64
BY DEF screen_width, screen_height, kIOVideoWidth, kIOVideoHeight

(* The size of VRAM, as the draw methods write it. *)
LEMMA VRAMSize == kIOVRAMSize = 2304 /\ \h900 = 2304
BY SMT DEF kIOVRAMSize, kIOVideoWidth, kIOVideoHeight

(* A pixel in range of the screen is in VRAM. *)
LEMMA PixelInVRAM ==
  ASSUME NEW portrait \in BOOLEAN, NEW col \in Int, NEW row \in Int,
         0 <= col, col < screen_width(portrait), 0 <= row, row < screen_height(portrait)
  PROVE  col + row * screen_width(portrait) \in 0 .. kIOVRAMSize - 1
<1>1. CASE screen_width(portrait) = 64 /\ screen_height(portrait) = 36
  BY SMT, <1>1, VRAMSize
<1>2. CASE screen_width(portrait) = 36 /\ screen_height(portrait) = 64
  BY SMT, <1>2, VRAMSize
<1> QED
  BY <1>1, <1>2, Screens

-----------------------------------------------------------------------------
(* Each shape stays in VRAM. *)

(* A rectangle is cut at the right and at the bottom of the screen. *)
LEMMA RectangleInVRAM ==
  ASSUME NEW portrait \in BOOLEAN, NEW x \in Byte, NEW y \in Byte, NEW w \in Byte, NEW h \in Byte
  PROVE  DOMAIN draw_rectangle(portrait, x, y, w, h) \subseteq 0 .. kIOVRAMSize - 1
<1> DEFINE sw == screen_width(portrait)
<1>1. x \in Int /\ 0 <= x /\ y \in Int /\ 0 <= y /\ w \in Int /\ h \in Int
  BY ByteBounds
<1>2. ASSUME NEW by \in 0 .. h - 1, by + y < screen_height(portrait),
             NEW bx \in 0 .. w - 1, bx + x < sw
      PROVE  (bx + x) + (by + y) * sw \in 0 .. kIOVRAMSize - 1
  <2>1. bx + x \in Int /\ 0 <= bx + x /\ by + y \in Int /\ 0 <= by + y
    BY SMT, <1>1
  <2> QED
    BY <1>2, <2>1, PixelInVRAM
<1> QED
  BY <1>2 DEF draw_rectangle

(* A square is cut at the end of VRAM. *)
LEMMA SquareInVRAM ==
  ASSUME NEW portrait \in BOOLEAN, NEW x \in Byte, NEW y \in Byte, NEW s \in Byte
  PROVE  DOMAIN draw_square(portrait, x, y, s) \subseteq 0 .. kIOVRAMSize - 1
<1> DEFINE sw == screen_width(portrait)
<1>1. x \in Int /\ 0 <= x /\ y \in Int /\ 0 <= y /\ s \in Int
  BY ByteBounds
<1>2. sw = 64 \/ sw = 36
  BY Screens
<1> HIDE DEF sw
<1>3. \A bx, by \in 0 .. s - 1 :
        /\ (bx + x) + (by + y) * sw \in Int
        /\ 0 <= (bx + x) + (by + y) * sw
  BY SMT, <1>1, <1>2
<1>4. \A offset \in Int : 0 <= offset /\ offset < \h900 => offset \in 0 .. kIOVRAMSize - 1
  BY SMT, VRAMSize
<1> QED
  BY <1>3, <1>4 DEF draw_square, sw

(* A dot is left out when it is past the end of VRAM. *)
LEMMA DotInVRAM ==
  ASSUME NEW portrait, NEW x, NEW y
  PROVE  DOMAIN draw_dot(portrait, x, y) \subseteq 0 .. kIOVRAMSize - 1
BY VRAMSize DEF draw_dot

(* A line is made of dots. *)
LEMMA LineInVRAM ==
  ASSUME NEW portrait, NEW x1, NEW y1, NEW x2, NEW y2
  PROVE  DOMAIN draw_line(portrait, x1, y1, x2, y2) \subseteq 0 .. kIOVRAMSize - 1
BY DotInVRAM DEF draw_line

(* Every step leaves VRAM within its bounds. *)
LEMMA ShapesStep == ShapesStayInVRAM /\ [Next]_vars => ShapesStayInVRAM'
<1> SUFFICES ASSUME ShapesStayInVRAM, [Next]_vars PROVE ShapesStayInVRAM'
  OBVIOUS
<1>1. CASE rectangle
  <2>1. PICK portrait \in BOOLEAN, x, y \in Coords, w, h \in Sizes :
          vram' = draw_rectangle(portrait, x, y, w, h)
    BY <1>1 DEF rectangle, Called
  <2> QED
    BY <2>1, RectangleInVRAM, ShapesAssumption DEF ShapesStayInVRAM
<1>2. CASE square
  <2>1. PICK portrait \in BOOLEAN, x, y \in Coords, s \in Sizes :
          vram' = draw_square(portrait, x, y, s)
    BY <1>2 DEF square, Called
  <2> QED
    BY <2>1, SquareInVRAM, ShapesAssumption DEF ShapesStayInVRAM
<1>3. CASE dot
  BY <1>3, DotInVRAM DEF dot, Called, ShapesStayInVRAM
<1>4. CASE line
  BY <1>4, LineInVRAM DEF line, Called, ShapesStayInVRAM
<1>5. CASE UNCHANGED vars
  BY <1>5 DEF vars, ShapesStayInVRAM
<1> QED
  BY <1>1, <1>2, <1>3, <1>4, <1>5 DEF Next

(***************************************************************************)
(* No call of a draw method writes outside VRAM, for every byte as an      *)
(* argument: the rows and columns beyond the screen are skipped, and the   *)
(* others are tested against 0x900.                                        *)
(***************************************************************************)
THEOREM PaintingsStayInVRAM == Spec => []ShapesStayInVRAM
<1>1. Init => ShapesStayInVRAM
  BY DEF Init, ShapesStayInVRAM
<1> QED
  BY <1>1, ShapesStep, PTL DEF Spec

-----------------------------------------------------------------------------
(* Squares and rectangles. *)

(* The column and the row of an offset are those it was computed from. *)
LEMMA ColumnAndRow ==
  ASSUME NEW sw \in {36, 64}, NEW c \in Nat, NEW r \in Nat, c < sw
  PROVE  /\ (c + r * sw) % sw = c
         /\ (c + r * sw) \div sw = r
         /\ c + r * sw < 2304 <=> r < IF sw = 64 THEN 36 ELSE 64
<1>1. CASE sw = 64
  BY SMT, <1>1
<1>2. CASE sw = 36
  BY SMT, <1>2
<1> QED
  BY <1>1, <1>2

(* In a square no wider than the screen an offset belongs to one row. *)
LEMMA OneRow ==
  ASSUME NEW sw \in {36, 64}, NEW x \in Nat, NEW y \in Nat, NEW s \in Nat, x + s <= sw,
         NEW bx \in 0 .. s - 1, NEW by \in 0 .. s - 1
  PROVE  \A b \in 0 .. s - 1 :
           ((bx + x) + (by + y) * sw) - x - (b + y) * sw \in 0 .. s - 1 <=> b = by
<1>1. CASE sw = 64
  BY SMT, <1>1
<1>2. CASE sw = 36
  BY SMT, <1>2
<1> QED
  BY <1>1, <1>2

(* The greatest element of a set of one number. *)
LEMMA MaxOfOne == ASSUME NEW n \in Int PROVE Max({n}) = n
BY SMT DEF Max

(* draw_square and draw_rectangle agree on a square that fits in width. *)
LEMMA SquareAgrees ==
  ASSUME NEW portrait \in BOOLEAN, NEW x \in Byte, NEW y \in Byte, NEW s \in Byte,
         x + s <= screen_width(portrait)
  PROVE  draw_square(portrait, x, y, s) = draw_rectangle(portrait, x, y, s, s)
<1> DEFINE sw             == screen_width(portrait)
           sh             == screen_height(portrait)
           Offset(bx, by) == (bx + x) + (by + y) * sw
           col(o, b)      == o - x - (b + y) * sw
           Rows(o)        == {b \in 0 .. s - 1 : col(o, b) \in 0 .. s - 1}
           written        == {o \in {Offset(bx, by) : bx, by \in 0 .. s - 1} : o < \h900}
           shown          == {Offset(bx, by) : bx \in {b \in 0 .. s - 1 : b + x < sw},
                                               by \in {b \in 0 .. s - 1 : b + y < sh}}
<1>1. x \in Nat /\ y \in Nat /\ s \in Nat
  <2>1. x \in Int /\ 0 <= x /\ y \in Int /\ 0 <= y /\ s \in Int /\ 0 <= s
    BY ByteBounds
  <2> QED
    BY SMT, <2>1
<1>2. sw \in {36, 64} /\ sh = (IF sw = 64 THEN 36 ELSE 64)
  BY Screens
<1>3. draw_square(portrait, x, y, s)
        = [o \in written |-> Shade(col(o, Max(Rows(o))), Max(Rows(o)), s, s)]
  BY DEF draw_square
<1>4. draw_rectangle(portrait, x, y, s, s)
        = [o \in shown |-> Shade((o % sw) - x, (o \div sw) - y, s, s)]
  BY DEF draw_rectangle
<1>5. x + s <= sw
  OBVIOUS
<1> HIDE DEF sw, sh
<1>6. ASSUME NEW bx \in 0 .. s - 1, NEW by \in 0 .. s - 1
      PROVE  /\ bx + x < sw
             /\ Offset(bx, by) < \h900 <=> by + y < sh
             /\ Offset(bx, by) % sw = bx + x
             /\ Offset(bx, by) \div sw = by + y
             /\ Rows(Offset(bx, by)) = {by}
             /\ col(Offset(bx, by), by) = bx
  <2>1. bx + x \in Nat /\ by + y \in Nat /\ bx + x < sw
    BY SMT, <1>1, <1>2, <1>5
  <2>2. \h900 = 2304
    BY VRAMSize
  <2>3. /\ Offset(bx, by) < \h900 <=> by + y < sh
        /\ Offset(bx, by) % sw = bx + x
        /\ Offset(bx, by) \div sw = by + y
    BY <1>2, <2>1, <2>2, ColumnAndRow
  <2>4. Rows(Offset(bx, by)) = {by}
    <3>1. \A b \in 0 .. s - 1 : col(Offset(bx, by), b) \in 0 .. s - 1 <=> b = by
      BY <1>1, <1>2, <1>5, OneRow
    <3> HIDE DEF col, Offset
    <3> QED
      BY <3>1
  <2>5. col(Offset(bx, by), by) = bx
    <3>1. CASE sw = 64
      BY SMT, <1>1, <3>1
    <3>2. CASE sw = 36
      BY SMT, <1>1, <3>2
    <3> QED
      BY <1>2, <3>1, <3>2
  <2> QED
    BY <2>1, <2>3, <2>4, <2>5
<1> HIDE DEF Rows, col
<1>7. written = shown
  <2> HIDE DEF Offset
  <2> QED
    BY <1>6
<1>8. ASSUME NEW o \in written
      PROVE  Shade(col(o, Max(Rows(o))), Max(Rows(o)), s, s)
               = Shade((o % sw) - x, (o \div sw) - y, s, s)
  <2>1. PICK bx \in 0 .. s - 1, by \in 0 .. s - 1 : o = Offset(bx, by)
    <3>1. o \in {Offset(bx, by) : bx, by \in 0 .. s - 1}
      BY <1>8
    <3> HIDE DEF Offset
    <3> QED
      BY <3>1
  <2>2. Max(Rows(o)) = by /\ col(o, by) = bx
    BY <1>6, <2>1, MaxOfOne
  <2>3. o % sw = bx + x /\ o \div sw = by + y
    BY <1>6, <2>1
  <2>4. (o % sw) - x = bx /\ (o \div sw) - y = by
    BY SMT, <1>1, <2>3
  <2> QED
    BY <2>2, <2>4
<1> HIDE DEF written, shown
<1> QED
  BY <1>3, <1>4, <1>7, <1>8

(* Every step leaves a square that fits equal to its rectangle. *)
LEMMA SquareStep == SquareIsRectangle /\ [Next]_vars => SquareIsRectangle'
<1> SUFFICES ASSUME SquareIsRectangle, [Next]_vars PROVE SquareIsRectangle'
  OBVIOUS
<1>1. CASE square
  <2>1. PICK portrait \in BOOLEAN, x, y \in Coords, s \in Sizes :
          Called("square", portrait, <<x, y, s, s>>, draw_square(portrait, x, y, s))
    BY <1>1 DEF square
  <2>2. /\ call'.portrait = portrait
        /\ call'.args[1] = x /\ call'.args[2] = y /\ call'.args[3] = s
        /\ vram' = draw_square(portrait, x, y, s)
    BY <2>1 DEF Called
  <2> QED
    BY <2>2, SquareAgrees, ShapesAssumption DEF SquareIsRectangle
<1>2. CASE rectangle \/ dot \/ line
  <2>1. call'.shape # "square"
    BY <1>2 DEF rectangle, dot, line, Called
  <2> QED
    BY <2>1 DEF SquareIsRectangle
<1>3. CASE UNCHANGED vars
  BY <1>3 DEF vars, SquareIsRectangle
<1> QED
  BY <1>1, <1>2, <1>3 DEF Next

(***************************************************************************)
(* A square that fits the screen in width is the rectangle with equal      *)
(* sides, for every byte as a coordinate and as a side: the test of 0x900  *)
(* cuts the same rows as the test of screen_height, and no row of the      *)
(* square overwrites another.                                              *)
(***************************************************************************)
THEOREM SquaresAreRectangles == Spec => []SquareIsRectangle
<1>1. Init => SquareIsRectangle
  BY DEF Init, SquareIsRectangle
<1> QED
  BY <1>1, SquareStep, PTL DEF Spec

-----------------------------------------------------------------------------
(* The outline of a rectangle. *)

(* The columns and rows of the screen that a rectangle covers. *)
Columns(portrait, x, w) == {c \in x .. x + w - 1 : c < screen_width(portrait)}
Rows(portrait, y, h)    == {r \in y .. y + h - 1 : r < screen_height(portrait)}

Pixels(portrait, C, R)  == {c + r * screen_width(portrait) : c \in C, r \in R}
BodyPixels(painting)    == {o \in DOMAIN painting : painting[o] = Body}

(* The pixels of a rectangle are where its columns and rows meet. *)
LEMMA RectanglePixels ==
  ASSUME NEW portrait \in BOOLEAN, NEW x \in Nat, NEW y \in Nat, NEW w \in Int, NEW h \in Int
  PROVE  /\ DOMAIN draw_rectangle(portrait, x, y, w, h)
              = Pixels(portrait, Columns(portrait, x, w), Rows(portrait, y, h))
         /\ \A c \in Columns(portrait, x, w), r \in Rows(portrait, y, h) :
              draw_rectangle(portrait, x, y, w, h)[c + r * screen_width(portrait)]
                = Shade(c - x, r - y, w, h)
<1> DEFINE sw           == screen_width(portrait)
           sh           == screen_height(portrait)
           Offset(c, r) == c + r * sw
           Cols         == Columns(portrait, x, w)
           Lines        == Rows(portrait, y, h)
           cols         == {bx \in 0 .. w - 1 : bx + x < sw}
           rows         == {by \in 0 .. h - 1 : by + y < sh}
           shown        == {Offset(bx + x, by + y) : bx \in cols, by \in rows}
           pixels       == {Offset(c, r) : c \in Cols, r \in Lines}
<1>1. draw_rectangle(portrait, x, y, w, h)
        = [o \in shown |-> Shade((o % sw) - x, (o \div sw) - y, w, h)]
  BY DEF draw_rectangle
<1>2. sw \in {36, 64} /\ sh \in {36, 64}
  BY Screens
<1>3. /\ \A bx \in cols : bx + x \in Cols
      /\ \A by \in rows : by + y \in Lines
      /\ \A c \in Cols : c - x \in cols /\ (c - x) + x = c
      /\ \A r \in Lines : r - y \in rows /\ (r - y) + y = r
  BY SMT, <1>2 DEF Columns, Rows
<1>4. \A c \in Cols, r \in Lines : c \in Nat /\ r \in Nat /\ c < sw
  BY SMT, <1>2 DEF Columns, Rows
<1> HIDE DEF Cols, Lines, cols, rows, sw, sh
<1>5. \A c \in Cols, r \in Lines : Offset(c, r) % sw = c /\ Offset(c, r) \div sw = r
  BY <1>2, <1>4, ColumnAndRow
<1> HIDE DEF Offset
<1>6. shown = pixels
  <2>1. \A o \in shown : o \in pixels
    BY <1>3
  <2>2. \A o \in pixels : o \in shown
    BY <1>3
  <2> QED
    BY <2>1, <2>2
<1>7. \A c \in Cols, r \in Lines :
        draw_rectangle(portrait, x, y, w, h)[Offset(c, r)] = Shade(c - x, r - y, w, h)
  BY <1>1, <1>5, <1>6
<1> HIDE DEF shown
<1>8. DOMAIN draw_rectangle(portrait, x, y, w, h) = pixels
  BY <1>1, <1>6
<1>9. pixels = Pixels(portrait, Cols, Lines)
  BY DEF Pixels, Offset, sw
<1> QED
  BY <1>7, <1>8, <1>9 DEF Cols, Lines, sw, Offset

(* One pixel inside its edges a rectangle has the body colour. *)
LEMMA BodyInside ==
  ASSUME NEW portrait \in BOOLEAN, NEW x \in Byte, NEW y \in Byte, NEW w \in Byte, NEW h \in Byte,
         NEW painting, painting = draw_rectangle(portrait, x, y, w, h)
  PROVE  BodyPixels(painting) = DOMAIN draw_rectangle(portrait, x + 1, y + 1, w - 2, h - 2)
<1> DEFINE sw           == screen_width(portrait)
           Offset(c, r) == c + r * sw
           Cols         == Columns(portrait, x, w)
           Lines        == Rows(portrait, y, h)
           InnerCols    == Columns(portrait, x + 1, w - 2)
           InnerLines   == Rows(portrait, y + 1, h - 2)
<1>1. /\ x \in Int /\ 0 <= x /\ y \in Int /\ 0 <= y /\ w \in Int /\ h \in Int
  BY ByteBounds
<1>2. /\ x \in Nat /\ y \in Nat /\ x + 1 \in Nat /\ y + 1 \in Nat
      /\ w - 2 \in Int /\ h - 2 \in Int
  BY SMT, <1>1
<1>3. sw \in Int /\ screen_height(portrait) \in Int
  BY Screens
<1>4. Body # Outline
  BY DEF Body, Outline
<1>5. ASSUME NEW c \in Cols, NEW r \in Lines
      PROVE  Shade(c - x, r - y, w, h) = Body <=> c \in InnerCols /\ r \in InnerLines
  BY SMT, <1>1, <1>3, <1>4 DEF Columns, Rows, Shade
<1>6. InnerCols \subseteq Cols /\ InnerLines \subseteq Lines
  BY SMT, <1>1, <1>3 DEF Columns, Rows
<1>7. /\ DOMAIN painting = Pixels(portrait, Cols, Lines)
      /\ \A c \in Cols, r \in Lines : painting[Offset(c, r)] = Shade(c - x, r - y, w, h)
  BY <1>1, <1>2, RectanglePixels
<1>8. DOMAIN draw_rectangle(portrait, x + 1, y + 1, w - 2, h - 2)
        = Pixels(portrait, InnerCols, InnerLines)
  BY <1>2, RectanglePixels
<1>9. /\ Pixels(portrait, Cols, Lines) = {Offset(c, r) : c \in Cols, r \in Lines}
      /\ Pixels(portrait, InnerCols, InnerLines)
           = {Offset(c, r) : c \in InnerCols, r \in InnerLines}
  BY DEF Pixels
<1> HIDE DEF Offset, Cols, Lines, InnerCols, InnerLines
<1>10. ASSUME NEW c \in Cols, NEW r \in Lines
       PROVE  painting[Offset(c, r)] = Body <=> c \in InnerCols /\ r \in InnerLines
  BY <1>5, <1>7
<1>11. ASSUME NEW o \in BodyPixels(painting)
       PROVE  o \in Pixels(portrait, InnerCols, InnerLines)
  <2>1. PICK c \in Cols, r \in Lines : o = Offset(c, r)
    BY <1>7, <1>9 DEF BodyPixels
  <2> QED
    BY <1>9, <1>10, <2>1 DEF BodyPixels
<1>12. ASSUME NEW o \in Pixels(portrait, InnerCols, InnerLines)
       PROVE  o \in BodyPixels(painting)
  <2>1. PICK c \in InnerCols, r \in InnerLines : o = Offset(c, r)
    BY <1>9
  <2>2. c \in Cols /\ r \in Lines
    BY <1>6
  <2> QED
    BY <1>7, <1>9, <1>10, <2>1, <2>2 DEF BodyPixels
<1> QED
  BY <1>8, <1>11, <1>12

(* Every step leaves the outline of a rectangle around its body. *)
LEMMA OutlineStep == OutlineEnclosesBody /\ [Next]_vars => OutlineEnclosesBody'
<1> SUFFICES ASSUME OutlineEnclosesBody, [Next]_vars PROVE OutlineEnclosesBody'
  OBVIOUS
<1>1. CASE rectangle
  <2>1. PICK portrait \in BOOLEAN, x, y \in Coords, w, h \in Sizes :
          Called("rectangle", portrait, <<x, y, w, h>>, draw_rectangle(portrait, x, y, w, h))
    BY <1>1 DEF rectangle
  <2>2. /\ call'.portrait = portrait
        /\ call'.args[1] = x /\ call'.args[2] = y /\ call'.args[3] = w /\ call'.args[4] = h
        /\ vram' = draw_rectangle(portrait, x, y, w, h)
    BY <2>1 DEF Called
  <2>3. x \in Byte /\ y \in Byte /\ w \in Byte /\ h \in Byte
    BY ShapesAssumption
  <2>4. BodyPixels(vram') = DOMAIN draw_rectangle(portrait, x + 1, y + 1, w - 2, h - 2)
    BY <2>2, <2>3, BodyInside
  <2> QED
    BY <2>2, <2>4 DEF OutlineEnclosesBody, BodyPixels
<1>2. CASE square \/ dot \/ line
  <2>1. call'.shape # "rectangle"
    BY <1>2 DEF square, dot, line, Called
  <2> QED
    BY <2>1 DEF OutlineEnclosesBody
<1>3. CASE UNCHANGED vars
  BY <1>3 DEF vars, OutlineEnclosesBody
<1> QED
  BY <1>1, <1>2, <1>3 DEF Next

(***************************************************************************)
(* The body of a rectangle is the rectangle one pixel inside it, for every *)
(* byte as a coordinate or a size: where the screen cuts a rectangle there *)
(* is no outline, and a rectangle of width or height two or less has no    *)
(* body (draw_rectangle).                                                  *)
(***************************************************************************)
THEOREM OutlinesEnclose == Spec => []OutlineEnclosesBody
<1>1. Init => OutlineEnclosesBody
  BY DEF Init, OutlineEnclosesBody
<1> QED
  BY <1>1, OutlineStep, PTL DEF Spec

-----------------------------------------------------------------------------
(***************************************************************************)
(* Lines.  What draw_line paints depends on its end points only through    *)
(* the direction that is stepped through and the points in their order.    *)
(***************************************************************************)
Dot(portrait, steep, p, walk, k) ==
  LET point == Turn(steep, p[1] + k, walk[k].y)
  IN  draw_dot(portrait, U8(point[1]), U8(point[2]))

DotsBetween(portrait, steep, ends) ==
  [offset \in UNION {DOMAIN Dot(portrait, steep, ends[1], Walk(ends[1], ends[2]), k) :
                       k \in 0 .. ends[2][1] - ends[1][1] - 1} |-> Body]

EndsOf(x1, y1, x2, y2) ==
  LET steep == Steep(x1, y1, x2, y2)
  IN  Ends(Turn(steep, x1, y1), Turn(steep, x2, y2))

(* draw_line in these terms. *)
LEMMA LineIsDots ==
  ASSUME NEW portrait, NEW x1, NEW y1, NEW x2, NEW y2
  PROVE  draw_line(portrait, x1, y1, x2, y2)
           = DotsBetween(portrait, Steep(x1, y1, x2, y2), EndsOf(x1, y1, x2, y2))
BY DEF draw_line, DotsBetween, EndsOf, Dot

(* The swaps give the same points, in the same order, from either end: two *)
(* points with the same major coordinate are the same point.               *)
LEMMA EndsSwap ==
  ASSUME NEW x1 \in Int, NEW y1 \in Int, NEW x2 \in Int, NEW y2 \in Int
  PROVE  /\ Steep(x1, y1, x2, y2) = Steep(x2, y2, x1, y1)
         /\ EndsOf(x1, y1, x2, y2) = EndsOf(x2, y2, x1, y1)
<1> DEFINE steep == Steep(x1, y1, x2, y2)
           a     == Turn(steep, x1, y1)
           b     == Turn(steep, x2, y2)
<1>1. steep <=> Steep(x2, y2, x1, y1)
  BY SMT DEF Steep, Abs
<1>2. steep \in BOOLEAN /\ Steep(x2, y2, x1, y1) \in BOOLEAN
  BY DEF Steep
<1>3. steep = Steep(x2, y2, x1, y1)
  BY <1>1, <1>2
<1>4. /\ steep /\ y1 = y2 => x1 = x2
      /\ ~steep /\ x1 = x2 => y1 = y2
  BY SMT DEF Steep, Abs
<1>5. EndsOf(x1, y1, x2, y2) = Ends(a, b) /\ EndsOf(x2, y2, x1, y1) = Ends(b, a)
  BY <1>3 DEF EndsOf
<1> HIDE DEF steep
<1>6. a[1] \in Int /\ b[1] \in Int /\ (a[1] = b[1] => a = b)
  BY <1>4 DEF Turn
<1> HIDE DEF a, b
<1>7. Ends(a, b) = Ends(b, a)
  BY SMT, <1>6 DEF Ends
<1> QED
  BY <1>3, <1>5, <1>7 DEF steep

(* Every step leaves a line the same from either end. *)
LEMMA LineStep == LineReversible /\ [Next]_vars => LineReversible'
<1> SUFFICES ASSUME LineReversible, [Next]_vars PROVE LineReversible'
  OBVIOUS
<1>1. CASE line
  <2>1. PICK portrait \in BOOLEAN, x1, y1, x2, y2 \in LineCoords :
          Called("line", portrait, <<x1, y1, x2, y2>>, draw_line(portrait, x1, y1, x2, y2))
    BY <1>1 DEF line
  <2>2. /\ call'.portrait = portrait
        /\ call'.args[1] = x1 /\ call'.args[2] = y1 /\ call'.args[3] = x2 /\ call'.args[4] = y2
        /\ vram' = draw_line(portrait, x1, y1, x2, y2)
    BY <2>1 DEF Called
  <2>3. x1 \in Int /\ y1 \in Int /\ x2 \in Int /\ y2 \in Int
    BY ShapesAssumption, ByteBounds
  <2>4. draw_line(portrait, x1, y1, x2, y2) = draw_line(portrait, x2, y2, x1, y1)
    <3>1. /\ Steep(x1, y1, x2, y2) = Steep(x2, y2, x1, y1)
          /\ EndsOf(x1, y1, x2, y2) = EndsOf(x2, y2, x1, y1)
      BY <2>3, EndsSwap
    <3>2. /\ draw_line(portrait, x1, y1, x2, y2)
               = DotsBetween(portrait, Steep(x1, y1, x2, y2), EndsOf(x1, y1, x2, y2))
          /\ draw_line(portrait, x2, y2, x1, y1)
               = DotsBetween(portrait, Steep(x2, y2, x1, y1), EndsOf(x2, y2, x1, y1))
      BY LineIsDots
    <3> QED
      BY <3>1, <3>2
  <2> QED
    BY <2>2, <2>4 DEF LineReversible
<1>2. CASE rectangle \/ square \/ dot
  <2>1. call'.shape # "line"
    BY <1>2 DEF rectangle, square, dot, Called
  <2> QED
    BY <2>1 DEF LineReversible
<1>3. CASE UNCHANGED vars
  BY <1>3 DEF vars, LineReversible
<1> QED
  BY <1>1, <1>2, <1>3 DEF Next

(***************************************************************************)
(* A line is the same from either end, for all bytes as end points, also   *)
(* off the screen: the swaps of draw_line put the points in the same       *)
(* order, so that both calls make the same steps.                          *)
(***************************************************************************)
THEOREM LinesReverse == Spec => []LineReversible
<1>1. Init => LineReversible
  BY DEF Init, LineReversible
<1> QED
  BY <1>1, LineStep, PTL DEF Spec

-----------------------------------------------------------------------------
(***************************************************************************)
(* Induction.  The library's theorems about induction speak of predicates, *)
(* which the provers cannot instantiate; its theorems about well-founded   *)
(* relations speak of sets.                                                *)
(***************************************************************************)
(* The order of the naturals is well-founded. *)
LEMMA NatOrder == IsWellFoundedOn({ss \in Nat \X Nat : ss[1] < ss[2]}, Nat)
BY NatLessThanWellFounded, Zenon DEF OpToRel

(* A nonempty set of naturals has a least element. *)
LEMMA LeastNatural ==
  ASSUME NEW T \in SUBSET Nat, T # {}
  PROVE  \E n \in T : \A m \in T : n <= m
<1> DEFINE R == {ss \in Nat \X Nat : ss[1] < ss[2]}
<1>1. IsWellFoundedOn(R, Nat)
  BY NatOrder
<1>2. \A m, n \in Nat : m < n => <<m, n>> \in R
  OBVIOUS
<1> HIDE DEF R
<1>3. PICK n \in T : \A m \in T : <<m, n>> \notin R
  BY <1>1, WFMin
<1>4. \A m \in T : ~(m < n)
  BY <1>2, <1>3
<1>5. \A m \in T : n <= m
  BY <1>4, SMT
<1> QED
  BY <1>3, <1>5

(* A set that holds 0 and with a natural the next one holds all of them. *)
LEMMA SetInduction ==
  ASSUME NEW T, 0 \in T, \A n \in Nat : n \in T => n + 1 \in T
  PROVE  \A n \in Nat : n \in T
<1> SUFFICES ASSUME Nat \ T # {} PROVE FALSE
  OBVIOUS
<1>1. PICK n \in Nat \ T : \A m \in Nat \ T : n <= m
  BY LeastNatural
<1>2. n # 0
  OBVIOUS
<1>3. n - 1 \in Nat /\ (n - 1) + 1 = n /\ ~(n <= n - 1)
  BY <1>2, SMT
<1> QED
  BY <1>1, <1>3

-----------------------------------------------------------------------------
(***************************************************************************)
(* The walk of draw_line.  One step of its loop, and the functions that    *)
(* are such walks of n steps.                                              *)
(***************************************************************************)
WalkStep(last, dx, dy, ystep) ==
  IF last.error - 2 * dy < 0
    THEN [y |-> last.y + ystep, error |-> last.error - 2 * dy + 2 * dx]
    ELSE [y |-> last.y, error |-> last.error - 2 * dy]

IsWalk(f, n, first, dx, dy, ystep) ==
  f = [k \in 0 .. n |-> IF k = 0 THEN first ELSE WalkStep(f[k - 1], dx, dy, ystep)]

(* There is a walk of every length. *)
LEMMA WalkExists ==
  ASSUME NEW first, NEW dx, NEW dy, NEW ystep
  PROVE  \A n \in Nat : \E f : IsWalk(f, n, first, dx, dy, ystep)
<1> DEFINE T == {n \in Nat : \E f : IsWalk(f, n, first, dx, dy, ystep)}
<1>1. 0 \in T
  <2> DEFINE f == [k \in 0 .. 0 |-> first]
  <2>1. f = [k \in 0 .. 0 |-> IF k = 0 THEN first ELSE WalkStep(f[k - 1], dx, dy, ystep)]
    OBVIOUS
  <2> HIDE DEF f
  <2>2. IsWalk(f, 0, first, dx, dy, ystep)
    BY <2>1 DEF IsWalk
  <2> QED
    BY <2>2
<1>2. ASSUME NEW n \in Nat, n \in T PROVE n + 1 \in T
  <2>1. PICK f : IsWalk(f, n, first, dx, dy, ystep)
    BY <1>2
  <2> DEFINE next(last) == WalkStep(last, dx, dy, ystep)
             g          == [k \in 0 .. n + 1 |-> IF k \in 0 .. n THEN f[k] ELSE next(f[n])]
  <2>2. \A k \in 0 .. n : f[k] = IF k = 0 THEN first ELSE next(f[k - 1])
    BY <2>1 DEF IsWalk
  <2> HIDE DEF next
  <2>3. \A k \in 0 .. n + 1 : k \in 0 .. n \/ k = n + 1
    BY SMT
  <2>4. \A k \in 0 .. n + 1 : k # 0 => k - 1 \in 0 .. n /\ k - 1 \in 0 .. n + 1
    BY SMT
  <2>5. n + 1 \notin 0 .. n /\ (n + 1) - 1 = n /\ n + 1 # 0
    BY SMT
  <2>6. ASSUME NEW k \in 0 .. n + 1 PROVE g[k] = IF k = 0 THEN first ELSE next(g[k - 1])
    <3>1. CASE k \in 0 .. n
      BY <2>2, <2>4, <3>1
    <3>2. CASE k = n + 1
      BY <2>4, <2>5, <3>2
    <3> QED
      BY <2>3, <3>1, <3>2
  <2>7. g = [k \in 0 .. n + 1 |-> IF k = 0 THEN first ELSE next(g[k - 1])]
    BY <2>6
  <2> HIDE DEF g
  <2>8. IsWalk(g, n + 1, first, dx, dy, ystep)
    BY <2>7 DEF IsWalk, next
  <2> QED
    BY <2>8
<1> HIDE DEF T
<1>3. \A n \in Nat : n \in T
  BY <1>1, <1>2, SetInduction
<1> QED
  BY <1>3 DEF T

(* So Walk is a walk: it satisfies the equation that defines it. *)
LEMMA WalkIsWalk ==
  ASSUME NEW p, NEW q, q[1] - p[1] \in Nat
  PROVE  LET dx    == q[1] - p[1]
             dy    == Abs(q[2] - p[2])
             ystep == IF p[2] < q[2] THEN 1 ELSE -1
         IN  IsWalk(Walk(p, q), dx, [y |-> p[2], error |-> dx], dx, dy, ystep)
<1> DEFINE dx    == q[1] - p[1]
           dy    == Abs(q[2] - p[2])
           ystep == IF p[2] < q[2] THEN 1 ELSE -1
           first == [y |-> p[2], error |-> dx]
<1>1. Walk(p, q) = CHOOSE f : IsWalk(f, dx, first, dx, dy, ystep)
  BY DEF Walk, IsWalk, WalkStep, FirstError
<1> HIDE DEF dy, ystep, first
<1>2. \E f : IsWalk(f, dx, first, dx, dy, ystep)
  BY WalkExists
<1>3. IsWalk(Walk(p, q), dx, first, dx, dy, ystep)
  BY <1>1, <1>2
<1> QED
  BY <1>3 DEF dx, dy, ystep, first

-----------------------------------------------------------------------------
(***************************************************************************)
(* Where a walk is.  After k steps it has gone m to the side, and the      *)
(* error is dx - 2*dy*k + 2*dx*m, which the loop keeps in 0 .. 2*dx - 1.   *)
(***************************************************************************)
OnCourse(s, k, m, y0, dx, dy, ystep) ==
  /\ s.y = y0 + ystep * m
  /\ s.error = dx - 2 * (dy * k) + 2 * (dx * m)
  /\ s.error \in Int /\ 0 <= s.error /\ s.error < 2 * dx

(* Products of the numbers of the walk. *)
LEMMA Products ==
  ASSUME NEW a \in Int, NEW b \in Int
  PROVE  /\ a * b \in Int /\ a * (b + 1) = a * b + a
         /\ 1 * b = b /\ (-1) * b = -b
         /\ a * 0 = 0 /\ a * b = b * a
BY SMT

(* A product grows with its second factor. *)
LEMMA ProductGrows ==
  ASSUME NEW a \in Nat, NEW b \in Int, NEW c \in Int, b <= c
  PROVE  a * b <= a * c
BY SMT

(* One step of the loop keeps the course. *)
LEMMA StepOnCourse ==
  ASSUME NEW dx \in Nat, NEW dy \in Nat, dy <= dx, NEW ystep \in {-1, 1}, NEW y0 \in Int,
         NEW k \in Nat, NEW m \in Nat, NEW s, OnCourse(s, k, m, y0, dx, dy, ystep)
  PROVE  \E n \in Nat : OnCourse(WalkStep(s, dx, dy, ystep), k + 1, n, y0, dx, dy, ystep)
<1> DEFINE t  == WalkStep(s, dx, dy, ystep)
           a  == dy * k
           b  == dx * m
           c  == ystep * m
<1>1. /\ a \in Int /\ dy * (k + 1) = a + dy
      /\ b \in Int /\ dx * (m + 1) = b + dx
      /\ c \in Int /\ ystep * (m + 1) = c + ystep
  BY Products
<1>2. /\ s.y = y0 + c /\ s.error = dx - 2 * a + 2 * b
      /\ s.error \in Int /\ 0 <= s.error /\ s.error < 2 * dx
  BY DEF OnCourse
<1> HIDE DEF a, b, c
<1>3. CASE s.error - 2 * dy < 0
  <2>1. t.y = s.y + ystep /\ t.error = s.error - 2 * dy + 2 * dx
    BY <1>3 DEF WalkStep
  <2> HIDE DEF t
  <2>2. /\ t.y = y0 + (c + ystep)
        /\ t.error = dx - 2 * (a + dy) + 2 * (b + dx)
        /\ t.error \in Int /\ 0 <= t.error /\ t.error < 2 * dx
    BY SMT, <1>1, <1>2, <1>3, <2>1
  <2>3. OnCourse(t, k + 1, m + 1, y0, dx, dy, ystep)
    BY <1>1, <2>2 DEF OnCourse
  <2> QED
    BY <2>3 DEF t
<1>4. CASE ~(s.error - 2 * dy < 0)
  <2>1. t.y = s.y /\ t.error = s.error - 2 * dy
    BY <1>4 DEF WalkStep
  <2> HIDE DEF t
  <2>2. /\ t.y = y0 + c
        /\ t.error = dx - 2 * (a + dy) + 2 * b
        /\ t.error \in Int /\ 0 <= t.error /\ t.error < 2 * dx
    BY SMT, <1>1, <1>2, <1>4, <2>1
  <2>3. OnCourse(t, k + 1, m, y0, dx, dy, ystep)
    BY <1>1, <2>2 DEF OnCourse, b, c
  <2> QED
    BY <2>3 DEF t
<1> QED
  BY <1>3, <1>4

(* So does the whole walk. *)
LEMMA WalkOnCourse ==
  ASSUME NEW dx \in Nat, NEW dy \in Nat, dy <= dx, 0 < dx, NEW ystep \in {-1, 1},
         NEW y0 \in Int, NEW f, IsWalk(f, dx, [y |-> y0, error |-> dx], dx, dy, ystep)
  PROVE  \A k \in 0 .. dx : \E m \in Nat : OnCourse(f[k], k, m, y0, dx, dy, ystep)
<1> DEFINE Course(k) == \E m \in Nat : OnCourse(f[k], k, m, y0, dx, dy, ystep)
           T == {k \in Nat : k <= dx => Course(k)}
<1>1. \A k \in 0 .. dx : f[k] = IF k = 0 THEN [y |-> y0, error |-> dx]
                                         ELSE WalkStep(f[k - 1], dx, dy, ystep)
  BY DEF IsWalk
<1>2. 0 \in T
  <2>1. f[0] = [y |-> y0, error |-> dx]
    BY <1>1
  <2>2. f[0].y = y0 /\ f[0].error = dx
    BY <2>1
  <2>3. dy * 0 = 0 /\ dx * 0 = 0 /\ ystep * 0 = 0
    BY Products
  <2>4. OnCourse(f[0], 0, 0, y0, dx, dy, ystep)
    BY SMT, <2>2, <2>3 DEF OnCourse
  <2> QED
    BY <2>4
<1>3. ASSUME NEW k \in Nat, k \in T PROVE k + 1 \in T
  <2> SUFFICES ASSUME k + 1 <= dx PROVE Course(k + 1)
    OBVIOUS
  <2>1. PICK m \in Nat : OnCourse(f[k], k, m, y0, dx, dy, ystep)
    BY <1>3, SMT
  <2>2. f[k + 1] = WalkStep(f[k], dx, dy, ystep)
    <3>1. k + 1 \in 0 .. dx /\ k + 1 # 0 /\ (k + 1) - 1 = k
      BY SMT
    <3> QED
      BY <1>1, <3>1
  <2> QED
    BY <2>1, <2>2, StepOnCourse
<1> HIDE DEF Course
<1>4. \A k \in Nat : k \in T
  <2> HIDE DEF T
  <2> QED
    BY <1>2, <1>3, SetInduction
<1> QED
  BY <1>4 DEF Course

(* A walk is at most half a pixel off its line, and not past its end. *)
LEMMA CourseIsNear ==
  ASSUME NEW dx \in Nat, NEW dy \in Nat, 0 < dx, NEW k \in 0 .. dx, NEW m \in Nat,
         NEW s, NEW y0 \in Int, NEW ystep \in {-1, 1}, OnCourse(s, k, m, y0, dx, dy, ystep)
  PROVE  /\ m <= dy
         /\ 2 * Abs(dx * m - dy * k) <= dx
<1> DEFINE a == dy * k
           b == dx * m
           c == dx * dy
<1>1. a \in Int /\ b \in Int /\ c \in Int /\ dx * (dy + 1) = c + dx
  BY Products
<1>2. a <= c
  <2>1. dy * k <= dy * dx /\ dy * dx = dx * dy
    BY Products, ProductGrows
  <2> QED
    BY <2>1
<1>3. m >= dy + 1 => b >= c + dx
  BY <1>1, ProductGrows
<1>4. 0 <= dx - 2 * a + 2 * b /\ dx - 2 * a + 2 * b < 2 * dx
  BY DEF OnCourse
<1> HIDE DEF a, b, c
<1>5. m <= dy
  BY SMT, <1>1, <1>2, <1>3, <1>4
<1>6. 2 * Abs(b - a) <= dx
  BY SMT, <1>1, <1>4 DEF Abs
<1> QED
  BY <1>5, <1>6 DEF a, b

-----------------------------------------------------------------------------
(***************************************************************************)
(* The dots of a line between two points of the screen.                    *)
(***************************************************************************)
Step(y, z) == IF y < z THEN 1 ELSE -1

(* The longer side of a line, as LineNearIdeal writes it. *)
LEMMA MaxOfTwo == ASSUME NEW m \in Int, NEW n \in Int PROVE Max({m, n}) = IF m < n THEN n ELSE m
BY SMT DEF Max

(* The points (px, py) and (qx, qy) are the end points after the swaps. *)
Swapped(x1, y1, x2, y2, px, py, qx, qy) ==
  LET steep  == Steep(x1, y1, x2, y2)
      longer == Max({Abs(x2 - x1), Abs(y2 - y1)})
  IN  /\ EndsOf(x1, y1, x2, y2) = <<<<px, py>>, <<qx, qy>>>>
      /\ px <= qx /\ qx - px = longer /\ Abs(qy - py) <= longer
      /\ \/ (<<x1, y1>> = Turn(steep, px, py) /\ <<x2, y2>> = Turn(steep, qx, qy))
         \/ (<<x2, y2>> = Turn(steep, px, py) /\ <<x1, y1>> = Turn(steep, qx, qy))

(* There are such points: the major coordinate changes by the longer side. *)
LEMMA EndsInOrder ==
  ASSUME NEW x1 \in Nat, NEW y1 \in Nat, NEW x2 \in Nat, NEW y2 \in Nat
  PROVE  \E px, py, qx, qy \in Nat : Swapped(x1, y1, x2, y2, px, py, qx, qy)
<1> DEFINE steep  == Steep(x1, y1, x2, y2)
           longer == Max({Abs(x2 - x1), Abs(y2 - y1)})
<1>1. longer = IF Abs(x2 - x1) < Abs(y2 - y1) THEN Abs(y2 - y1) ELSE Abs(x2 - x1)
  <2>1. Abs(x2 - x1) \in Int /\ Abs(y2 - y1) \in Int
    BY SMT DEF Abs
  <2> QED
    BY <2>1, MaxOfTwo
<1>2. EndsOf(x1, y1, x2, y2) = Ends(Turn(steep, x1, y1), Turn(steep, x2, y2))
  BY DEF EndsOf
<1> HIDE DEF longer
<1>3. CASE steep
  <2>1. EndsOf(x1, y1, x2, y2) = Ends(<<y1, x1>>, <<y2, x2>>)
    BY <1>2, <1>3 DEF Turn
  <2>2. \A c, d \in Nat : Turn(steep, c, d) = <<d, c>>
    BY <1>3 DEF Turn
  <2>3. longer = Abs(y2 - y1) /\ Abs(x2 - x1) <= longer
    BY SMT, <1>1, <1>3 DEF Steep, Abs
  <2> HIDE DEF steep
  <2>4. CASE y1 > y2
    <3>1. EndsOf(x1, y1, x2, y2) = <<<<y2, x2>>, <<y1, x1>>>>
      BY <2>1, <2>4 DEF Ends
    <3>2. y2 <= y1 /\ y1 - y2 = longer /\ Abs(x1 - x2) <= longer
      BY SMT, <2>3, <2>4 DEF Abs
    <3> QED
      BY <2>2, <3>1, <3>2 DEF Swapped, steep, longer
  <2>5. CASE ~(y1 > y2)
    <3>1. EndsOf(x1, y1, x2, y2) = <<<<y1, x1>>, <<y2, x2>>>>
      BY <2>1, <2>5 DEF Ends
    <3>2. y1 <= y2 /\ y2 - y1 = longer /\ Abs(x2 - x1) <= longer
      BY SMT, <2>3, <2>5 DEF Abs
    <3> QED
      BY <2>2, <3>1, <3>2 DEF Swapped, steep, longer
  <2> QED
    BY <2>4, <2>5
<1>4. CASE ~steep
  <2>1. EndsOf(x1, y1, x2, y2) = Ends(<<x1, y1>>, <<x2, y2>>)
    BY <1>2, <1>4 DEF Turn
  <2>2. \A c, d \in Nat : Turn(steep, c, d) = <<c, d>>
    BY <1>4 DEF Turn
  <2>3. longer = Abs(x2 - x1) /\ Abs(y2 - y1) <= longer
    BY SMT, <1>1, <1>4 DEF Steep, Abs
  <2> HIDE DEF steep
  <2>4. CASE x1 > x2
    <3>1. EndsOf(x1, y1, x2, y2) = <<<<x2, y2>>, <<x1, y1>>>>
      BY <2>1, <2>4 DEF Ends
    <3>2. x2 <= x1 /\ x1 - x2 = longer /\ Abs(y1 - y2) <= longer
      BY SMT, <2>3, <2>4 DEF Abs
    <3> QED
      BY <2>2, <3>1, <3>2 DEF Swapped, steep, longer
  <2>5. CASE ~(x1 > x2)
    <3>1. EndsOf(x1, y1, x2, y2) = <<<<x1, y1>>, <<x2, y2>>>>
      BY <2>1, <2>5 DEF Ends
    <3>2. x1 <= x2 /\ x2 - x1 = longer /\ Abs(y2 - y1) <= longer
      BY SMT, <2>3, <2>5 DEF Abs
    <3> QED
      BY <2>2, <3>1, <3>2 DEF Swapped, steep, longer
  <2> QED
    BY <2>4, <2>5
<1> QED
  BY <1>3, <1>4

(* A dot on the screen is one pixel. *)
LEMMA DotOnScreen ==
  ASSUME NEW portrait \in BOOLEAN, NEW c \in Nat, NEW r \in Nat, OnScreen(portrait, c, r)
  PROVE  DOMAIN draw_dot(portrait, U8(c), U8(r)) = {c + r * screen_width(portrait)}
<1> DEFINE offset == c + r * screen_width(portrait)
<1>1. c < screen_width(portrait) /\ r < screen_height(portrait)
  BY DEF OnScreen
<1>2. c < 256 /\ r < 256
  BY SMT, <1>1, Screens
<1>3. U8(c) = c /\ U8(r) = r
  BY SMT, <1>2 DEF U8
<1>4. offset \in 0 .. kIOVRAMSize - 1
  BY <1>1, PixelInVRAM
<1> HIDE DEF offset
<1>5. U16(offset) = offset /\ offset \in 0 .. \h900 - 1
  BY SMT, <1>4, VRAMSize DEF U16
<1>6. DOMAIN draw_dot(portrait, c, r) = {U16(offset)} \cap 0 .. \h900 - 1
  BY DEF draw_dot, offset
<1>7. DOMAIN draw_dot(portrait, c, r) = {offset}
  <2> DEFINE VRAM == 0 .. \h900 - 1
  <2>1. U16(offset) = offset /\ offset \in VRAM /\ DOMAIN draw_dot(portrait, c, r) = {U16(offset)} \cap VRAM
    BY <1>5, <1>6
  <2> HIDE DEF VRAM
  <2> QED
    BY <2>1
<1> QED
  BY <1>3, <1>7 DEF offset

(* The k-th dot of a line that stays on the screen. *)
LEMMA DotOfLine ==
  ASSUME NEW portrait \in BOOLEAN, NEW steep \in BOOLEAN,
         NEW px \in Nat, NEW py \in Nat, NEW qx \in Nat, NEW qy \in Nat,
         px < qx, Abs(qy - py) <= qx - px,
         OnScreen(portrait, Turn(steep, px, py)[1], Turn(steep, px, py)[2]),
         OnScreen(portrait, Turn(steep, qx, qy)[1], Turn(steep, qx, qy)[2]),
         NEW k \in 0 .. qx - px - 1
  PROVE  LET dx == qx - px
             dy == Abs(qy - py)
             at(m) == Turn(steep, px + k, py + Step(py, qy) * m)
         IN  \E m \in 0 .. dy :
               /\ at(m)[1] \in Nat /\ at(m)[2] \in Nat
               /\ OnScreen(portrait, at(m)[1], at(m)[2])
               /\ DOMAIN Dot(portrait, steep, <<px, py>>, Walk(<<px, py>>, <<qx, qy>>), k)
                    = {at(m)[1] + at(m)[2] * screen_width(portrait)}
               /\ 2 * Abs(dx * m - dy * k) <= dx
<1> DEFINE dx   == qx - px
           dy   == Abs(qy - py)
           step == Step(py, qy)
           walk == Walk(<<px, py>>, <<qx, qy>>)
<1>1. dx \in Nat /\ 0 < dx /\ dy \in Nat /\ dy <= dx /\ step \in {-1, 1}
  BY SMT DEF Abs, Step
<1>2. IsWalk(walk, dx, [y |-> py, error |-> dx], dx, dy, step)
  <2> DEFINE p == <<px, py>>
             q == <<qx, qy>>
  <2>1. p[1] = px /\ p[2] = py /\ q[1] = qx /\ q[2] = qy
    OBVIOUS
  <2> HIDE DEF p, q
  <2>2. q[1] - p[1] \in Nat
    BY <1>1, <2>1
  <2>3. IsWalk(Walk(p, q), q[1] - p[1], [y |-> p[2], error |-> q[1] - p[1]],
               q[1] - p[1], Abs(q[2] - p[2]), IF p[2] < q[2] THEN 1 ELSE -1)
    BY <2>2, WalkIsWalk
  <2> QED
    BY <2>1, <2>3 DEF Step, p, q
<1>3. k \in Nat /\ k \in 0 .. dx /\ k < dx
  BY SMT, <1>1
<1> HIDE DEF walk, dx
<1>4. PICK m \in Nat : OnCourse(walk[k], k, m, py, dx, dy, step)
  <2> HIDE DEF dy, step
  <2>1. \A i \in 0 .. dx : \E m \in Nat : OnCourse(walk[i], i, m, py, dx, dy, step)
    BY <1>1, <1>2, WalkOnCourse
  <2> QED
    BY <1>3, <2>1
<1>5. m <= dy /\ 2 * Abs(dx * m - dy * k) <= dx
  <2> HIDE DEF dy, step
  <2> QED
    BY <1>1, <1>3, <1>4, CourseIsNear
<1>6. walk[k].y = py + step * m
  BY <1>4 DEF OnCourse
<1> DEFINE c == px + k
           r == py + step * m
<1>7. c \in Nat /\ px <= c /\ c <= qx
  BY SMT, <1>3 DEF dx
<1>8. r \in Nat /\ ((py <= r /\ r <= qy) \/ (qy <= r /\ r <= py))
  <2>1. CASE py < qy
    <3>1. step * m = m
      BY <2>1, Products DEF Step
    <3> HIDE DEF step
    <3> QED
      BY SMT, <1>5, <2>1, <3>1 DEF Abs
  <2>2. CASE ~(py < qy)
    <3>1. step * m = -m
      BY <2>2, Products DEF Step
    <3> HIDE DEF step
    <3> QED
      BY SMT, <1>5, <2>2, <3>1 DEF Abs
  <2> QED
    BY <2>1, <2>2
<1> HIDE DEF c, r
<1> DEFINE at == Turn(steep, c, r)
<1>9. at[1] \in Nat /\ at[2] \in Nat
  BY <1>7, <1>8 DEF Turn
<1>10. OnScreen(portrait, at[1], at[2])
  <2>1. screen_width(portrait) \in Int /\ screen_height(portrait) \in Int
    BY Screens
  <2>2. CASE steep
    <3>1. at[1] = r /\ at[2] = c
      BY <2>2 DEF Turn
    <3>2. /\ py < screen_width(portrait) /\ px < screen_height(portrait)
          /\ qy < screen_width(portrait) /\ qx < screen_height(portrait)
      BY <2>2 DEF Turn, OnScreen
    <3> HIDE DEF at
    <3> QED
      BY SMT, <1>7, <1>8, <2>1, <3>1, <3>2 DEF OnScreen
  <2>3. CASE ~steep
    <3>1. at[1] = c /\ at[2] = r
      BY <2>3 DEF Turn
    <3>2. /\ px < screen_width(portrait) /\ py < screen_height(portrait)
          /\ qx < screen_width(portrait) /\ qy < screen_height(portrait)
      BY <2>3 DEF Turn, OnScreen
    <3> HIDE DEF at
    <3> QED
      BY SMT, <1>7, <1>8, <2>1, <3>1, <3>2 DEF OnScreen
  <2> QED
    BY <2>2, <2>3
<1>11. DOMAIN Dot(portrait, steep, <<px, py>>, walk, k) = {at[1] + at[2] * screen_width(portrait)}
  <2>1. Dot(portrait, steep, <<px, py>>, walk, k) = draw_dot(portrait, U8(at[1]), U8(at[2]))
    BY <1>6 DEF Dot, c, r
  <2> HIDE DEF at
  <2>2. DOMAIN draw_dot(portrait, U8(at[1]), U8(at[2])) = {at[1] + at[2] * screen_width(portrait)}
    BY <1>9, <1>10, DotOnScreen
  <2> QED
    BY <2>1, <2>2
<1>12. m \in 0 .. dy
  BY SMT, <1>1, <1>5
<1> QED
  BY <1>5, <1>9, <1>10, <1>11, <1>12 DEF c, r, walk, dx

(* How far the point (c, r) is from the line, as LineNearIdeal writes it. *)
Side(c, r, x1, y1, x2, y2) == (c - x1) * (y2 - y1) - (r - y1) * (x2 - x1)

(* The distance of a dot from the line depends on the walk only. *)
LEMMA SideOfDot ==
  ASSUME NEW px \in Nat, NEW py \in Nat, NEW qx \in Nat, NEW qy \in Nat, px < qx,
         NEW k \in Nat, NEW m \in Nat
  PROVE  Abs(Side(px + k, py + Step(py, qy) * m, px, py, qx, qy))
           = Abs((qx - px) * m - Abs(qy - py) * k)
<1> DEFINE dx   == qx - px
           dy   == Abs(qy - py)
<1>1. (px + k) - px = k
  BY SMT
<1>2. CASE py < qy
  <2>1. qy - py = dy /\ Step(py, qy) * m = m
    BY SMT, <1>2, Products DEF Abs, Step
  <2>2. (py + m) - py = m
    BY SMT
  <2>3. Side(px + k, py + Step(py, qy) * m, px, py, qx, qy) = k * dy - m * dx
    BY <1>1, <2>1, <2>2 DEF Side
  <2>4. dx \in Int /\ dy \in Int
    BY SMT DEF Abs
  <2> HIDE DEF dx, dy
  <2>5. Abs(k * dy - m * dx) = Abs(dx * m - dy * k)
    BY SMT, <2>4, Products DEF Abs
  <2> QED
    BY <2>3, <2>5 DEF dx, dy
<1>3. CASE ~(py < qy)
  <2>1. qy - py = -dy /\ Step(py, qy) * m = -m
    BY SMT, <1>3, Products DEF Abs, Step
  <2>2. (py + (-m)) - py = -m
    BY SMT
  <2>3. Side(px + k, py + Step(py, qy) * m, px, py, qx, qy) = k * (-dy) - (-m) * dx
    BY <1>1, <2>1, <2>2 DEF Side
  <2>4. dx \in Int /\ dy \in Int
    BY SMT DEF Abs
  <2> HIDE DEF dx, dy
  <2>5. k * (-dy) - (-m) * dx = dx * m - dy * k
    BY SMT, <2>4
  <2> QED
    BY <2>3, <2>5 DEF dx, dy
<1> QED
  BY <1>2, <1>3

(* The pixels of a line: one for each step, each near the ideal line. *)
NearBetween(portrait, steep, px, py, qx, qy) ==
  LET a    == Turn(steep, px, py)
      b    == Turn(steep, qx, qy)
      sw   == screen_width(portrait)
      dots == DOMAIN DotsBetween(portrait, steep, <<<<px, py>>, <<qx, qy>>>>)
  IN  /\ Cardinality(dots) = qx - px
      /\ \A o \in dots :
           /\ o % sw \in Int /\ o \div sw \in Int
           /\ 2 * Abs(Side(o % sw, o \div sw, a[1], a[2], b[1], b[2])) <= qx - px

(* They are those of every line on the screen. *)
LEMMA DotsNear ==
  ASSUME NEW portrait \in BOOLEAN, NEW steep \in BOOLEAN,
         NEW px \in Nat, NEW py \in Nat, NEW qx \in Nat, NEW qy \in Nat,
         px <= qx, Abs(qy - py) <= qx - px,
         OnScreen(portrait, Turn(steep, px, py)[1], Turn(steep, px, py)[2]),
         OnScreen(portrait, Turn(steep, qx, qy)[1], Turn(steep, qx, qy)[2])
  PROVE  NearBetween(portrait, steep, px, py, qx, qy)
<1> DEFINE dx    == qx - px
           sw    == screen_width(portrait)
           a     == Turn(steep, px, py)
           b     == Turn(steep, qx, qy)
           row(m) == py + Step(py, qy) * m
           at(k, m) == Turn(steep, px + k, row(m))
           steps == 0 .. dx - 1
           cells(k) == DOMAIN Dot(portrait, steep, <<px, py>>, Walk(<<px, py>>, <<qx, qy>>), k)
           dots  == DOMAIN DotsBetween(portrait, steep, <<<<px, py>>, <<qx, qy>>>>)
           near(k, o) == 2 * Abs(Side(o % sw, o \div sw, a[1], a[2], b[1], b[2])) <= dx
           major(o) == IF steep THEN o \div sw ELSE o % sw
<1>1. dots = UNION {cells(k) : k \in steps}
  BY DEF DotsBetween
<1>2. sw \in {36, 64} /\ dx \in Nat
  BY SMT, Screens
<1>3. ASSUME NEW k \in steps
      PROVE  \E o \in Int : /\ cells(k) = {o} /\ major(o) = px + k
                            /\ o % sw \in Int /\ o \div sw \in Int /\ near(k, o)
  <2>1. px < qx /\ k \in Nat
    BY SMT
  <2>2. PICK m \in 0 .. Abs(qy - py) :
          /\ at(k, m)[1] \in Nat /\ at(k, m)[2] \in Nat
          /\ OnScreen(portrait, at(k, m)[1], at(k, m)[2])
          /\ cells(k) = {at(k, m)[1] + at(k, m)[2] * sw}
          /\ 2 * Abs(dx * m - Abs(qy - py) * k) <= dx
    BY <2>1, DotOfLine
  <2> DEFINE c == at(k, m)[1]
             r == at(k, m)[2]
             o == c + r * sw
  <2>3. c \in Nat /\ r \in Nat /\ c < sw /\ cells(k) = {o}
    BY <2>2 DEF OnScreen
  <2>4. o % sw = c /\ o \div sw = r /\ o \in Int
    <3> HIDE DEF c, r, sw
    <3>1. o % sw = c /\ o \div sw = r
      BY <1>2, <2>3, ColumnAndRow
    <3>2. o \in Int
      BY <1>2, <2>3, SMT
    <3> QED
      BY <3>1, <3>2
  <2>5. major(o) = px + k
    <3> HIDE DEF o
    <3> QED
      BY <2>4 DEF Turn
  <2>6. Abs(Side(c, r, a[1], a[2], b[1], b[2])) = Abs(dx * m - Abs(qy - py) * k)
    <3>1. Abs(Side(px + k, row(m), px, py, qx, qy)) = Abs(dx * m - Abs(qy - py) * k)
      <4>1. m \in Nat
        BY SMT
      <4> QED
        BY <2>1, <4>1, SideOfDot
    <3>2. CASE steep
      <4>1. c = row(m) /\ r = px + k /\ a[1] = py /\ a[2] = px /\ b[1] = qy /\ b[2] = qx
        BY <3>2 DEF Turn
      <4>2. /\ px + k \in Int /\ row(m) \in Int
            /\ px \in Int /\ py \in Int /\ qx \in Int /\ qy \in Int
        <5>1. c \in Int /\ r \in Int
          BY <2>3
        <5> HIDE DEF c, r
        <5> QED
          BY <4>1, <5>1
      <4>3. Abs(Side(row(m), px + k, py, px, qy, qx)) = Abs(Side(px + k, row(m), px, py, qx, qy))
        <5> DEFINE u == px + k
                   v == row(m)
        <5>1. u \in Int /\ v \in Int
          BY <4>2
        <5> HIDE DEF u, v
        <5>2. /\ Side(u, v, px, py, qx, qy) \in Int
              /\ Side(v, u, py, px, qy, qx) = -Side(u, v, px, py, qx, qy)
          BY <5>1, SMT DEF Side
        <5>3. Abs(Side(v, u, py, px, qy, qx)) = Abs(Side(u, v, px, py, qx, qy))
          BY <5>2, SMT DEF Abs
        <5> QED
          BY <5>3 DEF u, v
      <4> HIDE DEF c, r, a, b
      <4> QED
        BY <3>1, <4>1, <4>3
    <3>3. CASE ~steep
      <4>1. c = px + k /\ r = row(m) /\ a[1] = px /\ a[2] = py /\ b[1] = qx /\ b[2] = qy
        BY <3>3 DEF Turn
      <4> HIDE DEF c, r, a, b, row
      <4> QED
        BY <3>1, <4>1
    <3> QED
      BY <3>2, <3>3
  <2>7. near(k, o)
    <3> HIDE DEF c, r, o, a, b
    <3> QED
      BY <2>2, <2>4, <2>6
  <2>8. o % sw \in Int /\ o \div sw \in Int
    <3> HIDE DEF c, r, o
    <3> QED
      BY <2>3, <2>4
  <2> HIDE DEF o, near, cells, major
  <2> QED
    BY <2>3, <2>4, <2>5, <2>7, <2>8
<1> HIDE DEF cells, near, major, dots, steps
<1> DEFINE pixel == [k \in steps |-> CHOOSE o : o \in cells(k)]
<1>4. \A k \in steps : /\ cells(k) = {pixel[k]} /\ major(pixel[k]) = px + k
                       /\ pixel[k] % sw \in Int /\ pixel[k] \div sw \in Int /\ near(k, pixel[k])
  BY <1>3
<1> HIDE DEF pixel
<1>5. \A o \in dots : o % sw \in Int /\ o \div sw \in Int /\ \E k \in steps : near(k, o)
  BY <1>1, <1>4
<1>6. Cardinality(dots) = dx
  <2>1. pixel \in [steps -> dots]
    BY <1>1, <1>4 DEF pixel
  <2>2. \A k, l \in steps : pixel[k] = pixel[l] => k = l
    <3>1. \A k, l \in steps : px + k = px + l => k = l
      BY SMT DEF steps
    <3> QED
      BY <1>4, <3>1
  <2>3. \A o \in dots : \E k \in steps : pixel[k] = o
    BY <1>1, <1>4
  <2>4. pixel \in Bijection(steps, dots)
    BY <2>1, <2>2, <2>3 DEF Bijection, Injection, Surjection, IsInjective
  <2>5. IsFiniteSet(steps) /\ Cardinality(steps) = dx
    <3>1. IsFiniteSet(0 .. dx - 1) /\ Cardinality(0 .. dx - 1) = IF 0 > dx - 1 THEN 0 ELSE dx - 1 - 0 + 1
      <4>1. 0 \in Int /\ dx - 1 \in Int
        BY <1>2, SMT
      <4> HIDE DEF dx
      <4> QED
        BY <4>1, FS_Interval
    <3>2. (IF 0 > dx - 1 THEN 0 ELSE dx - 1 - 0 + 1) = dx
      BY <1>2, SMT
    <3> QED
      BY <3>1, <3>2 DEF steps
  <2>6. ExistsBijection(steps, dots)
    BY <2>4 DEF ExistsBijection
  <2> QED
    BY <2>5, <2>6, FS_Bijection
<1> QED
  BY <1>5, <1>6 DEF NearBetween, dots, near

(* What LineNearIdeal says of one call. *)
Near(portrait, x1, y1, x2, y2) ==
  LET sw     == screen_width(portrait)
      longer == Max({Abs(x2 - x1), Abs(y2 - y1)})
      dots   == DOMAIN draw_line(portrait, x1, y1, x2, y2)
  IN  /\ Cardinality(dots) = longer
      /\ \A o \in dots : 2 * Abs(Side(o % sw, o \div sw, x1, y1, x2, y2)) <= longer

(* It holds of each call with both ends on the screen. *)
LEMMA LineIsNear ==
  ASSUME NEW portrait \in BOOLEAN,
         NEW x1 \in Nat, NEW y1 \in Nat, NEW x2 \in Nat, NEW y2 \in Nat,
         OnScreen(portrait, x1, y1), OnScreen(portrait, x2, y2)
  PROVE  Near(portrait, x1, y1, x2, y2)
<1> DEFINE steep  == Steep(x1, y1, x2, y2)
           longer == Max({Abs(x2 - x1), Abs(y2 - y1)})
           sw     == screen_width(portrait)
           dots   == DOMAIN draw_line(portrait, x1, y1, x2, y2)
           along(o, u1, v1, u2, v2) == 2 * Abs(Side(o % sw, o \div sw, u1, v1, u2, v2)) <= longer
<1>1. steep \in BOOLEAN
  BY DEF Steep
<1>ends. PICK px, py, qx, qy \in Nat : Swapped(x1, y1, x2, y2, px, py, qx, qy)
  BY EndsInOrder
<1>2. /\ EndsOf(x1, y1, x2, y2) = <<<<px, py>>, <<qx, qy>>>>
      /\ px <= qx /\ qx - px = longer /\ Abs(qy - py) <= longer
      /\ \/ (<<x1, y1>> = Turn(steep, px, py) /\ <<x2, y2>> = Turn(steep, qx, qy))
         \/ (<<x2, y2>> = Turn(steep, px, py) /\ <<x1, y1>> = Turn(steep, qx, qy))
  BY <1>ends DEF Swapped
<1>3. dots = DOMAIN DotsBetween(portrait, steep, <<<<px, py>>, <<qx, qy>>>>)
  BY <1>2, LineIsDots
<1> HIDE DEF steep, longer, dots, sw
<1> DEFINE a == Turn(steep, px, py)
           b == Turn(steep, qx, qy)
<1>4. OnScreen(portrait, a[1], a[2]) /\ OnScreen(portrait, b[1], b[2])
  <2>1. <<x1, y1>>[1] = x1 /\ <<x1, y1>>[2] = y1 /\ <<x2, y2>>[1] = x2 /\ <<x2, y2>>[2] = y2
    OBVIOUS
  <2> HIDE DEF a, b
  <2>2. \/ a = <<x1, y1>> /\ b = <<x2, y2>>
        \/ a = <<x2, y2>> /\ b = <<x1, y1>>
    BY <1>2 DEF a, b
  <2> QED
    BY <2>1, <2>2
<1>5. /\ Cardinality(dots) = longer
      /\ \A o \in dots : /\ o % sw \in Int /\ o \div sw \in Int
                         /\ along(o, a[1], a[2], b[1], b[2])
  <2>1. NearBetween(portrait, steep, px, py, qx, qy)
    <3>1. px <= qx /\ Abs(qy - py) <= qx - px
      BY <1>2
    <3> QED
      BY <1>1, <1>4, <3>1, DotsNear
  <2> QED
    BY <1>2, <1>3, <2>1 DEF NearBetween, sw
<1>6. ASSUME NEW o \in dots PROVE along(o, x1, y1, x2, y2)
  <2>1. CASE <<x1, y1>> = a /\ <<x2, y2>> = b
    <3>1. a[1] = x1 /\ a[2] = y1 /\ b[1] = x2 /\ b[2] = y2
      BY <2>1
    <3> HIDE DEF a, b
    <3> QED
      BY <1>5, <3>1
  <2>2. CASE <<x2, y2>> = a /\ <<x1, y1>> = b
    <3>1. a[1] = x2 /\ a[2] = y2 /\ b[1] = x1 /\ b[2] = y1
      BY <2>2
    <3>2. x1 \in Int /\ y1 \in Int /\ x2 \in Int /\ y2 \in Int
      OBVIOUS
    <3> DEFINE c == o % sw
               r == o \div sw
    <3> HIDE DEF a, b
    <3>3. c \in Int /\ r \in Int /\ 2 * Abs(Side(c, r, x2, y2, x1, y1)) <= longer
      BY <1>5, <3>1
    <3> HIDE DEF c, r
    <3>4. Abs(Side(c, r, x2, y2, x1, y1)) = Abs(Side(c, r, x1, y1, x2, y2))
      <4>1. /\ Side(c, r, x1, y1, x2, y2) \in Int
            /\ Side(c, r, x2, y2, x1, y1) = -Side(c, r, x1, y1, x2, y2)
        BY <3>2, <3>3, SMT DEF Side
      <4> QED
        BY <4>1, SMT DEF Abs
    <3>5. 2 * Abs(Side(c, r, x1, y1, x2, y2)) <= longer
      BY <3>3, <3>4
    <3> QED
      BY <3>5 DEF c, r
  <2> QED
    BY <1>2, <2>1, <2>2
<1> QED
  BY <1>5, <1>6 DEF Near, dots, longer, sw

(* Every step leaves a line near the ideal one. *)
LEMMA NearStep == LineNearIdeal /\ [Next]_vars => LineNearIdeal'
<1> SUFFICES ASSUME LineNearIdeal, [Next]_vars PROVE LineNearIdeal'
  OBVIOUS
<1>1. CASE line
  <2>1. PICK portrait \in BOOLEAN, x1, y1, x2, y2 \in LineCoords :
          Called("line", portrait, <<x1, y1, x2, y2>>, draw_line(portrait, x1, y1, x2, y2))
    BY <1>1 DEF line
  <2>2. /\ call'.portrait = portrait
        /\ call'.args[1] = x1 /\ call'.args[2] = y1 /\ call'.args[3] = x2 /\ call'.args[4] = y2
        /\ vram' = draw_line(portrait, x1, y1, x2, y2)
    BY <2>1 DEF Called
  <2>3. x1 \in Nat /\ y1 \in Nat /\ x2 \in Nat /\ y2 \in Nat
    <3>1. \A n \in LineCoords : n \in Nat
      BY ShapesAssumption, ByteBounds
    <3> QED
      BY <3>1
  <2>4. OnScreen(portrait, x1, y1) /\ OnScreen(portrait, x2, y2) => Near(portrait, x1, y1, x2, y2)
    BY <2>3, LineIsNear
  <2> QED
    BY <2>2, <2>4 DEF LineNearIdeal, Near, Side
<1>2. CASE rectangle \/ square \/ dot
  <2>1. call'.shape # "line"
    BY <1>2 DEF rectangle, square, dot, Called
  <2> QED
    BY <2>1 DEF LineNearIdeal
<1>3. CASE UNCHANGED vars
  BY <1>3 DEF vars, LineNearIdeal
<1> QED
  BY <1>1, <1>2, <1>3 DEF Next

(***************************************************************************)
(* A line between any two points of the screen has one pixel for each step *)
(* of its longer side, none further than half a pixel from the ideal line: *)
(* the loop of draw_line keeps its error between 0 and twice the longer    *)
(* side, which is the distance of the dot.                                 *)
(***************************************************************************)
THEOREM LinesNearIdeal == Spec => []LineNearIdeal
<1>1. Init => LineNearIdeal
  BY DEF Init, LineNearIdeal
<1> QED
  BY <1>1, NearStep, PTL DEF Spec
=============================================================================
