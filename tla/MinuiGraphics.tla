--------------------------- MODULE MinuiGraphics ----------------------------
(***************************************************************************)
(* recovery/graphics.cpp: minui over three backends.  Each round of        *)
(* gr_init tries ADF, then DRM, then fbdev, and keeps the surface of the   *)
(* first that gives one; the drawing functions clip against that surface,  *)
(* with an overscan margin added to every coordinate.                      *)
(*                                                                         *)
(* The backends are not in this repository: open_adf may return null, the  *)
(* code checks it; init of each may return null; flip returns a surface of *)
(* its backend.                                                            *)
(***************************************************************************)
EXTENDS Integers, FiniteSets, Sequences

CONSTANTS Widths, Heights,  \* of draw surfaces
          Percents,         \* what OVERSCAN_PERCENT may be
          Textures,         \* widths of font images
          GlyphHeight,            \* cheight of the fonts, in pixels
          Levels,           \* values of colour and alpha bytes
          Reach             \* bound: coordinates go this far beyond the surface

ASSUME MinuiAssumption ==
  /\ Widths \subseteq Nat \ {0} /\ Heights \subseteq Nat \ {0}
  /\ Percents \subseteq 0..50
  /\ Textures \subseteq {n \in Nat : n >= 96}
  /\ GlyphHeight \in Nat \ {0} /\ Levels \subseteq 0..255 /\ Reach \in Nat

VARIABLES
  minuiPc,   \* where gr_init is, or what the program does
  percent,   \* overscan_percent
  backend,   \* gr_backend
  draw,      \* gr_draw: the backend it belongs to, width and height
  ready,     \* backends whose init gave a surface and which did not exit
  offset,    \* overscan_offset_x and _y
  font,      \* gr_font: width of the image, cwidth, and whether it has a bold row
  color,     \* gr_current_a
  works,     \* the backends that work, in this round
  round,     \* rounds of gr_init begun
  request,   \* the last drawing request, "none" when the next may come
  painted,   \* the pixels it wrote
  read,      \* the columns and rows of the font image it read
  blended    \* one byte of a pixel: before, colour, coverage, and after

choice == <<backend, draw, ready, offset, font, works, round>>
drawing == <<request, painted, read, blended>>
minuiVars == <<minuiPc, percent, color, choice, drawing>>

Nothing == [owner |-> "none", width |-> 0, height |-> 0]
NoRequest == [op |-> "none"]
NoBlend == [under |-> 0, colour |-> 0, coverage |-> 0, result |-> 0]

MinuiInit ==
  /\ minuiPc = "off" /\ percent = 0 /\ color = 255
  /\ backend = "none" /\ draw = Nothing /\ ready = {}
  /\ offset = [x |-> 0, y |-> 0] /\ font = [width |-> 96, cwidth |-> 1, bold |-> FALSE]
  /\ works = {} /\ round = 0
  /\ request = NoRequest /\ painted = {} /\ read = {} /\ blended = NoBlend

Surfaces(b) == [owner : {b}, width : Widths, height : Heights]

-----------------------------------------------------------------------------
\* gr_init_font: the image has two rows of 96 characters, the compiled-in font
\* one row.
GrInitFont ==
  \E w \in Textures, bold \in BOOLEAN :
    font' = [width |-> w, cwidth |-> w \div 96, bold |-> bold]

\* Mutant: the surface of another backend is kept when this one fails.
TryKeeping(b) ==
  IF b \in works THEN draw' \in Surfaces(b) /\ ready' = ready \cup {b}
  ELSE UNCHANGED <<draw, ready>>

\* gr_draw = gr_backend->init(gr_backend), and for ADF exit when that failed.
Try(b) ==
  IF b \in works THEN draw' \in Surfaces(b) /\ ready' = ready \cup {b}
  ELSE draw' = Nothing /\ ready' = ready \ {b}

\* gr_init calls gr_init_real, which begins with the font and ADF.  Without an
\* ADF backend gr_draw is what it was.
BeginRound ==
  /\ minuiPc \in {"off", "second"} /\ round < 2
  /\ IF round = 0 THEN percent' \in Percents ELSE UNCHANGED percent
  /\ round' = round + 1
  /\ GrInitFont
  /\ works' \in SUBSET {"adf", "drm", "fbdev"}
  /\ minuiPc' = "adf"
  /\ UNCHANGED <<backend, draw, ready, offset, color, drawing>>

OpenAdf ==
  /\ minuiPc = "adf"
  /\ \/ backend' = "adf" /\ Try("adf")
     \/ backend' = "none" /\ UNCHANGED <<draw, ready>>
  /\ minuiPc' = "drm"
  /\ UNCHANGED <<percent, color, offset, font, works, round, drawing>>

\* The next backend is opened when there is no surface.
FallBack(b, next) ==
  /\ IF draw = Nothing THEN backend' = b /\ Try(b)
     ELSE UNCHANGED <<backend, draw, ready>>
  /\ minuiPc' = next
  /\ UNCHANGED <<percent, color, offset, font, works, round, drawing>>

OpenDrm == minuiPc = "drm" /\ FallBack("drm", "fbdev")

OpenFbdev == minuiPc = "fbdev" /\ FallBack("fbdev", "finish")

\* gr_flip: the backend gives a surface of its own to draw on.
Flipped == IF draw = Nothing THEN draw ELSE [draw EXCEPT !.owner = backend]

\* The end of gr_init_real: the overscan margin, and two flips; without a
\* surface it returns -1, which gr_init does not look at.
FinishRound ==
  /\ minuiPc = "finish" /\ ~(draw # Nothing /\ backend = "none")
  /\ offset' = IF draw = Nothing THEN offset
               ELSE [x |-> (draw.width * percent) \div 100, y |-> (draw.height * percent) \div 100]
  /\ draw' = Flipped /\ works' = {}
  /\ minuiPc' = IF round = 2 THEN "up" ELSE "second"
  /\ UNCHANGED <<percent, color, backend, ready, font, round, drawing>>

\* A null backend is asked to flip, or there is nothing to draw on.
MinuiCrash ==
  /\ \/ minuiPc = "finish" /\ draw # Nothing /\ backend = "none"
     \/ minuiPc = "up" /\ draw = Nothing
  /\ minuiPc' = "crashed"
  /\ UNCHANGED <<percent, color, choice, drawing>>

\* gr_exit.
MinuiExit ==
  /\ minuiPc = "up" /\ request = NoRequest
  /\ minuiPc' = "exited"
  /\ ready' = ready \ {backend}
  /\ UNCHANGED <<percent, color, backend, draw, offset, font, works, round, drawing>>

-----------------------------------------------------------------------------
\* Mutant: the first row and column beyond the surface count as inside.
OutsideByOne(x, y) == x < 0 \/ x > draw.width \/ y < 0 \/ y > draw.height

\* outside(x, y).
Outside(x, y) == x < 0 \/ x >= draw.width \/ y < 0 \/ y >= draw.height

Box(x1, y1, x2, y2) == (x1..(x2 - 1)) \X (y1..(y2 - 1))

\* gr_fill: both corners are looked at, then the rows between them.
GrFill(x1, y1, x2, y2) ==
  LET X(x) == x + offset.x
      Y(y) == y + offset.y
  IN  IF Outside(X(x1), Y(y1)) \/ Outside(X(x2) - 1, Y(y2) - 1) \/ color = 0 THEN {}
      ELSE Box(X(x1), Y(y1), X(x2), Y(y2))

\* gr_blit: a rectangle that is not wholly inside is not drawn.
GrBlit(w, h, dx, dy) ==
  LET x == dx + offset.x
      y == dy + offset.y
  IN  IF Outside(x, y) \/ Outside(x + w - 1, y + h - 1) THEN {} ELSE Box(x, y, x + w, y + h)

\* gr_texticon, which blends with the current alpha.
GrTexticon(x, y, w, h) == IF color = 0 THEN {} ELSE GrBlit(w, h, x, y)

\* The column of a character in the font image: what is not printable is '?'.
Column(ch) == IF ch < 32 \/ ch > 126 THEN 63 - 32 ELSE ch - 32

\* gr_text stops at the first character that is not wholly inside.
Fits(x, y) == ~Outside(x, y) /\ ~Outside(x + font.cwidth - 1, y + GlyphHeight - 1)

Drawn(x, y, s) ==
  IF color = 0 THEN {}
  ELSE {i \in 1..Len(s) : \A k \in 1..i :
          Fits(x + offset.x + (k - 1) * font.cwidth, y + offset.y)}

GrText(x, y, s) ==
  UNION {Box(x + offset.x + (i - 1) * font.cwidth, y + offset.y,
             x + offset.x + i * font.cwidth, y + offset.y + GlyphHeight) : i \in Drawn(x, y, s)}

\* What text_blend reads of the font image: columns and rows.
TextReads(x, y, s, bold) ==
  {[from |-> Column(s[i]) * font.cwidth, to |-> (Column(s[i]) + 1) * font.cwidth,
    rows |-> IF bold /\ font.bold THEN 2 * GlyphHeight ELSE GlyphHeight] : i \in Drawn(x, y, s)}

\* One byte of gr_fill.
FillByte(under, colour, alpha) ==
  IF alpha = 255 THEN colour
  ELSE IF alpha > 0 THEN (under * (255 - alpha) + colour * alpha) \div 255 ELSE under

\* One byte of text_blend, where the image covers it with coverage.
TextByte(under, colour, coverage, alpha) ==
  FillByte(under, colour, IF alpha < 255 THEN (coverage * alpha) \div 255 ELSE coverage)

-----------------------------------------------------------------------------
Ready == minuiPc = "up" /\ draw # Nothing /\ request = NoRequest
Xs == -Reach..(draw.width + Reach)
Ys == -Reach..(draw.height + Reach)
MinuiCharacters == {31, 126, 200}

Request(r, pixels, columns) ==
  /\ request' = r /\ painted' = pixels /\ read' = columns
  /\ UNCHANGED <<minuiPc, percent, color, choice, blended>>

Fill == Ready /\ \E x1, x2 \in Xs, y1, y2 \in Ys :
  Request([op |-> "fill", x1 |-> x1, y1 |-> y1, x2 |-> x2, y2 |-> y2], GrFill(x1, y1, x2, y2), {})

Blit == Ready /\ \E x \in Xs, y \in Ys, w \in 0..2, h \in 0..2 :
  Request([op |-> "blit", x1 |-> x, y1 |-> y, x2 |-> x + w, y2 |-> y + h], GrBlit(w, h, x, y), {})

Icon == Ready /\ \E x \in Xs, y \in Ys, w \in 1..2, h \in 1..2 :
  Request([op |-> "icon", x1 |-> x, y1 |-> y, x2 |-> x + w, y2 |-> y + h], GrTexticon(x, y, w, h), {})

Text == Ready /\ \E x \in Xs, y \in Ys, s \in UNION {[1..n -> MinuiCharacters] : n \in 1..2}, bold \in BOOLEAN :
  Request([op |-> "text", x1 |-> x, y1 |-> y, x2 |-> x + Len(s) * font.cwidth, y2 |-> y + GlyphHeight],
          GrText(x, y, s), TextReads(x, y, s, bold))

\* gr_clear: the margin too, whatever the current alpha.
Clear == Ready /\ Request([op |-> "clear"], Box(0, 0, draw.width, draw.height), {})

\* gr_color, and one byte drawn with it.
Color ==
  /\ Ready
  /\ color' \in Levels
  /\ \E under, colour, coverage \in Levels :
       blended' = [under |-> under, colour |-> colour, coverage |-> coverage,
                   result |-> TextByte(under, colour, coverage, color')]
  /\ request' = [op |-> "color"]
  /\ UNCHANGED <<minuiPc, percent, choice, painted, read>>

\* gr_flip after a request.
Flip ==
  /\ minuiPc = "up" /\ request # NoRequest
  /\ request' = NoRequest /\ painted' = {} /\ read' = {} /\ blended' = NoBlend
  /\ color' \in {0, 255}
  /\ UNCHANGED <<minuiPc, percent, choice>>

MinuiNext ==
  \/ BeginRound \/ OpenAdf \/ OpenDrm \/ OpenFbdev \/ FinishRound \/ MinuiCrash \/ MinuiExit
  \/ Fill \/ Blit \/ Icon \/ Text \/ Clear \/ Color \/ Flip

MinuiSpec == MinuiInit /\ [][MinuiNext]_minuiVars
-----------------------------------------------------------------------------
(* Properties *)

\* The shapes of the variables.
MinuiTypeOK ==
  /\ minuiPc \in {"off", "second", "adf", "drm", "fbdev", "finish", "up", "exited", "crashed"}
  /\ percent \in Percents \cup {0} /\ color \in 0..255
  /\ backend \in {"none", "adf", "drm", "fbdev"} /\ ready \subseteq {"adf", "drm", "fbdev"}
  /\ works \subseteq {"adf", "drm", "fbdev"} /\ round \in 0..2
  /\ draw = Nothing \/ draw \in UNION {Surfaces(b) : b \in {"adf", "drm", "fbdev"}}
  /\ offset \in [x : Nat, y : Nat]
  /\ font \in [width : Nat, cwidth : Nat, bold : BOOLEAN]

\* Whatever backends fail in either round (353-392), the surface that was
\* chosen belongs to the backend that is asked to flip, and that one is
\* initialised.
DrawsOnItsBackend ==
  /\ minuiPc = "finish" /\ draw # Nothing /\ backend # "none" => draw.owner = backend
  /\ minuiPc = "up" /\ draw # Nothing => backend \in ready

\* A round ends without a surface only when neither DRM nor fbdev works; a null
\* gr_backend is called only when open_adf gave none and the surface of the
\* first round was kept (357-373).
SurfaceIfAnyWorks ==
  /\ minuiPc = "finish" /\ draw = Nothing => works \subseteq {"adf"}
  /\ minuiPc = "crashed" => draw = Nothing \/ (backend = "none" /\ round = 2)

\* Nothing is drawn outside the surface (58-61), for any coordinates, margin,
\* font and text.
PaintsInside == painted \subseteq Box(0, 0, draw.width, draw.height)

\* gr_fb_width and gr_fb_height (399-407).
GrFbWidth == draw.width - 2 * offset.x
GrFbHeight == draw.height - 2 * offset.y
InArea(r) == 0 <= r.x1 /\ r.x1 < r.x2 /\ r.x2 <= GrFbWidth
             /\ 0 <= r.y1 /\ r.y1 < r.y2 /\ r.y2 <= GrFbHeight

\* A rectangle or text inside the area that gr_fb_width and gr_fb_height promise
\* is drawn to its last pixel.
AreaIsDrawn ==
  request.op \in {"fill", "blit", "icon", "text"} /\ (color # 0 \/ request.op = "blit") /\ InArea(request) =>
    painted = Box(request.x1 + offset.x, request.y1 + offset.y,
                  request.x2 + offset.x, request.y2 + offset.y)

\* And it leaves the overscan margin of the surface that is shown free.
MarginIsFree ==
  request.op \in {"fill", "blit", "icon", "text"} /\ InArea(request) =>
    \A p \in painted :
      /\ p[1] >= (draw.width * percent) \div 100 /\ p[1] < draw.width - (draw.width * percent) \div 100
      /\ p[2] >= (draw.height * percent) \div 100 /\ p[2] < draw.height - (draw.height * percent) \div 100

\* Every character, printable or not, is read from inside the font image,
\* although its width need not be a multiple of 96 (118-131, 286).
GlyphsAreInImage ==
  \A r \in read : r.from >= 0 /\ r.to <= font.width /\ r.rows <= (IF font.bold THEN 2 ELSE 1) * GlyphHeight

\* A blended byte lies between what was there and the colour (90-94, 217-224):
\* it never wraps in its unsigned char.
BlendIsBetween ==
  \/ blended.under <= blended.result /\ blended.result <= blended.colour
  \/ blended.colour <= blended.result /\ blended.result <= blended.under

\* Text that covers a pixel wholly draws what gr_fill would (82-88, 200-228).
TextFillsAlike ==
  request.op = "color" /\ blended.coverage = 255 =>
    blended.result = FillByte(blended.under, blended.colour, color)

\* The surface and the backend after the two rounds of gr_init belong together,
\* whichever backends fail in each.
BackendIsUsable == MinuiTypeOK /\ DrawsOnItsBackend /\ SurfaceIfAnyWorks

\* What the drawing functions paint and read, and with which bytes.
DrawingIsRight ==
  /\ PaintsInside /\ AreaIsDrawn /\ MarginIsFree
  /\ GlyphsAreInImage /\ BlendIsBetween /\ TextFillsAlike
=============================================================================
