---------------------------- MODULE RecoveryText ----------------------------
(***************************************************************************)
(* recovery/twrp-graphics.c and configs/recovery/graphics.c: fonts, lines  *)
(* of text and the shapes.  A character is the number of its glyph, or     *)
(* NoGlyph for one outside the 96 that a font has.  A pixel that is drawn  *)
(* is <<column of the screen, column of the texture>>.  recti and the      *)
(* texture belong to libpixelflinger, the TTF fonts to files that are not  *)
(* in this repository.                                                     *)
(***************************************************************************)
EXTENDS Integers, FiniteSets, Sequences

CONSTANTS NoGlyph,      \* glyphs of a font: 96 in the code
          GlyphWidths,  \* widths of glyphs, with 0
          FontHeight,   \* cheight
          FontBytes,    \* bytes of a font file
          TextLength,   \* bound: characters of a string
          Limits,       \* max_width and max_height
          TextX,        \* where a line begins
          Radii         \* of circles

ASSUME TextAssumption ==
  /\ NoGlyph \in Nat \ {0} /\ FontHeight \in Nat \ {0} /\ TextLength \in Nat /\ TextX \in Nat
  /\ GlyphWidths \subseteq Nat /\ FontBytes \subseteq 0..255 /\ Limits \subseteq Nat /\ Radii \subseteq Nat

VARIABLES
  textPc,     \* "off", "load", "garbage", "idle", "loop" or "done"
  fontOffset, \* offset of gr_font
  fontFile,   \* the bytes of its file after the header, while it is read
  fontBits,   \* bits, as far as it is filled
  fontByte,   \* data in gr_loadFont
  call,       \* the function and its arguments
  at,         \* the next character
  penX,       \* x, or what a measuring function has counted
  fits,       \* total of gr_maxExW
  inked,      \* the pixels drawn
  bottoms     \* where the rectangles of gr_textExWH end

fontVars == <<fontOffset, fontFile, fontBits, fontByte>>
lineVars == <<call, at, penX, fits, inked, bottoms>>
textVars == <<textPc, fontVars, lineVars>>

NoCall == [fn |-> "none", s |-> << >>, limit |-> 0, height |-> 0]

TextInit ==
  /\ textPc = "off"
  /\ fontOffset = [i \in 0..NoGlyph |-> 0] /\ fontFile = << >> /\ fontBits = << >> /\ fontByte = 0
  /\ call = NoCall /\ at = 1 /\ penX = 0 /\ fits = 0 /\ inked = {} /\ bottoms = {}

FontWidth == fontOffset[NoGlyph]
FontSize == FontWidth * FontHeight

-----------------------------------------------------------------------------
\* gr_init_font: the compiled-in font, every glyph cwidth wide.  Also what a
\* caller draws with whose gr_loadFont found no file and returned NULL.
BuiltInFont ==
  /\ textPc = "off"
  /\ \E cwidth \in GlyphWidths \ {0} : fontOffset' = [i \in 0..NoGlyph |-> i * cwidth]
  /\ textPc' = "idle"
  /\ UNCHANGED <<fontFile, fontBits, fontByte, lineVars>>

\* The offsets of glyphs of these widths.
Offsets(w) == LET to[j \in 0..NoGlyph] == IF j = 0 THEN 0 ELSE to[j - 1] + w[j - 1] IN to

\* gr_loadFont of a file that ends within its header: no result of a read is
\* looked at, and width, height and the offsets are whatever they were.
ShortHeader ==
  /\ textPc = "off"
  /\ textPc' = "garbage"
  /\ UNCHANGED <<fontVars, lineVars>>

\* gr_loadFont: open and read the header, then data is not initialised.
OpenFont ==
  /\ textPc = "off"
  /\ \E w \in [0..(NoGlyph - 1) -> GlyphWidths] : fontOffset' = Offsets(w)
  /\ fontFile' \in UNION {[1..n -> FontBytes] : n \in 0..2}
  /\ fontByte' \in FontBytes
  /\ textPc' = "load"
  /\ UNCHANGED <<fontBits, lineVars>>

\* data & (1 << (7-bit)).
Bit(byte, bit) == (byte \div <<128, 64, 32, 16, 8, 4, 2, 1>>[bit + 1]) % 2

\* The body of the loop of gr_loadFont; at the end of the file data stays.
LoadByte ==
  /\ textPc = "load" /\ Len(fontBits) < FontSize
  /\ LET n == Len(fontBits) \div 8 + 1
     IN  fontByte' = IF n <= Len(fontFile) THEN fontFile[n] ELSE fontByte
  /\ LET left == FontSize - Len(fontBits)
     IN  fontBits' = fontBits \o [b \in 1..(IF left < 8 THEN left ELSE 8) |-> Bit(fontByte', b - 1)]
  /\ UNCHANGED <<textPc, fontOffset, fontFile, lineVars>>

\* close, and the fields of the texture; what the file held is forgotten.
CloseFont ==
  /\ textPc = "load" /\ Len(fontBits) >= FontSize
  /\ textPc' = "idle"
  /\ fontFile' = << >> /\ fontByte' = 0
  /\ UNCHANGED <<fontOffset, fontBits, lineVars>>

-----------------------------------------------------------------------------
Strings == UNION {[1..n -> 0..NoGlyph] : n \in 0..TextLength}

\* The functions that walk a string.  CWM's has one width for all glyphs.
Fixed == \A i \in 1..NoGlyph : fontOffset[i] = i * fontOffset[1]
TextFunctions == {"gr_measureEx", "gr_maxExW", "gr_textEx", "gr_textExW", "gr_textExWH"}
                 \cup (IF Fixed THEN {"gr_text"} ELSE {})

BeginText ==
  /\ textPc = "idle"
  /\ \E fn \in TextFunctions, s \in Strings, limit, height \in Limits \cup {-1} :
       /\ limit = -1 <=> fn \notin {"gr_maxExW", "gr_textExW", "gr_textExWH"}
       /\ fn # "gr_textExWH" => height = -1
       /\ call' = [fn |-> fn, s |-> s, limit |-> limit, height |-> height]
       /\ penX' = IF fn \in {"gr_measureEx", "gr_maxExW"} THEN 0 ELSE TextX
  /\ at' = 1 /\ fits' = 0 /\ inked' = {} /\ bottoms' = {}
  /\ textPc' = "loop"
  /\ UNCHANGED fontVars

Glyph(c) == c < NoGlyph
CWidth(c) == IF Glyph(c) THEN fontOffset[c + 1] - fontOffset[c] ELSE 0

\* recti with the texture of glyph c bound at x: empty when to is not beyond x.
Recti(c, x, to) == {<<px, fontOffset[c] + px - x>> : px \in x..(to - 1)}

\* gr_measureEx and gr_textEx.
AddChar(c) ==
  /\ penX' = penX + CWidth(c)
  /\ inked' = inked \cup (IF call.fn = "gr_textEx" /\ Glyph(c) THEN Recti(c, penX, penX + CWidth(c)) ELSE {})
  /\ at' = at + 1 /\ UNCHANGED <<textPc, fits, bottoms>>

\* gr_text of CWM: the pen moves for every character.
CwmChar(c) ==
  /\ penX' = penX + fontOffset[1]
  /\ inked' = inked \cup (IF Glyph(c) THEN Recti(c, penX, penX + fontOffset[1]) ELSE {})
  /\ at' = at + 1 /\ UNCHANGED <<textPc, fits, bottoms>>

\* gr_maxExW; max_width there is limit - penX here.
MaxChar(c) ==
  /\ penX' = penX + CWidth(c)
  /\ IF ~Glyph(c) \/ penX' < call.limit
     THEN fits' = fits + (IF Glyph(c) THEN 1 ELSE 0) /\ at' = at + 1 /\ UNCHANGED textPc
     ELSE textPc' = "done" /\ UNCHANGED <<fits, at>>
  /\ UNCHANGED <<inked, bottoms>>

\* gr_textExW: the glyph that reaches max_width is cut there, and the last.
ClipChar(c) ==
  /\ IF ~Glyph(c) THEN at' = at + 1 /\ UNCHANGED <<penX, inked, textPc>>
     ELSE IF penX + CWidth(c) < call.limit
     THEN /\ inked' = inked \cup Recti(c, penX, penX + CWidth(c))
          /\ penX' = penX + CWidth(c) /\ at' = at + 1 /\ UNCHANGED textPc
     ELSE /\ inked' = inked \cup Recti(c, penX, call.limit)
          /\ penX' = call.limit /\ textPc' = "done" /\ UNCHANGED at
  /\ UNCHANGED <<fits, bottoms>>

\* rect_y, with y = 0: max_height is compared as an unsigned int.
Bottom(height) == IF height < 0 \/ FontHeight < height THEN FontHeight ELSE height

\* Mutant: the right edge is not cut.
ClipBothWide(c) ==
  /\ IF ~Glyph(c) THEN UNCHANGED <<penX, inked, bottoms, textPc>>
     ELSE /\ inked' = inked \cup Recti(c, penX, penX + CWidth(c))
          /\ bottoms' = bottoms \cup {Bottom(call.height)}
          /\ penX' = penX + CWidth(c)
          /\ textPc' = IF penX' > call.limit THEN "done" ELSE "loop"
  /\ at' = at + 1 /\ UNCHANGED fits

\* gr_textExWH.
ClipBoth(c) ==
  /\ IF ~Glyph(c) THEN UNCHANGED <<penX, inked, bottoms, textPc>>
     ELSE LET right == penX + CWidth(c)
          IN  /\ inked' = inked \cup Recti(c, penX, IF right < call.limit THEN right ELSE call.limit)
              /\ bottoms' = bottoms \cup {Bottom(call.height)}
              /\ penX' = right
              /\ textPc' = IF right > call.limit THEN "done" ELSE "loop"
  /\ at' = at + 1 /\ UNCHANGED fits

\* The bodies of the loops.
TextChar ==
  /\ textPc = "loop" /\ at <= Len(call.s)
  /\ LET c == call.s[at]
     IN  \/ call.fn \in {"gr_measureEx", "gr_textEx"} /\ AddChar(c)
         \/ call.fn = "gr_text" /\ CwmChar(c)
         \/ call.fn = "gr_maxExW" /\ MaxChar(c)
         \/ call.fn = "gr_textExW" /\ ClipChar(c)
         \/ call.fn = "gr_textExWH" /\ ClipBoth(c)
  /\ UNCHANGED <<call, fontVars>>

TextEnd ==
  /\ textPc = "loop" /\ at > Len(call.s)
  /\ textPc' = "done"
  /\ UNCHANGED <<fontVars, lineVars>>

-----------------------------------------------------------------------------
\* The pixels gr_render_circle sets, relative to the centre.
Circle(r) == {p \in (-r..r) \X (-r..r) : p[1] * p[1] + p[2] * p[2] <= r * r + (r * 8) \div 10}

GrRenderCircle ==
  /\ textPc = "idle"
  /\ \E r \in Radii :
       /\ call' = [fn |-> "gr_render_circle", s |-> << >>, limit |-> r, height |-> 0]
       /\ inked' = Circle(r)
  /\ textPc' = "done"
  /\ UNCHANGED <<fontVars, at, penX, fits, bottoms>>

\* Where gr_textEx_scaleW puts a line measured wide, and the right edge it
\* passes on; the line begins at TextX.
Measured(wide, scaled, scale, limit) == IF scale /\ wide > limit THEN scaled ELSE wide

\* The placement of x.
Place(placement, wide, limit) ==
  LET x_adj == IF wide > limit THEN limit ELSE wide
  IN  IF placement = "left" THEN TextX
      ELSE TextX - (IF placement = "centre" THEN x_adj \div 2 ELSE x_adj)

\* gr_textEx_scaleW without a string, a font or a smaller font: 0 is no place
\* beside the line, and nothing is drawn.
DrawsNothing ==
  /\ textPc = "idle"
  /\ call' = [fn |-> "refused", s |-> << >>, limit |-> 0, height |-> 0]
  /\ penX' = 0 /\ inked' = {}
  /\ textPc' = "done"
  /\ UNCHANGED <<fontVars, at, fits, bottoms>>

\* gr_textEx_scaleW: a scaled font is the size that fits, which TTF fonts do.
GrTextExScaleW ==
  /\ textPc = "idle"
  /\ \E wide \in 0..6, limit \in Limits, scale \in BOOLEAN, placement \in {"left", "centre", "right"} :
     \E scaled \in 0..limit :
       LET m == Measured(wide, scaled, scale, limit)
           x == Place(placement, m, limit)
       IN  /\ call' = [fn |-> IF scale THEN "scaled" ELSE "unscaled", s |-> << >>, limit |-> limit, height |-> m]
           /\ penX' = x
           /\ inked' = {<<px, px - x>> : px \in x..(x + m - 1)}
  /\ textPc' = "done"
  /\ UNCHANGED <<fontVars, at, fits, bottoms>>

TextNext ==
  \/ BuiltInFont \/ ShortHeader \/ OpenFont \/ LoadByte \/ CloseFont
  \/ BeginText \/ TextChar \/ TextEnd \/ GrRenderCircle \/ GrTextExScaleW \/ DrawsNothing

TextSpec == TextInit /\ [][TextNext]_textVars
-----------------------------------------------------------------------------
(* Properties *)

\* The shapes of the variables; gr_loadFont never writes beyond its bitmap,
\* whose size need not be a multiple of eight (643-657).
TextTypeOK ==
  /\ textPc \in {"off", "load", "garbage", "idle", "loop", "done"}
  /\ fontOffset \in [0..NoGlyph -> Nat] /\ fontByte \in 0..255
  /\ Len(fontBits) <= FontSize
  /\ at \in 1..(Len(call.s) + 1) /\ penX \in Int /\ fits \in 0..at /\ bottoms \subseteq Int

\* The reference: the columns of a string's glyphs one after the other; CWM
\* leaves a gap of one width for what has no glyph.
Columns(offset, gaps, c) ==
  IF Glyph(c) THEN [k \in 1..(offset[c + 1] - offset[c]) |-> offset[c] + k - 1]
  ELSE IF gaps THEN [k \in 1..offset[1] |-> -1] ELSE << >>
Lines(offset, gaps, s) ==
  LET line[i \in 0..Len(s)] == IF i = 0 THEN << >> ELSE line[i - 1] \o Columns(offset, gaps, s[i]) IN line

\* The line of the first i characters of the string, and of the whole string.
LineTo(i) == Lines(fontOffset, call.fn = "gr_text", call.s)[i]
Line == LineTo(Len(call.s))

\* The pixels of a line that begins at TextX, cut at limit or not.
Seen(l, cut, limit) == {k \in 1..Len(l) : l[k] >= 0 /\ (cut => TextX + k - 1 < limit)}
Pixels(l, cut, limit) == {<<TextX + k - 1, l[k]>> : k \in Seen(l, cut, limit)}

\* What the loops draw is the line, column for column, cut at max_width; nothing
\* is drawn twice and nothing left out (347-519, CWM 226-250).
DrawsTheLine ==
  textPc = "done" /\ call.fn \in {"gr_textEx", "gr_text", "gr_textExW", "gr_textExWH"} =>
    inked = Pixels(Line, call.fn \in {"gr_textExW", "gr_textExWH"}, call.limit)

\* A caller that continues where a function says the line ended leaves no gap
\* and overwrites nothing: gr_textEx returns x plus gr_measureEx (293-380).
\* gr_textExWH has no such answer when it cuts: it returns where the glyph that
\* it cut would have ended, which is beyond max_width (512-514).
ReturnsTheEnd ==
  textPc = "done" =>
    /\ call.fn = "gr_measureEx" => penX = Len(Line)
    /\ call.fn \in {"gr_textEx", "gr_text"} => penX = TextX + Len(Line)
    /\ call.fn = "gr_textExW" /\ TextX <= call.limit =>
         penX = (IF TextX + Len(Line) < call.limit THEN TextX + Len(Line) ELSE call.limit)
    /\ call.fn = "gr_textExWH" =>
         penX = TextX + Len(LineTo(at - 1)) /\ (at <= Len(call.s) => call.limit < penX)

\* As many characters as gr_maxExW answers are narrower than max_width, and with
\* one glyph more they would not be, although it counts only the characters that
\* have a glyph (318-345).
MaxIsMaximal ==
  textPc = "done" /\ call.fn = "gr_maxExW" =>
    /\ fits > 0 => Len(LineTo(fits)) < call.limit
    /\ \A k \in 1..Len(call.s) :
         Cardinality({i \in 1..k : Glyph(call.s[i])}) = fits + 1 => Len(LineTo(k)) >= call.limit

\* gr_textExWH ends no rectangle below max_height; -1 is no limit (476-519).
HeightIsKept ==
  \A b \in bottoms : b = FontHeight \/ (call.height >= 0 /\ b = call.height /\ b <= FontHeight)

\* gr_loadFont fills the bitmap to its last pixel even when the file is short
\* (643-657), and eight pixels after the other are the bytes of the file, the
\* highest bit first.
FontIsWhole ==
  /\ textPc = "idle" => Len(fontBits) \in {0, FontSize}
  /\ \A n \in 1..Len(fontFile) : 8 * n <= Len(fontBits) =>
       LET b == SubSeq(fontBits, 8 * n - 7, 8 * n)
       IN  fontFile[n] = 128 * b[1] + 64 * b[2] + 32 * b[3] + 16 * b[4] + 8 * b[5] + 4 * b[6] + 2 * b[7] + b[8]

\* gr_render_circle is as high as wide, touches all four sides of its surface
\* and has no gaps in any row (551-581).
CircleIsRound ==
  call.fn = "gr_render_circle" =>
    LET r == call.limit
    IN  /\ <<r, 0>> \in inked /\ <<0, -r>> \in inked
        /\ \A p \in inked : /\ <<p[2], p[1]>> \in inked /\ <<-p[1], p[2]>> \in inked
                            /\ \A x \in 0..p[1] : <<x, p[2]>> \in inked

\* A line that gr_textEx_scaleW may scale stays within max_width of where its
\* placement puts it, to the left, centred to half a pixel, or to the right of x
\* (382-430).
PlacedInside ==
  call.fn = "scaled" =>
    \A p \in inked : TextX - call.limit <= p[1] /\ p[1] < TextX + call.limit

\* What the functions of text, fonts and shapes draw and answer.
TextIsRight ==
  /\ TextTypeOK
  /\ DrawsTheLine /\ ReturnsTheEnd /\ MaxIsMaximal /\ HeightIsKept
  /\ FontIsWhole /\ CircleIsRound /\ PlacedInside
=============================================================================
