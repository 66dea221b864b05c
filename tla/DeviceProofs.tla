----------------------------- MODULE DeviceProofs -----------------------------
(***************************************************************************)
(* Proofs about the output devices: the screen console (Screen) and the    *)
(* serial ports (Uart), for every font, video mode, width of words, depth  *)
(* of the transmit FIFO and number of characters.                          *)
(*                                                                         *)
(* Screen: the framebuffer keeps its extent, because every address written *)
(* is a row and a column of the screen; the cursor stays a number of line  *)
(* heights below the margin; and the pixels are the text, because the last *)
(* line stands at the cursor, the others above it, and its characters to   *)
(* the left of it, so that a glyph hides nothing.                          *)
(*                                                                         *)
(* Uart: the polling driver writes where there is room, so that only half  *)
(* of a line end can be lost; the driver that does not poll loses nothing  *)
(* until it has sent more than the FIFO holds.                             *)
(***************************************************************************)
EXTENDS Screen, Uart, SequenceTheorems, TLAPS

-----------------------------------------------------------------------------
(* Numbers. *)

\* A larger factor gives a larger product.
LEMMA TimesMonotone ==
    ASSUME NEW a \in Nat, NEW b \in Nat, NEW d \in Nat, a <= b
    PROVE  a * d <= b * d /\ a * d \in Nat /\ b * d \in Nat
<1>1. PICK e \in Nat : b = a + e
  <2>1. b - a \in Nat /\ b = a + (b - a)
    OBVIOUS
  <2> QED
    BY <2>1
<1>2. b * d = a * d + e * d
  BY <1>1
<1>3. a * d \in Nat /\ e * d \in Nat
  OBVIOUS
<1> QED
  BY <1>2, <1>3

LEMMA TimesNext ==
    ASSUME NEW a \in Int, NEW d \in Int
    PROVE  (a + 1) * d = a * d + d /\ d * (a + 1) = d * a + d /\ a * d \in Int
OBVIOUS

\* The address of column x in row y is on the screen.
LEMMA AddressFits ==
    ASSUME NEW h \in Nat, NEW s \in Nat, NEW y \in Nat, NEW x \in Nat, y < h, x < s
    PROVE  y * s + x \in 0 .. h * s - 1
<1>1. (y + 1) * s <= h * s /\ y * s \in Nat /\ h * s \in Nat
  <2>1. y + 1 \in Nat /\ y + 1 <= h
    OBVIOUS
  <2> QED
    BY <2>1, TimesMonotone
<1>2. (y + 1) * s = y * s + s
  BY TimesNext
<1> QED
  BY <1>1, <1>2

\* It is the address of no other column and row.
LEMMA AddressDiffers ==
    ASSUME NEW s \in Nat, NEW y \in Nat, NEW x \in Nat, x < s, NEW v \in Nat, NEW u \in Nat, u < s,
           y * s + x = v * s + u
    PROVE  y = v /\ x = u
<1>1. ~(y < v)
  <2> SUFFICES ASSUME y < v PROVE FALSE
    OBVIOUS
  <2>1. (y + 1) * s <= v * s
    BY TimesMonotone
  <2>2. (y + 1) * s = y * s + s /\ y * s \in Int /\ v * s \in Int
    BY TimesNext
  <2> QED
    BY <2>1, <2>2
<1>2. ~(v < y)
  <2> SUFFICES ASSUME v < y PROVE FALSE
    OBVIOUS
  <2>1. (v + 1) * s <= y * s
    BY TimesMonotone
  <2>2. (v + 1) * s = v * s + s /\ y * s \in Int /\ v * s \in Int
    BY TimesNext
  <2> QED
    BY <2>1, <2>2
<1>3. y = v
  BY <1>1, <1>2
<1>4. y * s \in Int
  OBVIOUS
<1> QED
  BY <1>3, <1>4

\* Division by the length of a row gives row and column back.
LEMMA AddressSplits ==
    ASSUME NEW s \in Nat, NEW y \in Nat, NEW x \in Nat, x < s
    PROVE  (y * s + x) \div s = y /\ (y * s + x) % s = x
<1> DEFINE a == y * s + x
           q == a \div s
           r == a % s
<1>1. a \in Nat /\ s > 0
  OBVIOUS
<1> HIDE DEF a
<1>2. q \in Nat /\ r \in Nat /\ r < s /\ a = q * s + r
  BY <1>1
<1>3. q = y /\ r = x
  <2> HIDE DEF q, r
  <2> QED
    BY <1>2, AddressDiffers DEF a
<1> QED
  BY <1>3 DEF a

LEMMA U32Facts ==
    /\ \A n \in Int : U32(n) \in 0 .. Word - 1
    /\ \A n \in 0 .. Word - 1 : U32(n) = n
BY WordAssumption, FontAssumption DEF U32

LEMMA U32Back ==
    ASSUME NEW y \in 0 .. Word - 1, NEW h \in 0 .. Word - 1
    PROVE  U32(U32(y + h) - h) = y
<1>0. Word \in Nat /\ Word > 0
  BY WordAssumption, FontAssumption
<1>1. CASE y + h < Word
  <2>1. U32(y + h) = y + h
    BY <1>0, <1>1, U32Facts
  <2>2. (y + h) - h = y
    BY <1>0
  <2> QED
    BY <2>1, <2>2, U32Facts
<1>2. CASE ~(y + h < Word)
  <2>1. \A n \in Word .. 2 * Word - 1 : n % Word = n - Word
    BY <1>0
  <2>2. \A n \in -Word .. -1 : n % Word = n + Word
    BY <1>0
  <2>3. y + h \in Word .. 2 * Word - 1 /\ (y + h) - Word - h = y - Word
        /\ y - Word \in -Word .. -1 /\ (y - Word) + Word = y
    BY <1>0, <1>2
  <2> QED
    BY <2>1, <2>2, <2>3 DEF U32
<1> QED
  BY <1>1, <1>2

LEMMA AtMost ==
    ASSUME NEW a \in Int, NEW b \in Int, NEW d \in Int, a <= b, b <= d
    PROVE  a <= d
OBVIOUS

\* What is no longer than the step from a to b, and begins at a, ends before b.
LEMMA Apart ==
    ASSUME NEW a \in Int, NEW b \in Int, NEW x \in Int, NEW size \in Int, NEW step \in Int,
           size <= step, a + step <= b, x - a \in 0 .. size - 1, x - b \in 0 .. size - 1
    PROVE  FALSE
OBVIOUS

\* A row that was on the screen before a move by d is on it after the move.
LEMMA StaysAbove ==
    ASSUME NEW b \in Int, NEW v \in Int, NEW y \in Int, NEW d \in Int, NEW h \in Int,
           v <= b, b + ((y + d) - v) < h
    PROVE  y + d < h
OBVIOUS

-----------------------------------------------------------------------------
(* Types. *)

LEMMA Fonts ==
    /\ CHAR_WIDTH \in Nat /\ CHAR_WIDTH > 0 /\ CHAR_HEIGHT \in Nat /\ CHAR_HEIGHT > 0
    /\ SCREEN_MARGIN \in Nat /\ CHAR_W \in Nat /\ CHAR_H \in Nat /\ MaxChars \in Nat /\ Word \in Nat
    /\ CHAR_W >= CHAR_WIDTH /\ CHAR_H >= CHAR_HEIGHT
    /\ SCREEN_MARGIN \in 0 .. Word - 1 /\ CHAR_W \in 0 .. Word - 1 /\ CHAR_H \in 0 .. Word - 1
BY FontAssumption, WordAssumption, MaxCharsAssumption

LEMMA ModeFacts ==
    ASSUME mode \in Modes
    PROVE  /\ mode.width \in Nat /\ mode.height \in Nat /\ mode.stride \in Nat
           /\ mode.width + CHAR_W < Word /\ mode.height + CHAR_H < Word
           /\ mode.width <= mode.stride
BY ModesAssumption, Fonts

Pixels == [0 .. mode.height * mode.stride - 1 -> 0 .. MaxChars]

\* A glyph is drawn on the screen only.
LEMMA BoxOnScreen ==
    ASSUME mode \in Modes, NEW x \in Int, NEW y \in Int
    PROVE  Box(x, y) \subseteq 0 .. mode.height * mode.stride - 1
<1> SUFFICES ASSUME NEW r \in 0 .. CHAR_HEIGHT - 1, U32(y + r) < mode.height,
                    NEW q \in 0 .. CHAR_WIDTH - 1, U32(x + q) < mode.width
             PROVE  U32(y + r) * mode.stride + U32(x + q) \in 0 .. mode.height * mode.stride - 1
  BY DEF Box
<1>1. U32(y + r) \in Nat /\ U32(x + q) \in Nat
  BY U32Facts, Fonts
<1>2. U32(x + q) < mode.stride
  BY <1>1, ModeFacts
<1> QED
  BY <1>1, <1>2, ModeFacts, AddressFits

LEMMA GlyphType ==
    ASSUME mode \in Modes, NEW x \in Int, NEW y \in Int, NEW pixels \in Pixels,
           NEW ink \in 0 .. MaxChars
    PROVE  Glyph(pixels, x, y, ink) \in Pixels
<1>1. DOMAIN pixels \cup Box(x, y) = 0 .. mode.height * mode.stride - 1
  BY BoxOnScreen DEF Pixels
<1> QED
  BY <1>1 DEF Glyph, Pixels

\* The rows of screen_scroll lie on the screen, and those it copies from, too.
LEMMA RowsOnScreen ==
    ASSUME mode \in Modes
    PROVE  /\ Line \in Nat
           /\ Rows \subseteq 0 .. mode.height * mode.stride - 1
           /\ \A a \in Rows, px \in Nat :
                 a \div Line + px < mode.height => a + px * Line \in 0 .. mode.height * mode.stride - 1
<1> DEFINE h == mode.height
           s == mode.stride
           w == mode.width
<1>1. h \in Nat /\ s \in Nat /\ w \in Nat /\ w <= s
  BY ModeFacts
<1>2. Line \in Nat /\ Line <= s /\ w <= Line
  BY <1>1 DEF Line
<1>3. Rows = {row * Line + x : row \in 0 .. h - 1, x \in 0 .. w - 1}
  BY DEF Rows
<1> HIDE DEF h, s, w
<1>4. h * Line \in Nat /\ h * s \in Nat /\ h * Line <= h * s
  <2>1. Line * h <= s * h /\ Line * h \in Nat
    BY <1>1, <1>2, TimesMonotone
  <2> QED
    BY <1>1, <1>2, <2>1
<1>5. ASSUME NEW row \in 0 .. h - 1, NEW x \in 0 .. w - 1, NEW px \in Nat
      PROVE  /\ row * Line + x \in 0 .. h * s - 1
             /\ (row * Line + x) \div Line = row
             /\ row + px < h => (row * Line + x) + px * Line \in 0 .. h * s - 1
  <2>1. row \in Nat /\ x \in Nat /\ x < Line /\ row < h /\ Line # 0 /\ Line > 0
    BY <1>1, <1>2
  <2>2. (row * Line + x) \div Line = row
    BY <1>2, <2>1, AddressSplits
  <2>3. row * Line + x \in 0 .. h * Line - 1
    BY <1>1, <1>2, <2>1, AddressFits
  <2>4. ASSUME row + px < h PROVE (row * Line + x) + px * Line \in 0 .. h * Line - 1
    <3>1. PICK q \in Nat : q = row + px
      BY <2>1
    <3>2. (row * Line + x) + px * Line = q * Line + x
      BY <1>2, <2>1, <3>1
    <3> QED
      BY <1>1, <1>2, <2>1, <2>4, <3>1, <3>2, AddressFits
  <2> QED
    BY <1>4, <2>2, <2>3, <2>4
<1>6. Rows \subseteq 0 .. h * s - 1
  <2> SUFFICES ASSUME NEW a \in Rows PROVE a \in 0 .. h * s - 1
    OBVIOUS
  <2>1. PICK row \in 0 .. h - 1, x \in 0 .. w - 1 : a = row * Line + x
    BY <1>3
  <2> QED
    BY <1>5, <2>1
<1>7. ASSUME NEW a \in Rows, NEW px \in Nat, a \div Line + px < h
      PROVE  a + px * Line \in 0 .. h * s - 1
  <2>1. PICK row \in 0 .. h - 1, x \in 0 .. w - 1 : a = row * Line + x
    BY <1>3
  <2>2. a \div Line = row
    BY <1>5, <2>1
  <2> QED
    BY <1>5, <1>7, <2>1, <2>2
<1> QED
  BY <1>2, <1>6, <1>7 DEF h, s

\* screen_scroll reads and writes on the screen only.
LEMMA ScrollType ==
    ASSUME mode \in Modes, NEW pixels \in Pixels, NEW px \in Nat
    PROVE  Scroll(pixels, px) \in Pixels
<1> DEFINE Screened == 0 .. mode.height * mode.stride - 1
           Cell(a) == IF a \notin Rows THEN pixels[a]
                      ELSE IF a \div Line + px < mode.height THEN pixels[a + px * Line]
                      ELSE Black
<1>1. pixels \in [Screened -> 0 .. MaxChars]
  BY DEF Pixels
<1>2. /\ Rows \subseteq Screened
      /\ \A a \in Rows : a \div Line + px < mode.height => a + px * Line \in Screened
  BY RowsOnScreen
<1>3. Scroll(pixels, px) =
        IF mode.stride = 0 THEN pixels ELSE [a \in DOMAIN pixels \cup Rows |-> Cell(a)]
  BY DEF Scroll
<1>4. 0 \in 0 .. MaxChars
  BY Fonts
<1> HIDE DEF Screened
<1>5. \A a \in Screened : Cell(a) \in 0 .. MaxChars
  BY <1>1, <1>2, <1>4 DEF Black
<1>6. DOMAIN pixels \cup Rows = Screened
  BY <1>1, <1>2
<1> HIDE DEF Cell
<1>7. [a \in Screened |-> Cell(a)] \in [Screened -> 0 .. MaxChars]
  BY <1>5
<1>8. Scroll(pixels, px) \in [Screened -> 0 .. MaxChars]
  BY <1>1, <1>3, <1>6, <1>7
<1> QED
  BY <1>8 DEF Pixels, Screened

Cells == [x : 0 .. Word - 1, ink : 1 .. MaxChars, kind : {"printable", "unprintable"}]

Lines == [y : 0 .. Word - 1, since : Nat, cells : Seq(Cells)]

ScreenTypes == TypeOK /\ lines \in Seq(Lines) /\ lines # <<>>

LEMMA LastLine ==
    ASSUME ScreenTypes
    PROVE  /\ Len(lines) \in Nat /\ Len(lines) >= 1 /\ DOMAIN lines = 1 .. Len(lines)
           /\ lines[Len(lines)] \in Lines /\ lines[Len(lines)].cells \in Seq(Cells)
<1>1. lines \in Seq(Lines) /\ lines # <<>>
  BY DEF ScreenTypes
<1>2. Len(lines) \in Nat /\ Len(lines) >= 1 /\ DOMAIN lines = 1 .. Len(lines)
  BY <1>1
<1>3. lines[Len(lines)] \in Lines
  BY <1>1, <1>2
<1>4. lines[Len(lines)].cells \in Seq(Cells)
  BY <1>3 DEF Lines
<1> QED
  BY <1>2, <1>3, <1>4

\* A character is noted at the end of the last line.
LEMMA NotedFacts ==
    ASSUME ScreenTypes, shown < MaxChars, NEW kind \in {"printable", "unprintable"}
    PROVE  /\ Noted(kind) \in Seq(Lines) /\ Len(Noted(kind)) = Len(lines) /\ Noted(kind) # <<>>
           /\ \A k \in 1 .. Len(lines) : k # Len(lines) => Noted(kind)[k] = lines[k]
           /\ Noted(kind)[Len(lines)].y = lines[Len(lines)].y
           /\ Noted(kind)[Len(lines)].since = lines[Len(lines)].since
           /\ Noted(kind)[Len(lines)].cells =
                Append(lines[Len(lines)].cells, [x |-> cursor_x, ink |-> shown + 1, kind |-> kind])
<1> DEFINE n == Len(lines)
           cell == [x |-> cursor_x, ink |-> shown + 1, kind |-> kind]
           last == [lines[n] EXCEPT !.cells = Append(@, cell)]
<1>1. cell \in Cells
  BY Fonts DEF ScreenTypes, TypeOK, Cells
<1>2. n \in 1 .. Len(lines) /\ lines[n] \in Lines /\ lines \in Seq(Lines)
  BY DEF ScreenTypes
<1> HIDE DEF cell
<1>3. /\ last \in Lines /\ last.y = lines[n].y /\ last.since = lines[n].since
      /\ last.cells = Append(lines[n].cells, cell)
  <2>1. Append(lines[n].cells, cell) \in Seq(Cells)
    BY <1>1, <1>2 DEF Lines
  <2> QED
    BY <1>2, <2>1 DEF Lines
<1>4. Noted(kind) = [lines EXCEPT ![n] = last]
  BY DEF Noted, cell
<1> HIDE DEF last
<1>5. /\ Noted(kind) \in Seq(Lines) /\ Len(Noted(kind)) = n /\ Noted(kind)[n] = last
      /\ \A k \in 1 .. n : k # n => Noted(kind)[k] = lines[k]
  BY <1>2, <1>3, <1>4
<1>6. Noted(kind) # <<>>
  BY <1>2, <1>5
<1> QED
  BY <1>3, <1>5, <1>6 DEF cell

\* print_newline keeps types, whatever it is given.
LEMMA NewlineTypes ==
    ASSUME ScreenTypes, NEW pixels \in Pixels, NEW text \in Seq(Lines), PrintNewline(pixels, text),
           shown < MaxChars, shown' = shown + 1, mode' = mode
    PROVE  ScreenTypes'
<1>1. cursor_x' \in 0 .. Word - 1 /\ cursor_y' \in 0 .. Word - 1
  <2>1. cursor_y \in Int /\ cursor_x' = SCREEN_MARGIN
        /\ (cursor_y' = U32(cursor_y + CHAR_H) \/ cursor_y' = U32(U32(cursor_y + CHAR_H) - CHAR_H))
    BY Fonts DEF PrintNewline, ScreenTypes, TypeOK
  <2>2. U32(cursor_y + CHAR_H) \in Int /\ cursor_y + CHAR_H \in Int
    BY <2>1, U32Facts, Fonts
  <2>3. U32(cursor_y + CHAR_H) - CHAR_H \in Int
    BY <2>2, Fonts
  <2> QED
    BY <2>1, <2>2, <2>3, U32Facts, Fonts
<1>2. fb' \in Pixels
  BY ScrollType, Fonts DEF PrintNewline, ScreenTypes, TypeOK
<1>3. scrolls' \in 0 .. shown' /\ shown' \in 0 .. MaxChars
  BY Fonts DEF PrintNewline, ScreenTypes, TypeOK
<1>4. lines' \in Seq(Lines) /\ lines' # <<>>
  <2> DEFINE line == [y |-> cursor_y', since |-> scrolls', cells |-> <<>>]
  <2>1. line \in Lines
    BY <1>1, <1>3 DEF Lines
  <2>2. lines' = Append(text, line)
    BY DEF PrintNewline
  <2> HIDE DEF line
  <2> QED
    BY <2>1, <2>2, AppendProperties
<1> QED
  BY <1>1, <1>2, <1>3, <1>4 DEF ScreenTypes, TypeOK, Pixels

LEMMA ScreenTypesInit == Init => ScreenTypes
<1> SUFFICES ASSUME Init PROVE ScreenTypes
  OBVIOUS
<1>1. fb \in Pixels
  BY Fonts DEF Init, Pixels, Black
<1>2. lines \in Seq(Lines) /\ lines # <<>>
  <2> DEFINE line == [y |-> SCREEN_MARGIN, since |-> 0, cells |-> <<>>]
  <2>1. line \in Lines
    BY Fonts DEF Lines
  <2>2. lines = <<line>>
    BY DEF Init
  <2> HIDE DEF line
  <2> QED
    BY <2>1, <2>2
<1> QED
  BY <1>1, <1>2, Fonts DEF Init, ScreenTypes, TypeOK, Pixels

LEMMA ScreenTypesKept == ScreenTypes /\ [Next]_vars => ScreenTypes'
<1> SUFFICES ASSUME ScreenTypes, [Next]_vars PROVE ScreenTypes'
  OBVIOUS
<1>1. fb \in Pixels /\ mode \in Modes /\ cursor_x \in Int /\ cursor_y \in Int
  BY Fonts DEF ScreenTypes, TypeOK, Pixels
<1>2. shown < MaxChars => Glyph(fb, cursor_x, cursor_y, shown + 1) \in Pixels
  BY <1>1, GlyphType, Fonts DEF ScreenTypes, TypeOK
<1>3. CASE Newline
  BY <1>1, <1>3, NewlineTypes DEF Newline, ScreenTypes
<1>4. CASE Unprintable
  <2>1. lines' \in Seq(Lines) /\ lines' # <<>>
    BY <1>4, NotedFacts DEF Unprintable
  <2>2. fb' \in Pixels /\ cursor_x' \in 0 .. Word - 1
    BY <1>1, <1>2, <1>4, U32Facts, Fonts DEF Unprintable
  <2>3. shown' \in 0 .. MaxChars /\ scrolls' \in 0 .. shown' /\ mode' = mode /\ cursor_y' = cursor_y
    BY <1>4, Fonts DEF Unprintable, ScreenTypes, TypeOK
  <2> QED
    BY <2>1, <2>2, <2>3 DEF ScreenTypes, TypeOK, Pixels
<1>5. CASE Printable
  <2>1. /\ Noted("printable") \in Seq(Lines) /\ Noted("printable") # <<>>
        /\ Glyph(fb, cursor_x, cursor_y, shown + 1) \in Pixels
        /\ shown < MaxChars /\ shown' = shown + 1 /\ mode' = mode
    BY <1>2, <1>5, NotedFacts DEF Printable
  <2>2. CASE MustWrap
    BY <1>5, <2>1, <2>2, NewlineTypes DEF Printable
  <2>3. CASE ~MustWrap
    <3>1. /\ fb' \in Pixels /\ lines' \in Seq(Lines) /\ lines' # <<>>
          /\ cursor_x' = U32(cursor_x + CHAR_W) /\ UNCHANGED <<cursor_y, scrolls>>
      BY <1>5, <2>1, <2>3 DEF Printable
    <3>2. cursor_x' \in 0 .. Word - 1
      BY <1>1, <3>1, U32Facts, Fonts
    <3>3. shown' \in 0 .. MaxChars /\ scrolls' \in 0 .. shown'
      BY <2>1, <3>1, Fonts DEF ScreenTypes, TypeOK
    <3> QED
      BY <2>1, <3>1, <3>2, <3>3 DEF ScreenTypes, TypeOK, Pixels
  <2> QED
    BY <2>2, <2>3
<1>6. CASE Halted \/ UNCHANGED vars
  BY <1>6 DEF Halted, vars, ScreenTypes, TypeOK
<1> QED
  BY <1>3, <1>4, <1>5, <1>6 DEF Next

\* Every variable of the screen keeps its type, for every font and video mode; the
\* framebuffer keeps its extent: screen_putc and screen_scroll write nowhere else.
THEOREM ScreenTyped == Spec => []TypeOK
<1>1. ScreenTypes => TypeOK
  BY DEF ScreenTypes
<1> QED
  BY <1>1, ScreenTypesInit, ScreenTypesKept, PTL DEF Spec

-----------------------------------------------------------------------------
(* Where lines begin. *)

\* The cursor is a number of line heights below the margin, and above the lower one.
PageInv ==
    mode.height >= 2 * SCREEN_MARGIN =>
        /\ \E k \in Nat : cursor_y = SCREEN_MARGIN + k * CHAR_H
        /\ cursor_y <= mode.height - SCREEN_MARGIN

LEMMA PageNewline ==
    ASSUME ScreenTypes, PageInv, NEW pixels, NEW text, PrintNewline(pixels, text), mode' = mode
    PROVE  PageInv'
<1> SUFFICES ASSUME mode.height >= 2 * SCREEN_MARGIN
             PROVE  /\ \E k \in Nat : cursor_y' = SCREEN_MARGIN + k * CHAR_H
                    /\ cursor_y' <= mode.height - SCREEN_MARGIN
  BY DEF PageInv
<1>1. PICK k \in Nat : cursor_y = SCREEN_MARGIN + k * CHAR_H
  BY DEF PageInv
<1>2. /\ cursor_y \in 0 .. Word - 1 /\ cursor_y <= mode.height - SCREEN_MARGIN
      /\ mode.height \in Nat /\ mode.height + CHAR_H < Word
  BY ModeFacts DEF PageInv, ScreenTypes, TypeOK
<1>3. /\ U32(cursor_y + CHAR_H) = cursor_y + CHAR_H
      /\ U32(mode.height - SCREEN_MARGIN) = mode.height - SCREEN_MARGIN
  <2>1. cursor_y + CHAR_H \in 0 .. Word - 1 /\ mode.height - SCREEN_MARGIN \in 0 .. Word - 1
    BY <1>2, Fonts
  <2> QED
    BY <2>1, U32Facts
<1>4. CASE MustScroll
  <2>1. cursor_y' = cursor_y
    BY <1>2, <1>4, U32Back, Fonts DEF PrintNewline
  <2> QED
    BY <1>1, <1>2, <2>1
<1>5. CASE ~MustScroll
  <2>1. cursor_y' = cursor_y + CHAR_H /\ cursor_y + CHAR_H <= mode.height - SCREEN_MARGIN
    BY <1>2, <1>3, <1>5, Fonts DEF PrintNewline, MustScroll
  <2>2. k + 1 \in Nat /\ SCREEN_MARGIN + (k + 1) * CHAR_H = cursor_y + CHAR_H
    BY <1>1, TimesNext, Fonts
  <2> QED
    BY <2>1, <2>2
<1> QED
  BY <1>4, <1>5

\* The next line always starts inside the margins, on a multiple of the line height
\* (screen.c:146-153).
THEOREM CursorStaysOnPage == Spec => []CursorOnPage
<1>1. Init => PageInv
  <2> SUFFICES ASSUME Init, mode.height >= 2 * SCREEN_MARGIN
               PROVE  /\ \E k \in Nat : cursor_y = SCREEN_MARGIN + k * CHAR_H
                      /\ cursor_y <= mode.height - SCREEN_MARGIN
    BY DEF PageInv
  <2>1. cursor_y = SCREEN_MARGIN + 0 * CHAR_H
    BY Fonts DEF Init
  <2>2. cursor_y <= mode.height - SCREEN_MARGIN
    BY ModeFacts, Fonts DEF Init
  <2> QED
    BY <2>1, <2>2
<1>2. ScreenTypes /\ PageInv /\ [Next]_vars => PageInv'
  <2> SUFFICES ASSUME ScreenTypes, PageInv, [Next]_vars PROVE PageInv'
    OBVIOUS
  <2>1. mode' = mode
    BY DEF Next, Newline, Unprintable, Printable, Halted, vars
  <2>2. \/ UNCHANGED cursor_y
        \/ \E pixels, text : PrintNewline(pixels, text)
    BY Zenon DEF Next, Newline, Unprintable, Printable, Halted, vars
  <2> QED
    BY <2>1, <2>2, PageNewline DEF PageInv
<1>3. ScreenTypes /\ PageInv => CursorOnPage
  <2> SUFFICES ASSUME ScreenTypes, PageInv, mode.height >= 2 * SCREEN_MARGIN
               PROVE  /\ cursor_y \in SCREEN_MARGIN .. mode.height - SCREEN_MARGIN
                      /\ (cursor_y - SCREEN_MARGIN) % CHAR_H = 0
    BY DEF CursorOnPage
  <2>1. PICK k \in Nat : cursor_y = SCREEN_MARGIN + k * CHAR_H
    BY DEF PageInv
  <2>2. cursor_y <= mode.height - SCREEN_MARGIN /\ k * CHAR_H \in Nat /\ mode.height \in Nat
    BY ModeFacts, Fonts, TimesMonotone DEF PageInv, ScreenTypes, TypeOK
  <2>3. cursor_y - SCREEN_MARGIN = k * CHAR_H + 0 /\ CHAR_H > 0
    BY <2>1, <2>2, Fonts
  <2>4. (k * CHAR_H + 0) % CHAR_H = 0
    BY <2>3, AddressSplits, Fonts
  <2> QED
    BY <2>1, <2>2, <2>3, <2>4, Fonts
<1> QED
  BY <1>1, <1>2, <1>3, ScreenTypesInit, ScreenTypesKept, PTL DEF Spec

-----------------------------------------------------------------------------
(* The right margin. *)

Edge == mode.width - SCREEN_MARGIN - CHAR_W

\* A printable character of a text beyond the edge comes behind an unprintable one.
Pushed(text) ==
    \A k \in DOMAIN text : \A i \in DOMAIN text[k].cells :
        text[k].cells[i].kind = "printable" /\ text[k].cells[i].x > Edge =>
            i > 1 /\ text[k].cells[i - 1].kind = "unprintable"

\* The cursor is beyond the edge only behind an unprintable character.
EdgeInv ==
    mode.width >= 2 * SCREEN_MARGIN + CHAR_W =>
        /\ Pushed(lines)
        /\ cursor_x > Edge =>
              LET cells == lines[Len(lines)].cells
              IN  cells # <<>> /\ cells[Len(cells)].kind = "unprintable"

LEMMA EdgeNoted ==
    ASSUME ScreenTypes, shown < MaxChars, EdgeInv, mode.width >= 2 * SCREEN_MARGIN + CHAR_W,
           NEW kind \in {"printable", "unprintable"}
    PROVE  Pushed(Noted(kind))
<1> DEFINE text == Noted(kind)
           n == Len(lines)
           old == lines[n].cells
           cell == [x |-> cursor_x, ink |-> shown + 1, kind |-> kind]
<1>1. /\ text \in Seq(Lines) /\ Len(text) = n
      /\ \A k \in 1 .. n : k # n => text[k] = lines[k]
      /\ text[n].cells = Append(old, cell)
  BY NotedFacts
<1>2. lines \in Seq(Lines) /\ n \in 1 .. Len(lines) /\ old \in Seq(Cells) /\ DOMAIN lines = 1 .. n
  BY LastLine DEF ScreenTypes
<1>3. /\ Len(old) \in Nat /\ Len(Append(old, cell)) = Len(old) + 1
      /\ DOMAIN Append(old, cell) = 1 .. Len(old) + 1 /\ DOMAIN old = 1 .. Len(old)
      /\ Append(old, cell)[Len(old) + 1] = cell
      /\ \A i \in 1 .. Len(old) : Append(old, cell)[i] = old[i]
  BY <1>2
<1>4. Pushed(lines) /\ (cursor_x > Edge => old # <<>> /\ old[Len(old)].kind = "unprintable")
  BY DEF EdgeInv
<1>5. cell.x = cursor_x
  OBVIOUS
<1> HIDE DEF text, cell, old
<1>6. SUFFICES ASSUME NEW k \in DOMAIN text, NEW i \in DOMAIN text[k].cells,
                      text[k].cells[i].kind = "printable", text[k].cells[i].x > Edge
               PROVE  i > 1 /\ text[k].cells[i - 1].kind = "unprintable"
  BY DEF Pushed, text
<1>7. k \in 1 .. n /\ DOMAIN text = DOMAIN lines
  BY <1>1, <1>2
<1>8. CASE k # n
  <2>1. text[k] = lines[k] /\ k \in DOMAIN lines
    BY <1>1, <1>7, <1>8
  <2> QED
    BY <1>4, <1>6, <2>1 DEF Pushed
<1>9. CASE k = n /\ i \in 1 .. Len(old)
  <2>1. text[n].cells[i] = old[i] /\ i \in DOMAIN old /\ n \in DOMAIN lines
    BY <1>1, <1>2, <1>3, <1>9
  <2>2. i > 1 /\ old[i - 1].kind = "unprintable"
    BY <1>4, <1>6, <1>9, <2>1 DEF Pushed, old
  <2>3. text[n].cells[i - 1] = old[i - 1]
    BY <1>1, <1>3, <1>9, <2>2
  <2> QED
    BY <1>9, <2>2, <2>3
<1>10. CASE k = n /\ i \notin 1 .. Len(old)
  <2>1. i = Len(old) + 1 /\ text[n].cells[i] = cell
    BY <1>1, <1>3, <1>10
  <2>2. old # <<>> /\ old[Len(old)].kind = "unprintable"
    BY <1>4, <1>5, <1>6, <1>10, <2>1
  <2>3. Len(old) > 0
    BY <1>2, <2>2
  <2>4. i > 1 /\ i - 1 = Len(old) /\ Len(old) \in 1 .. Len(old)
    BY <1>3, <2>1, <2>3
  <2>5. text[n].cells[i - 1] = old[Len(old)]
    BY <1>1, <1>3, <2>4
  <2> QED
    BY <1>10, <2>2, <2>4, <2>5
<1> QED
  BY <1>7, <1>8, <1>9, <1>10

LEMMA EdgeNewline ==
    ASSUME mode \in Modes, mode.width >= 2 * SCREEN_MARGIN + CHAR_W, NEW pixels,
           NEW text \in Seq(Lines), Pushed(text), PrintNewline(pixels, text), mode' = mode
    PROVE  EdgeInv'
<1> DEFINE line == [y |-> cursor_y', since |-> scrolls', cells |-> <<>>]
<1>1. lines' = Append(text, line) /\ cursor_x' = SCREEN_MARGIN /\ line.cells = <<>>
  BY DEF PrintNewline
<1>2. ~(cursor_x' > Edge')
  BY <1>1, ModeFacts, Fonts DEF Edge
<1>3. Pushed(lines)'
  <2> HIDE DEF line
  <2>1. SUFFICES ASSUME NEW k \in DOMAIN lines', NEW i \in DOMAIN lines'[k].cells,
                        lines'[k].cells[i].kind = "printable", lines'[k].cells[i].x > Edge
                 PROVE  i > 1 /\ lines'[k].cells[i - 1].kind = "unprintable"
    BY DEF Pushed, Edge
  <2>2. k \in DOMAIN text \/ lines'[k] = line
    BY <1>1
  <2>3. lines'[k] # line
    BY <1>1
  <2>4. k \in DOMAIN text /\ lines'[k] = text[k]
    BY <1>1, <2>2, <2>3
  <2> QED
    BY <2>1, <2>4 DEF Pushed
<1> QED
  BY <1>2, <1>3 DEF EdgeInv

\* A printable character beyond the right margin was pushed there by unprintable ones,
\* which do not wrap (tty.c:82-94).
THEOREM OverrunIsPushed == Spec => []OnlyUnprintablesOverrun
<1>1. Init => EdgeInv
  <2> SUFFICES ASSUME Init, mode.width >= 2 * SCREEN_MARGIN + CHAR_W PROVE EdgeInv
    BY DEF EdgeInv
  <2>1. ~(cursor_x > Edge)
    BY ModeFacts, Fonts DEF Init, Edge
  <2>2. Pushed(lines)
    BY DEF Init, Pushed
  <2> QED
    BY <2>1, <2>2 DEF EdgeInv
<1>2. ScreenTypes /\ EdgeInv /\ [Next]_vars => EdgeInv'
  <2> SUFFICES ASSUME ScreenTypes, EdgeInv, [Next]_vars, mode.width >= 2 * SCREEN_MARGIN + CHAR_W
               PROVE  EdgeInv'
    BY DEF EdgeInv, Next, Newline, Unprintable, Printable, Halted, vars
  <2>0. mode \in Modes /\ lines \in Seq(Lines) /\ Pushed(lines)
    BY DEF ScreenTypes, TypeOK, EdgeInv
  <2>1. CASE Newline
    BY <2>0, <2>1, EdgeNewline DEF Newline
  <2>2. CASE Unprintable
    <3>1. /\ shown < MaxChars /\ mode' = mode /\ lines' = Noted("unprintable")
      BY <2>2 DEF Unprintable
    <3>2. Pushed(lines)'
      BY <3>1, EdgeNoted DEF Pushed, Edge
    <3>3. LET cells == lines'[Len(lines')].cells
          IN  cells # <<>> /\ cells[Len(cells)].kind = "unprintable"
      <4> DEFINE old == lines[Len(lines)].cells
                 cell == [x |-> cursor_x, ink |-> shown + 1, kind |-> "unprintable"]
      <4>1. lines'[Len(lines')].cells = Append(old, cell)
        BY <3>1, NotedFacts
      <4>2. old \in Seq(Cells)
        BY LastLine
      <4>3. cell.kind = "unprintable"
        OBVIOUS
      <4> HIDE DEF old, cell
      <4>4. Len(Append(old, cell)) = Len(old) + 1 /\ Append(old, cell)[Len(old) + 1] = cell
            /\ Append(old, cell) # <<>>
        BY <4>2
      <4> QED
        BY <4>1, <4>3, <4>4
    <3> QED
      BY <3>2, <3>3 DEF EdgeInv
  <2>3. CASE Printable
    <3>1. shown < MaxChars /\ mode' = mode
      BY <2>3 DEF Printable
    <3>2. Pushed(Noted("printable")) /\ Noted("printable") \in Seq(Lines)
      BY <3>1, EdgeNoted, NotedFacts
    <3>3. CASE MustWrap
      BY <2>0, <2>3, <3>1, <3>2, <3>3, EdgeNewline DEF Printable
    <3>4. CASE ~MustWrap
      <4>1. cursor_x' = U32(cursor_x + CHAR_W) /\ lines' = Noted("printable")
        BY <2>3, <3>4 DEF Printable
      <4>2. U32(Edge) = Edge /\ U32(cursor_x + CHAR_W) \in Nat
        <5>1. Edge \in 0 .. Word - 1 /\ cursor_x + CHAR_W \in Int
          <6>1. cursor_x \in Int /\ CHAR_W \in Int
            BY Fonts DEF ScreenTypes, TypeOK
          <6>2. PICK w \in Nat : w = mode.width
            BY <2>0, ModeFacts
          <6>3. w >= 2 * SCREEN_MARGIN + CHAR_W /\ w < Word
            BY <2>0, <6>2, ModeFacts, Fonts
          <6>4. w - SCREEN_MARGIN - CHAR_W \in 0 .. Word - 1
            BY <6>2, <6>3, Fonts
          <6> QED
            BY <6>1, <6>2, <6>4 DEF Edge
        <5> QED
          BY <5>1, U32Facts, Fonts
      <4>3. ~(cursor_x' > Edge')
        BY <3>1, <3>4, <4>1, <4>2 DEF MustWrap, Edge
      <4>4. Pushed(lines)'
        BY <3>1, <3>2, <4>1 DEF Pushed, Edge
      <4> QED
        BY <4>3, <4>4 DEF EdgeInv
    <3> QED
      BY <3>3, <3>4
  <2>4. CASE Halted \/ UNCHANGED vars
    BY <2>4 DEF Halted, vars, EdgeInv, Pushed, Edge
  <2> QED
    BY <2>1, <2>2, <2>3, <2>4 DEF Next
<1>3. EdgeInv => OnlyUnprintablesOverrun
  BY DEF EdgeInv, Pushed, Edge, OnlyUnprintablesOverrun
<1> QED
  BY <1>1, <1>2, <1>3, ScreenTypesInit, ScreenTypesKept, PTL DEF Spec

-----------------------------------------------------------------------------
(* The text on the screen. *)

At(x, y) == y * mode.stride + x

\* Where line k of text t is after s scrolls, and whether its character i covers a pixel.
TopOf(t, s, k) == t[k].y - CHAR_H * (s - t[k].since)

Covered(t, s, k, i, x, y) ==
    /\ y - TopOf(t, s, k) \in 0 .. CHAR_HEIGHT - 1
    /\ t[k].y + (y - TopOf(t, s, k)) < mode.height
    /\ x - t[k].cells[i].x \in 0 .. CHAR_WIDTH - 1

\* The pixels show the text.
Pictures(p, t, s) ==
    \A x \in 0 .. mode.width - 1, y \in 0 .. mode.height - 1 :
        /\ \A k \in DOMAIN t : \A i \in DOMAIN t[k].cells :
              Covered(t, s, k, i, x, y) => p[At(x, y)] = t[k].cells[i].ink
        /\ (\A k \in DOMAIN t : \A i \in DOMAIN t[k].cells : ~Covered(t, s, k, i, x, y)) =>
              p[At(x, y)] = Black

\* The last line stands at the cursor and the others above it.
Placed(t, s, y) ==
    /\ \A k \in DOMAIN t : t[k].since \in 0 .. s
    /\ t[Len(t)].y = y /\ t[Len(t)].since = s
    /\ \A k \in DOMAIN t : k # Len(t) => TopOf(t, s, k) + CHAR_H <= y

\* The characters of the last line end before column x.
Before(t, x) == \A i \in DOMAIN t[Len(t)].cells : t[Len(t)].cells[i].x + CHAR_W <= x

LEMMA TopFacts ==
    ASSUME NEW t \in Seq(Lines), NEW s \in Nat, \A k \in DOMAIN t : t[k].since \in 0 .. s,
           NEW k \in DOMAIN t
    PROVE  /\ TopOf(t, s, k) \in Int /\ TopOf(t, s, k) <= t[k].y /\ t[k].y \in Nat
           /\ TopOf(t, s + 1, k) = TopOf(t, s, k) - CHAR_H
           /\ t[k].since = s => TopOf(t, s, k) = t[k].y
<1>1. t[k] \in Lines
  OBVIOUS
<1>2. PICK y \in Nat : y = t[k].y
  BY <1>1, Fonts DEF Lines
<1>3. PICK e \in Nat : e = s - t[k].since
  OBVIOUS
<1>4. s + 1 - t[k].since = e + 1
  BY <1>3
<1>5. CHAR_H * e \in Nat /\ CHAR_H * (e + 1) = CHAR_H * e + CHAR_H /\ CHAR_H * 0 = 0
  BY Fonts, TimesNext
<1>6. TopOf(t, s, k) = y - CHAR_H * e /\ TopOf(t, s + 1, k) = y - CHAR_H * (e + 1)
  <2>1. TopOf(t, s, k) = t[k].y - CHAR_H * (s - t[k].since)
    BY DEF TopOf
  <2>2. TopOf(t, s + 1, k) = t[k].y - CHAR_H * (s + 1 - t[k].since)
    BY DEF TopOf
  <2> QED
    BY <1>2, <1>3, <1>4, <2>1, <2>2, Zenon
<1>7. t[k].since = s => e = 0
  BY <1>3
<1>8. /\ TopOf(t, s, k) \in Int /\ TopOf(t, s, k) <= y
      /\ TopOf(t, s + 1, k) = TopOf(t, s, k) - CHAR_H
      /\ e = 0 => TopOf(t, s, k) = y
  <2>1. PICK d \in Nat : d = CHAR_H * e
    BY <1>5
  <2>2. TopOf(t, s, k) = y - d /\ TopOf(t, s + 1, k) = y - (d + CHAR_H)
    BY <1>5, <1>6, <2>1, Zenon
  <2>3. e = 0 => d = 0
    BY <1>5, <2>1
  <2> QED
    BY <2>2, <2>3, Fonts
<1> QED
  BY <1>2, <1>7, <1>8, Zenon

\* The pixels of the screen a glyph is drawn on, where the coordinates do not wrap.
LEMMA BoxPixels ==
    ASSUME mode \in Modes, NEW cx \in Nat, NEW cy \in Nat, cx + CHAR_W < Word, cy + CHAR_H < Word,
           NEW x \in 0 .. mode.width - 1, NEW y \in 0 .. mode.height - 1
    PROVE  At(x, y) \in Box(cx, cy) <=>
              x - cx \in 0 .. CHAR_WIDTH - 1 /\ y - cy \in 0 .. CHAR_HEIGHT - 1
<1>1. /\ \A r \in 0 .. CHAR_HEIGHT - 1 : U32(cy + r) = cy + r /\ cy + r \in Nat
      /\ \A q \in 0 .. CHAR_WIDTH - 1 : U32(cx + q) = cx + q /\ cx + q \in Nat
  <2>1. /\ \A r \in 0 .. CHAR_HEIGHT - 1 : cy + r \in 0 .. Word - 1
        /\ \A q \in 0 .. CHAR_WIDTH - 1 : cx + q \in 0 .. Word - 1
    BY Fonts
  <2> QED
    BY <2>1, U32Facts
<1>2. mode.width \in Nat /\ mode.height \in Nat /\ mode.stride \in Nat /\ mode.width <= mode.stride
  BY ModeFacts
<1>3. ASSUME At(x, y) \in Box(cx, cy)
      PROVE  x - cx \in 0 .. CHAR_WIDTH - 1 /\ y - cy \in 0 .. CHAR_HEIGHT - 1
  <2>1. PICK r \in 0 .. CHAR_HEIGHT - 1, q \in 0 .. CHAR_WIDTH - 1 :
          /\ U32(cy + r) < mode.height /\ U32(cx + q) < mode.width
          /\ At(x, y) = U32(cy + r) * mode.stride + U32(cx + q)
    BY <1>3 DEF Box
  <2>2. /\ cy + r \in Nat /\ cx + q \in Nat /\ cx + q < mode.stride
        /\ y * mode.stride + x = (cy + r) * mode.stride + (cx + q)
    BY <1>1, <1>2, <2>1 DEF At
  <2>3. x \in Nat /\ y \in Nat /\ x < mode.stride
    BY <1>2
  <2>4. y = cy + r /\ x = cx + q
    BY <1>2, <2>2, <2>3, AddressDiffers
  <2> QED
    BY <2>4, Fonts
<1>4. ASSUME x - cx \in 0 .. CHAR_WIDTH - 1, y - cy \in 0 .. CHAR_HEIGHT - 1
      PROVE  At(x, y) \in Box(cx, cy)
  <2>1. /\ cy + (y - cy) = y /\ cx + (x - cx) = x
        /\ U32(cy + (y - cy)) = y /\ U32(cx + (x - cx)) = x
        /\ y < mode.height /\ x < mode.width
    BY <1>1, <1>2, <1>4
  <2> DEFINE R == {q \in 0 .. CHAR_HEIGHT - 1 : U32(cy + q) < mode.height}
             Q == {q \in 0 .. CHAR_WIDTH - 1 : U32(cx + q) < mode.width}
  <2>2. PICK r : r = y - cy
    OBVIOUS
  <2>3. PICK q : q = x - cx
    OBVIOUS
  <2>4. r \in R /\ q \in Q
    BY <1>4, <2>1, <2>2, <2>3
  <2>5. At(x, y) = U32(cy + r) * mode.stride + U32(cx + q)
    BY <2>1, <2>2, <2>3 DEF At
  <2>6. Box(cx, cy) = {U32(cy + a) * mode.stride + U32(cx + b) : a \in R, b \in Q}
    BY DEF Box
  <2> HIDE DEF R, Q
  <2> QED
    BY <2>4, <2>5, <2>6
<1> QED
  BY <1>3, <1>4

\* A character drawn at the cursor joins the picture and hides nothing.
LEMMA DrawnAtCursor ==
    ASSUME ScreenTypes, shown < MaxChars, NEW kind \in {"printable", "unprintable"},
           Placed(lines, scrolls, cursor_y), Before(lines, cursor_x),
           cursor_x + CHAR_W < Word, cursor_y + CHAR_H < Word
    PROVE  /\ Placed(Noted(kind), scrolls, cursor_y)
           /\ Before(Noted(kind), cursor_x + CHAR_W)
           /\ Pictures(fb, lines, scrolls) =>
                 Pictures(Glyph(fb, cursor_x, cursor_y, shown + 1), Noted(kind), scrolls)
<1> DEFINE t == Noted(kind)
           n == Len(lines)
           old == lines[n].cells
           cell == [x |-> cursor_x, ink |-> shown + 1, kind |-> kind]
           p == Glyph(fb, cursor_x, cursor_y, shown + 1)
<1>1. /\ t \in Seq(Lines) /\ Len(t) = n
      /\ \A k \in 1 .. n : k # n => t[k] = lines[k]
      /\ t[n].y = lines[n].y /\ t[n].since = lines[n].since
      /\ t[n].cells = Append(old, cell)
  BY NotedFacts
<1>2. /\ lines \in Seq(Lines) /\ n \in Nat /\ n \in 1 .. n /\ old \in Seq(Cells)
      /\ DOMAIN lines = 1 .. n /\ DOMAIN t = 1 .. n
  BY <1>1, LastLine DEF ScreenTypes
<1>3. /\ cursor_x \in Nat /\ cursor_y \in Nat /\ scrolls \in Nat /\ mode \in Modes /\ shown \in Nat
      /\ fb \in Pixels
  BY Fonts DEF ScreenTypes, TypeOK, Pixels
<1>4. cell.x = cursor_x /\ cell.ink = shown + 1
  OBVIOUS
<1> HIDE DEF t, cell
<1>5. /\ Len(old) \in Nat /\ DOMAIN old = 1 .. Len(old)
      /\ DOMAIN Append(old, cell) = 1 .. Len(old) + 1
      /\ Append(old, cell)[Len(old) + 1] = cell
      /\ \A i \in 1 .. Len(old) : Append(old, cell)[i] = old[i]
  BY <1>2
<1> HIDE DEF old
<1>6. \A k \in DOMAIN lines : t[k].y = lines[k].y /\ t[k].since = lines[k].since
  BY <1>1, <1>2
<1>7. \A k \in DOMAIN lines : TopOf(t, scrolls, k) = TopOf(lines, scrolls, k)
  BY <1>6 DEF TopOf
<1>8. Placed(t, scrolls, cursor_y)
  <2>1. \A k \in DOMAIN t : t[k].since \in 0 .. scrolls
    BY <1>2, <1>6 DEF Placed
  <2>2. t[Len(t)].y = cursor_y /\ t[Len(t)].since = scrolls
    BY <1>1 DEF Placed
  <2>3. \A k \in DOMAIN t : k # Len(t) => TopOf(t, scrolls, k) + CHAR_H <= cursor_y
    BY <1>1, <1>2, <1>7 DEF Placed
  <2> QED
    BY <2>1, <2>2, <2>3 DEF Placed
<1>9. Before(t, cursor_x + CHAR_W)
  <2> SUFFICES ASSUME NEW i \in 1 .. Len(old) + 1
               PROVE  Append(old, cell)[i].x + CHAR_W <= cursor_x + CHAR_W
    BY <1>1, <1>5 DEF Before
  <2>1. CASE i = Len(old) + 1
    BY <1>3, <1>4, <1>5, <2>1, Fonts
  <2>2. CASE i \in 1 .. Len(old)
    <3>1. old[i] \in Cells /\ Append(old, cell)[i] = old[i] /\ old[i].x + CHAR_W <= cursor_x
      BY <1>2, <1>5, <2>2 DEF Before, old
    <3>2. PICK v \in Nat : v = old[i].x
      BY <3>1, Fonts DEF Cells
    <3>3. v + CHAR_W <= cursor_x
      BY <3>1, <3>2, Zenon
    <3>4. v + CHAR_W <= cursor_x + CHAR_W
      <4>1. v + CHAR_W \in Int /\ cursor_x + CHAR_W \in Int /\ cursor_x \in Int
            /\ cursor_x <= cursor_x + CHAR_W
        <5>1. v \in Nat /\ cursor_x \in Nat
          BY <1>3, Zenon
        <5> QED
          BY <5>1, Fonts
      <4> QED
        BY <3>3, <4>1, AtMost
    <3> QED
      BY <3>1, <3>2, <3>4, Zenon
  <2> QED
    BY <1>5, <2>1, <2>2
<1>10. ASSUME Pictures(fb, lines, scrolls) PROVE Pictures(p, t, scrolls)
  <2> SUFFICES ASSUME NEW x \in 0 .. mode.width - 1, NEW y \in 0 .. mode.height - 1
               PROVE  /\ \A k \in DOMAIN t : \A i \in DOMAIN t[k].cells :
                            Covered(t, scrolls, k, i, x, y) => p[At(x, y)] = t[k].cells[i].ink
                      /\ (\A k \in DOMAIN t : \A i \in DOMAIN t[k].cells :
                              ~Covered(t, scrolls, k, i, x, y)) => p[At(x, y)] = Black
    BY DEF Pictures
  <2>1. At(x, y) \in DOMAIN fb
    <3>1. mode.width \in Nat /\ mode.height \in Nat /\ mode.stride \in Nat /\ mode.width <= mode.stride
      BY <1>3, ModeFacts
    <3>2. At(x, y) \in 0 .. mode.height * mode.stride - 1
      BY <3>1, AddressFits DEF At
    <3> QED
      BY <1>3, <3>2 DEF Pixels
  <2>2. p[At(x, y)] = IF At(x, y) \in Box(cursor_x, cursor_y) THEN shown + 1 ELSE fb[At(x, y)]
    BY <2>1 DEF Glyph
  <2> HIDE DEF p
  <2>3. At(x, y) \in Box(cursor_x, cursor_y) <=>
           x - cursor_x \in 0 .. CHAR_WIDTH - 1 /\ y - cursor_y \in 0 .. CHAR_HEIGHT - 1
    BY <1>3, BoxPixels
  <2>4. At(x, y) \in Box(cursor_x, cursor_y) <=> Covered(t, scrolls, n, Len(old) + 1, x, y)
    <3>1. t[n].y = cursor_y /\ TopOf(t, scrolls, n) = cursor_y
      <4>1. t[n].since = scrolls /\ t[n].y = cursor_y
        BY <1>1, <1>8 DEF Placed
      <4>2. scrolls - scrolls = 0 /\ cursor_y - CHAR_H * 0 = cursor_y
        BY <1>3, Fonts
      <4> QED
        BY <4>1, <4>2, Zenon DEF TopOf
    <3>2. t[n].cells[Len(old) + 1].x = cursor_x
      BY <1>1, <1>4, <1>5, Zenon
    <3>3. cursor_y + (y - cursor_y) < mode.height
      BY <1>3, ModeFacts
    <3> QED
      BY <2>3, <3>1, <3>2, <3>3, Zenon DEF Covered
  <2>5. \A k \in DOMAIN t : \A i \in DOMAIN t[k].cells :
           \/ k = n /\ i = Len(old) + 1
           \/ /\ k \in DOMAIN lines /\ i \in DOMAIN lines[k].cells
              /\ t[k].cells[i] = lines[k].cells[i]
    <3>1. ASSUME NEW k \in DOMAIN t, k = n, NEW i \in DOMAIN t[k].cells, i # Len(old) + 1
          PROVE  i \in DOMAIN lines[k].cells /\ t[k].cells[i] = lines[k].cells[i]
      <4>1. i \in 1 .. Len(old)
        BY <1>1, <1>5, <3>1
      <4> QED
        BY <1>1, <1>5, <3>1, <4>1, Zenon DEF old
    <3>2. ASSUME NEW k \in DOMAIN t, k # n, NEW i \in DOMAIN t[k].cells
          PROVE  i \in DOMAIN lines[k].cells /\ t[k].cells[i] = lines[k].cells[i]
      BY <1>1, <1>2, <3>2, Zenon
    <3> QED
      BY <1>2, <3>1, <3>2, Zenon
  <2>6. \A k \in DOMAIN lines : \A i \in DOMAIN lines[k].cells :
           /\ k \in DOMAIN t /\ i \in DOMAIN t[k].cells /\ t[k].cells[i] = lines[k].cells[i]
           /\ Covered(t, scrolls, k, i, x, y) <=> Covered(lines, scrolls, k, i, x, y)
    <3> SUFFICES ASSUME NEW k \in DOMAIN lines, NEW i \in DOMAIN lines[k].cells
                 PROVE  /\ k \in DOMAIN t /\ i \in DOMAIN t[k].cells
                        /\ t[k].cells[i] = lines[k].cells[i]
                        /\ Covered(t, scrolls, k, i, x, y) <=> Covered(lines, scrolls, k, i, x, y)
      BY Zenon
    <3>1. i \in DOMAIN t[k].cells /\ t[k].cells[i] = lines[k].cells[i]
      <4>1. CASE k = n
        <5>1. i \in 1 .. Len(old)
          BY <1>5, <4>1 DEF old
        <5>2. i \in 1 .. Len(old) + 1
          BY <1>5, <5>1
        <5> QED
          BY <1>1, <1>5, <4>1, <5>1, <5>2, Zenon DEF old
      <4>2. CASE k # n
        BY <1>1, <1>2, <4>2, Zenon
      <4> QED
        BY <4>1, <4>2
    <3> QED
      BY <1>2, <1>6, <1>7, <3>1, Zenon DEF Covered
  <2>7. \A k \in DOMAIN lines : \A i \in DOMAIN lines[k].cells :
           Covered(lines, scrolls, k, i, x, y) => At(x, y) \notin Box(cursor_x, cursor_y)
    <3> SUFFICES ASSUME NEW k \in DOMAIN lines, NEW i \in DOMAIN lines[k].cells,
                        Covered(lines, scrolls, k, i, x, y),
                        At(x, y) \in Box(cursor_x, cursor_y)
                 PROVE  FALSE
      OBVIOUS
    <3>1. x - cursor_x \in 0 .. CHAR_WIDTH - 1 /\ y - cursor_y \in 0 .. CHAR_HEIGHT - 1
          /\ x \in Int /\ y \in Int
      BY <1>3, <2>3, ModeFacts
    <3>0. /\ cursor_x \in Int /\ cursor_y \in Int /\ CHAR_W \in Int /\ CHAR_H \in Int
          /\ CHAR_WIDTH \in Int /\ CHAR_HEIGHT \in Int
          /\ CHAR_WIDTH <= CHAR_W /\ CHAR_HEIGHT <= CHAR_H
      BY <1>3, Fonts
    <3>2. CASE k = n
      <4>1. i \in 1 .. Len(old) /\ old[i] \in Cells /\ old[i].x + CHAR_W <= cursor_x
        BY <1>2, <1>5, <3>2 DEF Before, old
      <4>2. PICK v \in Int : v = old[i].x
        BY <4>1, Fonts DEF Cells
      <4>3. x - v \in 0 .. CHAR_WIDTH - 1
        BY <3>2, <4>2 DEF Covered, old
      <4>4. v + CHAR_W <= cursor_x
        BY <4>1, <4>2, Zenon
      <4> QED
        BY <3>0, <3>1, <4>3, <4>4, Apart
    <3>3. CASE k # n
      <4>1. PICK v \in Int : v = TopOf(lines, scrolls, k)
        BY <1>2, <1>3, TopFacts DEF Placed
      <4>2. v + CHAR_H <= cursor_y
        BY <3>3, <4>1 DEF Placed
      <4>3. y - v \in 0 .. CHAR_HEIGHT - 1
        BY <4>1 DEF Covered
      <4> QED
        BY <3>0, <3>1, <4>2, <4>3, Apart
    <3> QED
      BY <3>2, <3>3
  <2>8. n \in DOMAIN t /\ Len(old) + 1 \in DOMAIN t[n].cells
        /\ t[n].cells[Len(old) + 1].ink = shown + 1
    <3>1. Len(old) + 1 \in 1 .. Len(old) + 1
      BY <1>5
    <3> QED
      BY <1>1, <1>2, <1>4, <1>5, <3>1, Zenon
  <2>9. /\ \A k \in DOMAIN lines : \A i \in DOMAIN lines[k].cells :
              Covered(lines, scrolls, k, i, x, y) => fb[At(x, y)] = lines[k].cells[i].ink
        /\ (\A k \in DOMAIN lines : \A i \in DOMAIN lines[k].cells :
                ~Covered(lines, scrolls, k, i, x, y)) => fb[At(x, y)] = Black
    BY <1>10 DEF Pictures
  <2>10. CASE At(x, y) \in Box(cursor_x, cursor_y)
    <3>1. p[At(x, y)] = shown + 1
      BY <2>2, <2>10
    <3>2. \A k \in DOMAIN t : \A i \in DOMAIN t[k].cells :
             Covered(t, scrolls, k, i, x, y) => k = n /\ i = Len(old) + 1
      BY <2>5, <2>6, <2>7, <2>10, Zenon
    <3> QED
      BY <2>4, <2>8, <2>10, <3>1, <3>2, Zenon
  <2>11. CASE At(x, y) \notin Box(cursor_x, cursor_y)
    <3>1. p[At(x, y)] = fb[At(x, y)]
      BY <2>2, <2>11
    <3>2. ASSUME NEW k \in DOMAIN t, NEW i \in DOMAIN t[k].cells, Covered(t, scrolls, k, i, x, y)
          PROVE  p[At(x, y)] = t[k].cells[i].ink
      <4>1. ~(k = n /\ i = Len(old) + 1)
        BY <2>4, <2>11, <3>2, Zenon
      <4>2. /\ k \in DOMAIN lines /\ i \in DOMAIN lines[k].cells
            /\ t[k].cells[i] = lines[k].cells[i]
        BY <2>5, <4>1, Zenon
      <4> QED
        BY <2>6, <2>9, <3>1, <3>2, <4>2, Zenon
    <3>3. ASSUME \A k \in DOMAIN t : \A i \in DOMAIN t[k].cells : ~Covered(t, scrolls, k, i, x, y)
          PROVE  p[At(x, y)] = Black
      BY <2>6, <2>9, <3>1, <3>3, Zenon
    <3> QED
      BY <3>2, <3>3
  <2> QED
    BY <2>10, <2>11
<1> QED
  BY <1>8, <1>9, <1>10 DEF t

\* Scrolling moves the picture of every line up by a line height.
LEMMA ScrolledPicture ==
    ASSUME mode \in Modes, mode.stride = mode.width, NEW p \in Pixels,
           NEW t \in Seq(Lines), NEW s \in Nat, \A k \in DOMAIN t : t[k].since \in 0 .. s,
           Pictures(p, t, s)
    PROVE  Pictures(Scroll(p, CHAR_H), t, s + 1)
<1> DEFINE h == mode.height
           w == mode.width
<1>1. h \in Nat /\ w \in Nat /\ mode.stride = w
  BY ModeFacts
<1>2. DOMAIN p = 0 .. h * w - 1
  BY <1>1 DEF Pixels
<1> SUFFICES ASSUME NEW x \in 0 .. w - 1, NEW y \in 0 .. h - 1
             PROVE  /\ \A k \in DOMAIN t : \A i \in DOMAIN t[k].cells :
                          Covered(t, s + 1, k, i, x, y) =>
                              Scroll(p, CHAR_H)[At(x, y)] = t[k].cells[i].ink
                    /\ (\A k \in DOMAIN t : \A i \in DOMAIN t[k].cells :
                            ~Covered(t, s + 1, k, i, x, y)) => Scroll(p, CHAR_H)[At(x, y)] = Black
  BY DEF Pictures
<1> HIDE DEF h, w
<1>3. x \in Nat /\ y \in Nat /\ x < w /\ y < h /\ w > 0 /\ w # 0
  BY <1>1
<1>4. /\ At(x, y) = y * w + x /\ At(x, y + CHAR_H) = (y + CHAR_H) * w + x
      /\ At(x, y) \in DOMAIN p
      /\ At(x, y) \div w = y /\ At(x, y) % w = x
      /\ At(x, y) + CHAR_H * w = At(x, y + CHAR_H)
  <2>1. At(x, y) = y * w + x /\ At(x, y + CHAR_H) = (y + CHAR_H) * w + x
    BY <1>1 DEF At
  <2>2. y * w + x \in 0 .. h * w - 1
    BY <1>1, <1>3, AddressFits
  <2>3. (y * w + x) \div w = y /\ (y * w + x) % w = x
    <3>1. w \in Nat /\ y \in Nat /\ x \in Nat /\ x < w
      BY <1>1, <1>3
    <3> QED
      BY <3>1, AddressSplits
  <2>4. y * w + x + CHAR_H * w = (y + CHAR_H) * w + x
    BY <1>1, <1>3, Fonts
  <2> QED
    BY <1>2, <2>1, <2>2, <2>3, <2>4
<1>5. Scroll(p, CHAR_H)[At(x, y)] =
        IF y + CHAR_H < h THEN p[At(x, y + CHAR_H)] ELSE Black
  <2>1. Line = w
    BY <1>1, <1>3 DEF Line, w
  <2>2. At(x, y) \in Rows
    BY <1>4, <2>1 DEF Rows, h, w
  <2>3. Scroll(p, CHAR_H)[At(x, y)] =
          IF y + CHAR_H < h THEN p[At(x, y) + CHAR_H * w] ELSE Black
    <3>1. mode.stride # 0
      BY <1>1, <1>3
    <3>2. Scroll(p, CHAR_H) =
            [a \in DOMAIN p \cup Rows |->
                IF a \notin Rows THEN p[a]
                ELSE IF a \div w + CHAR_H < h THEN p[a + CHAR_H * w]
                ELSE Black]
      BY <2>1, <3>1, Zenon DEF Scroll, h
    <3> QED
      BY <1>4, <2>2, <3>2, Zenon
  <2> QED
    BY <1>4, <2>3, Zenon
<1>6. \A k \in DOMAIN t : \A i \in DOMAIN t[k].cells :
         Covered(t, s + 1, k, i, x, y) <=> y + CHAR_H < h /\ Covered(t, s, k, i, x, y + CHAR_H)
  <2> SUFFICES ASSUME NEW k \in DOMAIN t, NEW i \in DOMAIN t[k].cells
               PROVE  Covered(t, s + 1, k, i, x, y) <=>
                         y + CHAR_H < h /\ Covered(t, s, k, i, x, y + CHAR_H)
    OBVIOUS
  <2>1. PICK v \in Int : v = TopOf(t, s, k)
    BY TopFacts
  <2>2. PICK b \in Nat : b = t[k].y
    BY TopFacts
  <2>3. v <= b /\ TopOf(t, s + 1, k) = v - CHAR_H
    BY <2>1, <2>2, TopFacts
  <2>4. y - (v - CHAR_H) = (y + CHAR_H) - v
    BY <1>3, <2>1, Fonts
  <2>5. b + ((y + CHAR_H) - v) < h => y + CHAR_H < h
    <3>1. b \in Int /\ v \in Int
      OBVIOUS
    <3>2. v <= b
      BY <2>3, Zenon
    <3>3. y \in Int /\ h \in Int /\ CHAR_H \in Int
      BY <1>1, <1>3, Fonts
    <3> QED
      BY <3>1, <3>2, <3>3, StaysAbove
  <2>6. Covered(t, s + 1, k, i, x, y) <=>
           /\ (y + CHAR_H) - v \in 0 .. CHAR_HEIGHT - 1
           /\ b + ((y + CHAR_H) - v) < h
           /\ x - t[k].cells[i].x \in 0 .. CHAR_WIDTH - 1
    BY <2>2, <2>3, <2>4, Zenon DEF Covered, h
  <2>7. Covered(t, s, k, i, x, y + CHAR_H) <=>
           /\ (y + CHAR_H) - v \in 0 .. CHAR_HEIGHT - 1
           /\ b + ((y + CHAR_H) - v) < h
           /\ x - t[k].cells[i].x \in 0 .. CHAR_WIDTH - 1
    <3>1. Covered(t, s, k, i, x, y + CHAR_H) <=>
             /\ (y + CHAR_H) - TopOf(t, s, k) \in 0 .. CHAR_HEIGHT - 1
             /\ t[k].y + ((y + CHAR_H) - TopOf(t, s, k)) < h
             /\ x - t[k].cells[i].x \in 0 .. CHAR_WIDTH - 1
      BY DEF Covered, h
    <3> QED
      BY <2>1, <2>2, <3>1, Zenon
  <2> QED
    BY <2>5, <2>6, <2>7, Zenon
<1>7. CASE y + CHAR_H < h
  <2>1. x \in 0 .. mode.width - 1 /\ y + CHAR_H \in 0 .. mode.height - 1
    BY <1>1, <1>3, <1>7, Fonts DEF h, w
  <2>2. /\ \A k \in DOMAIN t : \A i \in DOMAIN t[k].cells :
              Covered(t, s, k, i, x, y + CHAR_H) => p[At(x, y + CHAR_H)] = t[k].cells[i].ink
        /\ (\A k \in DOMAIN t : \A i \in DOMAIN t[k].cells :
                ~Covered(t, s, k, i, x, y + CHAR_H)) => p[At(x, y + CHAR_H)] = Black
    BY <2>1, Zenon DEF Pictures
  <2> QED
    BY <1>5, <1>6, <1>7, <2>2, Zenon
<1>8. CASE ~(y + CHAR_H < h)
  BY <1>5, <1>6, <1>8, Zenon
<1> QED
  BY <1>7, <1>8

\* print_newline keeps the picture and begins a line below the others.
LEMMA NewlineShown ==
    ASSUME ScreenTypes, NEW pixels \in Pixels, NEW text \in Seq(Lines), text # <<>>,
           PrintNewline(pixels, text), mode' = mode,
           Placed(text, scrolls, cursor_y), cursor_y + CHAR_H < Word,
           mode.stride = mode.width \/ scrolls = 0 => Pictures(pixels, text, scrolls)
    PROVE  /\ Placed(lines, scrolls, cursor_y)' /\ Before(lines, cursor_x)'
           /\ (mode.stride = mode.width \/ scrolls = 0 => Pictures(fb, lines, scrolls))'
           /\ cursor_x' = SCREEN_MARGIN
           /\ cursor_y' \in Nat /\ cursor_y' <= cursor_y + CHAR_H
<1> DEFINE line == [y |-> cursor_y', since |-> scrolls', cells |-> <<>>]
           n == Len(text)
<1>1. /\ cursor_y \in Nat /\ cursor_y \in 0 .. Word - 1 /\ scrolls \in Nat /\ mode \in Modes
      /\ cursor_x' = SCREEN_MARGIN /\ lines' = Append(text, line)
  BY Fonts DEF ScreenTypes, TypeOK, PrintNewline
<1>2. line.y = cursor_y' /\ line.since = scrolls' /\ line.cells = <<>>
  OBVIOUS
<1> HIDE DEF line
<1>3. /\ n \in Nat /\ n >= 1 /\ DOMAIN text = 1 .. n /\ n \in DOMAIN text
      /\ Len(lines') = n + 1 /\ DOMAIN lines' = 1 .. n + 1
      /\ lines'[n + 1] = line
      /\ \A k \in 1 .. n : lines'[k] = text[k]
  BY <1>1
<1>4. \A k \in DOMAIN text : text[k].since \in 0 .. scrolls
  BY DEF Placed
<1>5. /\ \A k \in DOMAIN text : TopOf(text, scrolls, k) \in Int /\ TopOf(text, scrolls, k) <= cursor_y
      /\ \A k \in DOMAIN text : TopOf(text, scrolls + 1, k) = TopOf(text, scrolls, k) - CHAR_H
  <2>1. ASSUME NEW k \in DOMAIN text
        PROVE  TopOf(text, scrolls, k) \in Int /\ TopOf(text, scrolls, k) <= cursor_y
    <3>1. PICK v \in Int : v = TopOf(text, scrolls, k)
      BY <1>1, <1>4, TopFacts
    <3>2. CASE k = n
      BY <1>1, <1>4, <3>2, TopFacts DEF Placed
    <3>3. CASE k # n
      <4>1. v + CHAR_H <= cursor_y
        BY <3>1, <3>3 DEF Placed
      <4>2. v <= cursor_y
        BY <1>1, <4>1, Fonts
      <4> QED
        BY <3>1, <4>2, Zenon
    <3> QED
      BY <3>2, <3>3
  <2>2. \A k \in DOMAIN text : TopOf(text, scrolls + 1, k) = TopOf(text, scrolls, k) - CHAR_H
    BY <1>1, <1>4, TopFacts
  <2> QED
    BY <2>1, <2>2
<1>6. /\ scrolls' \in Nat /\ cursor_y' \in Nat /\ cursor_y' <= cursor_y + CHAR_H
      /\ \A k \in DOMAIN text : text[k].since \in 0 .. scrolls'
      /\ \A k \in DOMAIN text : TopOf(text, scrolls', k) + CHAR_H <= cursor_y'
      /\ (mode.stride = mode.width \/ scrolls' = 0 => Pictures(fb', text, scrolls'))
  <2>1. CASE MustScroll
    <3>1. scrolls' = scrolls + 1 /\ fb' = Scroll(pixels, CHAR_H)
          /\ cursor_y' = U32(U32(cursor_y + CHAR_H) - CHAR_H)
      BY <2>1, Zenon DEF PrintNewline
    <3>2. cursor_y' = cursor_y
      BY <1>1, <3>1, U32Back, Fonts
    <3>3. \A k \in DOMAIN text : text[k].since \in 0 .. scrolls'
      BY <1>1, <1>4, <3>1
    <3>4. ASSUME NEW k \in DOMAIN text PROVE TopOf(text, scrolls', k) + CHAR_H <= cursor_y'
      <4>1. PICK v \in Int : v = TopOf(text, scrolls, k)
        BY <1>5
      <4>2. v <= cursor_y /\ TopOf(text, scrolls', k) = v - CHAR_H
        BY <1>5, <3>1, <4>1
      <4>3. v - CHAR_H + CHAR_H <= cursor_y
        BY <1>1, <4>2, Fonts
      <4> QED
        BY <3>2, <4>2, <4>3, Zenon
    <3>5. mode.stride = mode.width \/ scrolls' = 0 => Pictures(fb', text, scrolls')
      <4>1. scrolls' # 0 /\ scrolls' \in Nat
        BY <1>1, <3>1
      <4>2. mode.stride = mode.width => Pictures(Scroll(pixels, CHAR_H), text, scrolls + 1)
        BY <1>1, <1>4, ScrolledPicture
      <4> QED
        BY <3>1, <4>1, <4>2, Zenon
    <3> QED
      BY <1>1, <3>1, <3>2, <3>3, <3>4, <3>5, Fonts
  <2>2. CASE ~MustScroll
    <3>1. scrolls' = scrolls /\ fb' = pixels /\ cursor_y' = U32(cursor_y + CHAR_H)
      BY <2>2, Zenon DEF PrintNewline
    <3>2. cursor_y' = cursor_y + CHAR_H
      <4>1. cursor_y + CHAR_H \in 0 .. Word - 1
        BY <1>1, Fonts
      <4> QED
        BY <3>1, <4>1, U32Facts
    <3>3. ASSUME NEW k \in DOMAIN text PROVE TopOf(text, scrolls', k) + CHAR_H <= cursor_y'
      <4>1. PICK v \in Int : v = TopOf(text, scrolls, k)
        BY <1>5
      <4>2. v <= cursor_y
        BY <1>5, <4>1
      <4>3. v + CHAR_H <= cursor_y + CHAR_H
        BY <1>1, <4>2, Fonts
      <4> QED
        BY <3>1, <3>2, <4>1, <4>3, Zenon
    <3>4. cursor_y' \in Nat /\ cursor_y' <= cursor_y + CHAR_H
      BY <1>1, <3>2, Fonts
    <3>5. mode.stride = mode.width \/ scrolls' = 0 => Pictures(fb', text, scrolls')
      BY <3>1, Zenon
    <3> QED
      BY <1>1, <1>4, <3>1, <3>3, <3>4, <3>5, Zenon
  <2> QED
    BY <2>1, <2>2
<1>7. Placed(lines', scrolls', cursor_y')
  <2>1. ASSUME NEW k \in DOMAIN lines' PROVE lines'[k].since \in 0 .. scrolls'
    <3>1. CASE k = n + 1
      BY <1>2, <1>3, <1>6, <3>1
    <3>2. CASE k \in 1 .. n
      BY <1>3, <1>6, <3>2
    <3> QED
      BY <1>3, <3>1, <3>2
  <2>2. lines'[Len(lines')].y = cursor_y' /\ lines'[Len(lines')].since = scrolls'
    BY <1>2, <1>3, Zenon
  <2>3. ASSUME NEW k \in DOMAIN lines', k # Len(lines')
        PROVE  TopOf(lines', scrolls', k) + CHAR_H <= cursor_y'
    <3>1. k \in 1 .. n
      BY <1>3, <2>3
    <3>2. TopOf(lines', scrolls', k) = TopOf(text, scrolls', k)
      BY <1>3, <3>1, Zenon DEF TopOf
    <3> QED
      BY <1>3, <1>6, <3>1, <3>2, Zenon
  <2> QED
    BY <2>1, <2>2, <2>3 DEF Placed
<1>8. Before(lines', cursor_x')
  <2>1. lines'[Len(lines')].cells = <<>>
    BY <1>2, <1>3, Zenon
  <2> QED
    BY <2>1 DEF Before
<1>9. ASSUME Pictures(fb', text, scrolls') PROVE Pictures(fb', lines', scrolls')
  <2> SUFFICES ASSUME NEW x \in 0 .. mode.width - 1, NEW y \in 0 .. mode.height - 1
               PROVE  /\ \A k \in DOMAIN lines' : \A i \in DOMAIN lines'[k].cells :
                            Covered(lines', scrolls', k, i, x, y) => fb'[At(x, y)] = lines'[k].cells[i].ink
                      /\ (\A k \in DOMAIN lines' : \A i \in DOMAIN lines'[k].cells :
                              ~Covered(lines', scrolls', k, i, x, y)) => fb'[At(x, y)] = Black
    BY DEF Pictures
  <2>1. \A k \in DOMAIN lines' : \A i \in DOMAIN lines'[k].cells : k \in DOMAIN text
    <3>1. ASSUME NEW k \in DOMAIN lines', NEW i \in DOMAIN lines'[k].cells, k = n + 1 PROVE FALSE
      <4>1. i \in DOMAIN <<>>
        BY <1>2, <1>3, <3>1, Zenon
      <4> QED
        BY <4>1
    <3>2. \A k \in DOMAIN lines' : k = n + 1 \/ k \in 1 .. n
      BY <1>3
    <3> QED
      BY <1>3, <3>1, <3>2, Zenon
  <2>2. \A k \in DOMAIN text : k \in DOMAIN lines' /\ lines'[k] = text[k]
    BY <1>3
  <2>3. \A k \in DOMAIN text : \A i \in DOMAIN text[k].cells :
           Covered(lines', scrolls', k, i, x, y) <=> Covered(text, scrolls', k, i, x, y)
    BY <2>2, Zenon DEF Covered, TopOf
  <2>4. /\ \A k \in DOMAIN text : \A i \in DOMAIN text[k].cells :
              Covered(text, scrolls', k, i, x, y) => fb'[At(x, y)] = text[k].cells[i].ink
        /\ (\A k \in DOMAIN text : \A i \in DOMAIN text[k].cells :
                ~Covered(text, scrolls', k, i, x, y)) => fb'[At(x, y)] = Black
    BY <1>9, Zenon DEF Pictures
  <2> QED
    BY <2>1, <2>2, <2>3, <2>4, Zenon
<1>10. (mode.stride = mode.width \/ scrolls = 0 => Pictures(fb, lines, scrolls))'
  <2>1. mode.stride = mode.width \/ scrolls' = 0 => Pictures(fb', lines', scrolls')
    BY <1>6, <1>9, Zenon
  <2> QED
    BY <2>1 DEF Pictures, Covered, TopOf, At
<1> QED
  BY <1>1, <1>6, <1>7, <1>8, <1>10 DEF Placed, Before, TopOf

\* The words are wide enough for every character on one line, and for a line each.
WordsSuffice ==
    /\ SCREEN_MARGIN + MaxChars * CHAR_W < Word
    /\ SCREEN_MARGIN + MaxChars * CHAR_H < Word

\* The cursor has not come further than the characters can have brought it.
Reached ==
    /\ cursor_x <= SCREEN_MARGIN + shown * CHAR_W
    /\ cursor_y <= SCREEN_MARGIN + shown * CHAR_H

TextInv ==
    /\ Placed(lines, scrolls, cursor_y) /\ Before(lines, cursor_x)
    /\ Reached
    /\ mode.stride = mode.width \/ scrolls = 0 => Pictures(fb, lines, scrolls)

\* The cursor does not wrap with the next character.
LEMMA ReachedFits ==
    ASSUME WordsSuffice, ScreenTypes, Reached, shown < MaxChars
    PROVE  /\ cursor_x \in Nat /\ cursor_y \in Nat
           /\ cursor_x + CHAR_W < Word /\ cursor_y + CHAR_H < Word
           /\ U32(cursor_x + CHAR_W) = cursor_x + CHAR_W
           /\ cursor_x + CHAR_W <= SCREEN_MARGIN + (shown + 1) * CHAR_W
           /\ cursor_y + CHAR_H <= SCREEN_MARGIN + (shown + 1) * CHAR_H
           /\ (shown + 1) * CHAR_W \in Nat /\ (shown + 1) * CHAR_H \in Nat
           /\ cursor_y <= SCREEN_MARGIN + (shown + 1) * CHAR_H
           /\ SCREEN_MARGIN <= SCREEN_MARGIN + (shown + 1) * CHAR_W
<1>1. /\ cursor_x \in Nat /\ cursor_y \in Nat /\ shown \in Nat /\ MaxChars \in Nat
      /\ shown + 1 \in Nat /\ shown + 1 <= MaxChars
  BY Fonts DEF ScreenTypes, TypeOK
<1>2. /\ (shown + 1) * CHAR_W <= MaxChars * CHAR_W /\ (shown + 1) * CHAR_H <= MaxChars * CHAR_H
      /\ (shown + 1) * CHAR_W \in Nat /\ (shown + 1) * CHAR_H \in Nat
      /\ MaxChars * CHAR_W \in Nat /\ MaxChars * CHAR_H \in Nat
  BY <1>1, TimesMonotone, Fonts
<1>3. /\ (shown + 1) * CHAR_W = shown * CHAR_W + CHAR_W /\ (shown + 1) * CHAR_H = shown * CHAR_H + CHAR_H
      /\ shown * CHAR_W \in Int /\ shown * CHAR_H \in Int
  BY <1>1, TimesNext, Fonts
<1>4. /\ cursor_x + CHAR_W <= SCREEN_MARGIN + (shown + 1) * CHAR_W
      /\ cursor_y + CHAR_H <= SCREEN_MARGIN + (shown + 1) * CHAR_H
  BY <1>1, <1>3, Fonts DEF Reached
<1>5. cursor_x + CHAR_W < Word /\ cursor_y + CHAR_H < Word
  BY <1>1, <1>2, <1>4, Fonts DEF WordsSuffice
<1>6. U32(cursor_x + CHAR_W) = cursor_x + CHAR_W
  <2>1. cursor_x + CHAR_W \in 0 .. Word - 1
    BY <1>1, <1>5, Fonts
  <2> QED
    BY <2>1, U32Facts
<1>7. cursor_y <= SCREEN_MARGIN + (shown + 1) * CHAR_H
      /\ SCREEN_MARGIN <= SCREEN_MARGIN + (shown + 1) * CHAR_W
  BY <1>1, <1>2, <1>4, Fonts
<1> QED
  BY <1>1, <1>2, <1>4, <1>5, <1>6, <1>7

LEMMA TextInit == Init => TextInv
<1> SUFFICES ASSUME Init PROVE TextInv
  OBVIOUS
<1> DEFINE line == [y |-> SCREEN_MARGIN, since |-> 0, cells |-> <<>>]
<1>1. /\ lines = <<line>> /\ scrolls = 0 /\ cursor_x = SCREEN_MARGIN /\ cursor_y = SCREEN_MARGIN
      /\ shown = 0 /\ mode \in Modes
  BY DEF Init
<1>2. line.y = SCREEN_MARGIN /\ line.since = 0 /\ line.cells = <<>>
  OBVIOUS
<1> HIDE DEF line
<1>3. Len(lines) = 1 /\ DOMAIN lines = {1} /\ lines[1] = line
  BY <1>1
<1>4. Placed(lines, scrolls, cursor_y)
  BY <1>1, <1>2, <1>3 DEF Placed
<1>5. Before(lines, cursor_x)
  BY <1>2, <1>3 DEF Before
<1>6. Reached
  BY <1>1, Fonts DEF Reached
<1>7. Pictures(fb, lines, scrolls)
  <2> SUFFICES ASSUME NEW x \in 0 .. mode.width - 1, NEW y \in 0 .. mode.height - 1
               PROVE  /\ fb[At(x, y)] = Black
                      /\ \A k \in DOMAIN lines : \A i \in DOMAIN lines[k].cells : FALSE
    BY Zenon DEF Pictures
  <2>1. mode.width \in Nat /\ mode.height \in Nat /\ mode.stride \in Nat /\ mode.width <= mode.stride
    BY <1>1, ModeFacts
  <2>2. At(x, y) \in 0 .. mode.height * mode.stride - 1
    BY <2>1, AddressFits DEF At
  <2>3. fb[At(x, y)] = Black
    BY <2>2 DEF Init
  <2>4. \A k \in DOMAIN lines : \A i \in DOMAIN lines[k].cells : FALSE
    BY <1>2, <1>3
  <2> QED
    BY <2>3, <2>4
<1> QED
  BY <1>4, <1>5, <1>6, <1>7 DEF TextInv

\* A line is begun, behind what the character may have drawn.
LEMMA TextNewline ==
    ASSUME WordsSuffice, ScreenTypes, TextInv, shown < MaxChars, shown' = shown + 1, mode' = mode,
           NEW pixels \in Pixels, NEW text \in Seq(Lines), text # <<>>, PrintNewline(pixels, text),
           Placed(text, scrolls, cursor_y),
           mode.stride = mode.width \/ scrolls = 0 => Pictures(pixels, text, scrolls)
    PROVE  TextInv'
<1>1. /\ cursor_y \in Nat /\ cursor_y + CHAR_H < Word
      /\ cursor_y + CHAR_H <= SCREEN_MARGIN + (shown + 1) * CHAR_H
      /\ (shown + 1) * CHAR_H \in Nat
      /\ SCREEN_MARGIN <= SCREEN_MARGIN + (shown + 1) * CHAR_W
  BY ReachedFits DEF TextInv
<1>2. /\ Placed(lines, scrolls, cursor_y)' /\ Before(lines, cursor_x)'
      /\ (mode.stride = mode.width \/ scrolls = 0 => Pictures(fb, lines, scrolls))'
      /\ cursor_x' = SCREEN_MARGIN
      /\ cursor_y' \in Nat /\ cursor_y' <= cursor_y + CHAR_H
  BY <1>1, NewlineShown
<1>3. cursor_y' <= SCREEN_MARGIN + (shown + 1) * CHAR_H
  <2>1. /\ cursor_y' \in Int /\ cursor_y + CHAR_H \in Int
        /\ SCREEN_MARGIN + (shown + 1) * CHAR_H \in Int
    BY <1>1, <1>2, Fonts
  <2> QED
    BY <1>1, <1>2, <2>1, AtMost
<1>4. Reached'
  BY <1>1, <1>2, <1>3 DEF Reached
<1> QED
  BY <1>2, <1>4 DEF TextInv

LEMMA TextKept ==
    ASSUME WordsSuffice, ScreenTypes, TextInv, [Next]_vars
    PROVE  TextInv'
<1>1. /\ fb \in Pixels /\ mode \in Modes /\ cursor_x \in Int /\ cursor_y \in Int
      /\ lines \in Seq(Lines) /\ lines # <<>>
  BY Fonts DEF ScreenTypes, TypeOK, Pixels
<1>2. ASSUME shown < MaxChars, NEW kind \in {"printable", "unprintable"}
      PROVE  /\ Glyph(fb, cursor_x, cursor_y, shown + 1) \in Pixels
             /\ Noted(kind) \in Seq(Lines) /\ Noted(kind) # <<>>
             /\ Placed(Noted(kind), scrolls, cursor_y)
             /\ Before(Noted(kind), cursor_x + CHAR_W)
             /\ mode.stride = mode.width \/ scrolls = 0 =>
                   Pictures(Glyph(fb, cursor_x, cursor_y, shown + 1), Noted(kind), scrolls)
  <2>1. cursor_x + CHAR_W < Word /\ cursor_y + CHAR_H < Word
    BY <1>2, ReachedFits DEF TextInv
  <2>2. shown + 1 \in 0 .. MaxChars
    BY <1>2, Fonts DEF ScreenTypes, TypeOK
  <2> QED
    BY <1>1, <1>2, <2>1, <2>2, GlyphType, NotedFacts, DrawnAtCursor DEF TextInv
<1>3. ASSUME shown < MaxChars, NEW kind \in {"printable", "unprintable"}, shown' = shown + 1,
             mode' = mode, cursor_y' = cursor_y, scrolls' = scrolls, lines' = Noted(kind),
             fb' = Glyph(fb, cursor_x, cursor_y, shown + 1), cursor_x' = U32(cursor_x + CHAR_W)
      PROVE  TextInv'
  <2>1. /\ cursor_x' = cursor_x + CHAR_W
        /\ cursor_x + CHAR_W <= SCREEN_MARGIN + (shown + 1) * CHAR_W
        /\ cursor_y <= SCREEN_MARGIN + (shown + 1) * CHAR_H
    BY <1>3, ReachedFits DEF TextInv
  <2>2. Reached'
    BY <1>3, <2>1, Zenon DEF Reached
  <2>3. Placed(lines, scrolls, cursor_y)'
    BY <1>2, <1>3, Zenon DEF Placed, TopOf
  <2>4. Before(lines, cursor_x)'
    BY <1>2, <1>3, <2>1, Zenon DEF Before
  <2>5. mode.stride = mode.width \/ scrolls = 0 => Pictures(fb', lines', scrolls')
    BY <1>2, <1>3, Zenon
  <2>6. (mode.stride = mode.width \/ scrolls = 0 => Pictures(fb, lines, scrolls))'
    BY <1>3, <2>5, SMTT(20) DEF Pictures, Covered, TopOf, At
  <2> QED
    BY <2>2, <2>3, <2>4, <2>6 DEF TextInv
<1>4. CASE Newline
  BY <1>1, <1>4, TextNewline DEF Newline, TextInv
<1>5. CASE Unprintable
  BY <1>3, <1>5 DEF Unprintable
<1>6. CASE Printable
  <2>1. shown < MaxChars /\ shown' = shown + 1 /\ mode' = mode
    BY <1>6 DEF Printable
  <2>2. CASE MustWrap
    <3>1. PrintNewline(Glyph(fb, cursor_x, cursor_y, shown + 1), Noted("printable"))
      BY <1>6, <2>2 DEF Printable
    <3> QED
      BY <1>2, <2>1, <3>1, TextNewline
  <2>3. CASE ~MustWrap
    BY <1>3, <1>6, <2>1, <2>3 DEF Printable
  <2> QED
    BY <2>2, <2>3
<1>7. CASE Halted \/ UNCHANGED vars
  <2>1. UNCHANGED vars
    BY <1>7 DEF Halted
  <2>2. Placed(lines, scrolls, cursor_y)'
    BY <2>1 DEF vars, TextInv, Placed, TopOf
  <2>3. Before(lines, cursor_x)'
    BY <2>1 DEF vars, TextInv, Before
  <2>4. Reached'
    BY <2>1 DEF vars, TextInv, Reached
  <2>5. (mode.stride = mode.width \/ scrolls = 0 => Pictures(fb, lines, scrolls))'
    <3>1. mode.stride = mode.width \/ scrolls = 0 => Pictures(fb', lines', scrolls')
      BY <2>1, Zenon DEF vars, TextInv
    <3> QED
      BY <2>1, <3>1, SMTT(20) DEF vars, Pictures, Covered, TopOf, At
  <2> QED
    BY <2>2, <2>3, <2>4, <2>5 DEF TextInv
<1> QED
  BY <1>4, <1>5, <1>6, <1>7 DEF Next

\* The picture is what ScreenShowsText asks for.
LEMMA PictureSeen ==
    ASSUME ScreenTypes, TextInv
    PROVE  ScreenShowsText
<1> SUFFICES ASSUME mode.stride = mode.width \/ scrolls = 0,
                    NEW x \in 0 .. mode.width - 1, NEW y \in 0 .. mode.height - 1
             PROVE  Seen(x, y) = {fb[y * mode.stride + x]} \ {Black}
  BY DEF ScreenShowsText
<1> DEFINE ink == fb[y * mode.stride + x]
<1>1. /\ \A k \in DOMAIN lines : \A i \in DOMAIN lines[k].cells :
            Covered(lines, scrolls, k, i, x, y) => ink = lines[k].cells[i].ink
      /\ (\A k \in DOMAIN lines : \A i \in DOMAIN lines[k].cells :
              ~Covered(lines, scrolls, k, i, x, y)) => ink = Black
  BY DEF TextInv, Pictures, At
<1>2. \A k \in DOMAIN lines : \A i \in DOMAIN lines[k].cells : lines[k].cells[i].ink # Black
  <2> SUFFICES ASSUME NEW k \in DOMAIN lines, NEW i \in DOMAIN lines[k].cells
               PROVE  lines[k].cells[i].ink # Black
    OBVIOUS
  <2>1. lines[k] \in Lines
    BY DEF ScreenTypes
  <2>2. lines[k].cells \in Seq(Cells)
    BY <2>1 DEF Lines
  <2>3. lines[k].cells[i] \in Cells
    BY <2>2
  <2>4. lines[k].cells[i].ink \in 1 .. MaxChars
    BY <2>3 DEF Cells
  <2> QED
    BY <2>4 DEF Black
<1>3. \A k \in DOMAIN lines : Top(k) = TopOf(lines, scrolls, k)
  BY DEF Top, TopOf
<1>4. \A e : e \in Seen(x, y) <=>
              \E k \in DOMAIN lines : \E i \in DOMAIN lines[k].cells :
                  Covered(lines, scrolls, k, i, x, y) /\ e = lines[k].cells[i].ink
  <2> DEFINE Covers(k, cell) ==
                /\ y - Top(k) \in 0 .. CHAR_HEIGHT - 1
                /\ lines[k].y + (y - Top(k)) < mode.height
                /\ x - cell.x \in 0 .. CHAR_WIDTH - 1
             Of(k) == {lines[k].cells[i].ink :
                          i \in {j \in DOMAIN lines[k].cells : Covers(k, lines[k].cells[j])}}
  <2>1. Seen(x, y) = UNION {Of(k) : k \in DOMAIN lines}
    BY DEF Seen
  <2>2. \A k \in DOMAIN lines : \A i \in DOMAIN lines[k].cells :
           Covers(k, lines[k].cells[i]) <=> Covered(lines, scrolls, k, i, x, y)
    BY <1>3, Zenon DEF Covered
  <2> HIDE DEF Covers
  <2>3. \A k \in DOMAIN lines : \A e : e \in Of(k) <=>
           \E i \in DOMAIN lines[k].cells : Covers(k, lines[k].cells[i]) /\ e = lines[k].cells[i].ink
    BY Zenon
  <2> HIDE DEF Of
  <2>4. \A e : e \in Seen(x, y) <=> \E k \in DOMAIN lines : e \in Of(k)
    BY <2>1, Zenon
  <2>5. ASSUME NEW k \in DOMAIN lines, NEW e
        PROVE  e \in Of(k) <=>
                  \E i \in DOMAIN lines[k].cells :
                      Covered(lines, scrolls, k, i, x, y) /\ e = lines[k].cells[i].ink
    BY <2>2, <2>3, Zenon
  <2> QED
    <3> SUFFICES ASSUME NEW e
                 PROVE  e \in Seen(x, y) <=>
                           \E k \in DOMAIN lines : \E i \in DOMAIN lines[k].cells :
                               Covered(lines, scrolls, k, i, x, y) /\ e = lines[k].cells[i].ink
      OBVIOUS
    <3>1. e \in Seen(x, y) <=> \E k \in DOMAIN lines : e \in Of(k)
      BY <2>4, Zenon
    <3>2. \A k \in DOMAIN lines : e \in Of(k) <=>
             \E i \in DOMAIN lines[k].cells :
                 Covered(lines, scrolls, k, i, x, y) /\ e = lines[k].cells[i].ink
      BY <2>5, Zenon
    <3> QED
      BY <3>1, <3>2, Zenon
<1> HIDE DEF ink
<1>5. CASE \E k \in DOMAIN lines : \E i \in DOMAIN lines[k].cells : Covered(lines, scrolls, k, i, x, y)
  <2>0. PICK k \in DOMAIN lines : \E i \in DOMAIN lines[k].cells : Covered(lines, scrolls, k, i, x, y)
    BY <1>5, Zenon
  <2>1. PICK i \in DOMAIN lines[k].cells : Covered(lines, scrolls, k, i, x, y)
    BY <2>0, Zenon
  <2>2. ink = lines[k].cells[i].ink /\ ink # Black
    BY <1>1, <1>2, <2>1, Zenon
  <2>3. \A e : e \in Seen(x, y) <=> e = ink
    BY <1>1, <1>4, <2>1, <2>2, Zenon
  <2>4. Seen(x, y) = {ink} \ {Black}
    BY <2>2, <2>3
  <2> QED
    BY <2>4 DEF ink
<1>6. CASE \A k \in DOMAIN lines : \A i \in DOMAIN lines[k].cells : ~Covered(lines, scrolls, k, i, x, y)
  <2>1. ink = Black
    BY <1>1, <1>6
  <2>2. \A e : e \notin Seen(x, y)
    BY <1>4, <1>6, Zenon
  <2>3. Seen(x, y) = {ink} \ {Black}
    BY <2>1, <2>2
  <2> QED
    BY <2>3 DEF ink
<1> QED
  BY <1>5, <1>6, Zenon

\* The screen is the text: every pixel shows the character whose box covers it, in its
\* line and column, and is black otherwise, as long as no coordinate has wrapped: where
\* every character printed fits on one line of words (screen.c:36-66, 105-153).
THEOREM TextIsShown ==
    ASSUME WordsSuffice
    PROVE  Spec => []ScreenShowsText
<1>1. ScreenTypes /\ TextInv /\ [Next]_vars => TextInv'
  BY TextKept
<1>2. ScreenTypes /\ TextInv => ScreenShowsText
  BY PictureSeen
<1> QED
  BY <1>1, <1>2, TextInit, ScreenTypesInit, ScreenTypesKept, PTL DEF Spec

-----------------------------------------------------------------------------
(* The serial port. *)

PortChars == {"x", "\n", "\r", "byte"}

\* The setup of x86-64, of which todo is what is left.
Setup == <<<<1, 0>>, <<3, 128>>, <<0, 3>>, <<1, 0>>, <<3, 3>>, <<2, 199>>, <<4, 11>>>>

\* The transmitter: nothing waits but what was written, and no more than there is room for.
FifoInv ==
    /\ fifo_on \in BOOLEAN
    /\ sent \in Seq(PortChars)
    /\ fifo \in Seq(0 .. Len(sent))
    /\ Len(fifo) <= Depth
    /\ lost \subseteq 1 .. Len(sent)

\* How far the setup of x86-64 is, by the number of writes that are left.
X86Inv ==
    LET left == Len(todo) IN
    /\ dlab \in BOOLEAN
    /\ divisor \in [1 .. 2 -> Nat]
    /\ pc = "init" =>
          /\ left \in 1 .. 7
          /\ \A k \in 1 .. left : todo[k] = Setup[k + 7 - left]
          /\ left \in 3 .. 5 => dlab
          /\ left <= 4 => divisor[1] = 3
          /\ left <= 3 => divisor[2] = 0
          /\ left <= 2 => ~dlab
          /\ left = 1 => fifo = <<>>
    /\ pc # "init" =>
          /\ ~dlab /\ divisor = <<3, 0>>
          /\ Len(fifo) <= Len(sent)
          /\ lost # {} => Len(sent) > Depth

\* A register the setup of aarch64 writes to is none of those that change the port.
Aarch64Inv ==
    pc = "init" =>
        /\ todo # <<>>
        /\ \A k \in 1 .. Len(todo) : todo[k][1] \in {72, 80, 88, 96, 136}

\* What may be lost is half of a line end, and its other half is not.
HalfLost(n) ==
    \/ Pair(n) /\ n + 1 \notin lost
    \/ Pair(n - 1) /\ n - 1 \notin lost

\* Where a driver that polls stands, there is room for what comes next; a line end may
\* miss the room for its second half, and then its first half is the character written last.
PolledInv ==
    /\ pc \in {"cr", "char"} => Len(fifo) < Depth \/ (pc = "char" /\ c = "\n")
    /\ pc = "cr" => c = "\n"
    /\ pc = "char" /\ c = "\n" =>
          /\ sent # <<>> /\ sent[Len(sent)] = "\r" /\ Len(sent) \notin lost
          /\ fifo # <<>> => fifo[Len(fifo)] = Len(sent)
    /\ \A n \in lost : HalfLost(n)
    /\ arch = "riscv64" =>
          /\ pc = "cr" => fifo = <<>>
          /\ pc = "char" => Len(fifo) <= 1
          /\ fifo_on => lost = {}

UartInv ==
    /\ arch \in {"x86_64", "aarch64", "riscv64"}
    /\ pc \in {"init", "ready", "poll", "cr", "char"}
    /\ c \in {"x", "\n"}
    /\ pc = "init" => sent = <<>> /\ lost = {}
    /\ arch = "riscv64" => pc # "init"
    /\ todo \in Seq(Nat \X Nat)
    /\ "byte" \notin {sent[k] : k \in DOMAIN sent}
    /\ FifoInv
    /\ arch = "x86_64" => X86Inv
    /\ arch = "aarch64" => Aarch64Inv
    /\ arch # "x86_64" => PolledInv

LEMMA DepthFacts == FifoInv => Depth \in Nat /\ Depth >= 1 /\ (fifo_on => Depth > 1)
BY DeepAssumption DEF FifoInv, Depth

\* A write to the transmitter: the character is the last one sent; it waits behind the
\* others if there was room, and if there was none one of the last two is lost.
LEMMA Loaded ==
    ASSUME FifoInv, NEW ch \in PortChars, Load(ch), UNCHANGED fifo_on
    PROVE  /\ FifoInv'
           /\ sent' = Append(sent, ch) /\ Len(sent') = Len(sent) + 1 /\ Len(sent) \in Nat
           /\ sent'[Len(sent')] = ch
           /\ \A k \in 1 .. Len(sent) : sent'[k] = sent[k]
           /\ Len(fifo') \in Nat /\ Len(fifo') <= Len(fifo) + 1
           /\ \/ /\ Len(fifo) < Depth /\ lost' = lost
                 /\ fifo' # <<>> /\ fifo'[Len(fifo')] = Len(sent')
              \/ /\ Len(fifo) >= Depth /\ Len(fifo') = Len(fifo)
                 /\ \/ lost' = lost \cup {Len(sent')}
                    \/ lost' = lost \cup ({fifo[Len(fifo)]} \ {0})
<1> DEFINE n == Len(sent) + 1
<1>1. /\ Depth \in Nat /\ Depth >= 1 /\ Depth' = Depth /\ fifo_on' \in BOOLEAN
      /\ Len(sent) \in Nat /\ Len(fifo) \in Nat /\ sent \in Seq(PortChars)
      /\ fifo \in Seq(0 .. Len(sent)) /\ Len(fifo) <= Depth
  BY DepthFacts DEF FifoInv, Depth
<1>2. /\ sent' = Append(sent, ch) /\ sent' \in Seq(PortChars) /\ Len(sent') = n
      /\ sent'[n] = ch /\ \A k \in 1 .. Len(sent) : sent'[k] = sent[k]
  <2>1. sent' = Append(sent, ch)
    BY DEF Load
  <2> QED
    BY <1>1, <2>1, AppendProperties
<1>3. fifo \in Seq(0 .. n) /\ n \in 1 .. n /\ 1 .. n \subseteq 0 .. n /\ lost \subseteq 1 .. n
  <2>1. n \in Nat /\ 0 .. Len(sent) \subseteq 0 .. n /\ 1 .. Len(sent) \subseteq 1 .. n
    BY <1>1
  <2>2. lost \subseteq 1 .. Len(sent)
    BY DEF FifoInv
  <2>3. \A k \in 1 .. Len(fifo) : fifo[k] \in 0 .. n
    BY <1>1, <2>1
  <2> QED
    BY <1>1, <2>1, <2>2, <2>3
<1>4. CASE Len(fifo) < Depth /\ fifo' = Append(fifo, n) /\ UNCHANGED lost
  <2>1. fifo' \in Seq(0 .. n) /\ Len(fifo') = Len(fifo) + 1 /\ fifo'[Len(fifo) + 1] = n
    BY <1>3, <1>4, AppendProperties
  <2>2. fifo' # <<>> /\ Len(fifo') <= Depth
    BY <1>1, <1>4, <2>1
  <2>3. FifoInv'
    BY <1>1, <1>2, <1>3, <1>4, <2>1, <2>2 DEF FifoInv
  <2> QED
    BY <1>1, <1>2, <1>4, <2>1, <2>2, <2>3
<1>5. CASE Len(fifo) >= Depth /\ UNCHANGED fifo /\ lost' = lost \cup {n}
  <2>1. lost' \subseteq 1 .. n
    BY <1>3, <1>5, Zenon
  <2> QED
    BY <1>1, <1>2, <1>3, <1>5, <2>1 DEF FifoInv
<1>6. CASE /\ Len(fifo) >= Depth /\ fifo' = [fifo EXCEPT ![Len(fifo)] = n]
           /\ lost' = lost \cup ({fifo[Len(fifo)]} \ {0})
  <2>1. fifo' \in Seq(0 .. n) /\ Len(fifo') = Len(fifo)
    BY <1>1, <1>3, <1>6
  <2>2. fifo[Len(fifo)] \in 0 .. n
    BY <1>1, <1>3, <1>6
  <2>3. {fifo[Len(fifo)]} \ {0} \subseteq 1 .. n
    BY <1>1, <2>2
  <2>4. lost' \subseteq 1 .. n
    BY <1>3, <1>6, <2>3, Zenon
  <2> QED
    BY <1>1, <1>2, <1>3, <1>6, <2>1, <2>4 DEF FifoInv
<1> QED
  BY <1>4, <1>5, <1>6 DEF Load

LEMMA UartInitInv == UartInit => UartInv
<1> SUFFICES ASSUME UartInit PROVE UartInv
  OBVIOUS
<1>1. /\ arch \in {"x86_64", "aarch64", "riscv64"} /\ fifo_on \in BOOLEAN /\ has_fifo \in BOOLEAN
      /\ dlab \in BOOLEAN /\ divisor = <<1, 0>> /\ c = "x" /\ sent = <<>> /\ lost = {}
      /\ todo = InitWrites /\ pc = IF todo = <<>> THEN "ready" ELSE "init"
  BY DEF UartInit
<1>2. PICK n \in 0 .. Depth : fifo = [k \in 1 .. n |-> 0]
  BY DEF UartInit
<1>3. FifoInv
  <2>1. Depth \in Nat
    BY <1>1, DeepAssumption DEF Depth
  <2>2. sent \in Seq(PortChars) /\ Len(sent) = 0 /\ lost \subseteq 1 .. Len(sent)
    BY <1>1
  <2>3. fifo \in Seq(0 .. Len(sent)) /\ Len(fifo) <= Depth
    BY <1>2, <2>1, <2>2
  <2> QED
    BY <1>1, <2>2, <2>3 DEF FifoInv
<1>4. CASE arch = "x86_64"
  <2>1. todo = Setup /\ Len(todo) = 7 /\ pc = "init" /\ todo \in Seq(Nat \X Nat)
    BY <1>1, <1>4 DEF InitWrites, Setup
  <2>2. X86Inv
    BY <1>1, <2>1 DEF X86Inv
  <2> QED
    BY <1>1, <1>3, <1>4, <2>1, <2>2 DEF UartInv
<1>5. CASE arch = "aarch64"
  <2>1. /\ todo = <<<<96, 0>>, <<72, 1>>, <<80, 40>>, <<88, 112>>, <<96, 769>>, <<136, 2047>>>>
        /\ pc = "init" /\ todo \in Seq(Nat \X Nat)
    BY <1>1, <1>5 DEF InitWrites
  <2>2. Aarch64Inv
    BY <2>1 DEF Aarch64Inv
  <2>3. PolledInv
    BY <1>1, <1>5, <2>1 DEF PolledInv
  <2> QED
    BY <1>1, <1>3, <1>5, <2>1, <2>2, <2>3 DEF UartInv
<1>6. CASE arch = "riscv64"
  <2>1. todo = <<>> /\ pc = "ready" /\ todo \in Seq(Nat \X Nat)
    BY <1>1, <1>6 DEF InitWrites
  <2>2. PolledInv
    BY <1>1, <2>1 DEF PolledInv
  <2> QED
    BY <1>1, <1>3, <1>6, <2>1, <2>2 DEF UartInv
<1> QED
  BY <1>1, <1>4, <1>5, <1>6

\* One write of the setup on x86-64.
LEMMA OutbKeeps == UartInv /\ arch = "x86_64" /\ SerialInit => UartInv'
<1> SUFFICES ASSUME UartInv, arch = "x86_64", SerialInit PROVE UartInv'
  OBVIOUS
<1>1. /\ pc = "init" /\ X86Inv /\ FifoInv /\ sent = <<>> /\ lost = {} /\ todo \in Seq(Nat \X Nat)
      /\ Outb(todo[1][1], todo[1][2]) /\ todo' = Tail(todo)
      /\ pc' = IF Len(todo) = 1 THEN "ready" ELSE "init"
      /\ arch' = arch /\ c' = c /\ c \in {"x", "\n"}
  BY DEF UartInv, SerialInit
<1>2. PICK left \in 1 .. 7 :
      /\ left = Len(todo)
      /\ \A k \in 1 .. left : todo[k] = Setup[k + 7 - left]
      /\ left \in 3 .. 5 => dlab
      /\ left <= 4 => divisor[1] = 3
      /\ left <= 3 => divisor[2] = 0
      /\ left <= 2 => ~dlab
      /\ left = 1 => fifo = <<>>
      /\ dlab \in BOOLEAN /\ divisor \in [1 .. 2 -> Nat]
  BY <1>1 DEF X86Inv
<1>3. todo[1] = Setup[8 - left]
  <2>1. 1 \in 1 .. left /\ 1 + 7 - left = 8 - left
    OBVIOUS
  <2> QED
    BY <1>2, <2>1
<1> DEFINE reg == todo[1][1]
           val == todo[1][2]
<1>4. /\ left = 7 => reg = 1 /\ val = 0
      /\ left = 6 => reg = 3 /\ val = 128
      /\ left = 5 => reg = 0 /\ val = 3
      /\ left = 4 => reg = 1 /\ val = 0
      /\ left = 3 => reg = 3 /\ val = 3
      /\ left = 2 => reg = 2 /\ val = 199
      /\ left = 1 => reg = 4 /\ val = 11
  <2>1. /\ Setup[1] = <<1, 0>> /\ Setup[2] = <<3, 128>> /\ Setup[3] = <<0, 3>> /\ Setup[4] = <<1, 0>>
        /\ Setup[5] = <<3, 3>> /\ Setup[6] = <<2, 199>> /\ Setup[7] = <<4, 11>>
    BY DEF Setup
  <2> QED
    BY <1>3, <2>1
<1>5. /\ Len(todo') = left - 1 /\ todo' \in Seq(Nat \X Nat)
      /\ \A k \in 1 .. Len(todo') : todo'[k] = Setup[k + 7 - Len(todo')]
  <2>1. /\ Len(todo') = left - 1 /\ todo' \in Seq(Nat \X Nat)
        /\ \A k \in 1 .. left - 1 : todo'[k] = todo[k + 1]
    BY <1>1, <1>2
  <2>2. \A k \in 1 .. left - 1 : k + 1 \in 1 .. left /\ (k + 1) + 7 - left = k + 7 - (left - 1)
    BY <1>2
  <2> QED
    BY <1>2, <2>1, <2>2
<1> HIDE DEF reg, val
<1>6. ~(reg = 0 /\ ~dlab)
  <2>1. left = 5 => dlab
    BY <1>2
  <2>2. left # 5 => reg # 0
    BY <1>4
  <2> QED
    BY <1>4, <2>1, <2>2
<1>7. /\ fifo' = IF reg = 2 /\ (val \div 4) % 2 = 1 THEN <<>> ELSE fifo
      /\ sent' = sent /\ lost' = lost
      /\ divisor' = IF reg \in {0, 1} /\ dlab THEN [divisor EXCEPT ![reg + 1] = val] ELSE divisor
      /\ dlab' = IF reg = 3 THEN val >= 128 ELSE dlab
      /\ fifo_on' = IF reg = 2 THEN has_fifo /\ val % 2 = 1 ELSE fifo_on
  BY <1>1, <1>6 DEF Outb, reg, val
<1>11. /\ left = 6 => dlab' = TRUE
       /\ left = 3 => dlab' = FALSE
       /\ left \notin {3, 6} => dlab' = dlab
  <2>1. reg = 3 => dlab' = (val >= 128)
    BY <1>7, Zenon
  <2>2. reg # 3 => dlab' = dlab
    BY <1>7, Zenon
  <2>3. left = 6 => reg = 3 /\ (val >= 128) = TRUE
    BY <1>4
  <2>4. left = 3 => reg = 3 /\ (val >= 128) = FALSE
    BY <1>4
  <2>5. left \notin {3, 6} => reg # 3
    BY <1>4
  <2> QED
    BY <2>1, <2>2, <2>3, <2>4, <2>5, Zenon
<1>8. FifoInv'
  <2>1. fifo_on' \in BOOLEAN
    BY <1>1, <1>7 DEF FifoInv
  <2>2. CASE left = 2
    <3>1. fifo' = <<>>
      BY <1>4, <1>7, <2>2
    <3>2. Depth' \in Nat
      BY <2>1, DeepAssumption DEF Depth
    <3> QED
      BY <1>1, <1>7, <2>1, <3>1, <3>2 DEF FifoInv
  <2>3. CASE left # 2
    <3>1. reg # 2
      BY <1>4, <2>3
    <3>2. fifo' = fifo /\ fifo_on' = fifo_on
      BY <1>7, <3>1
    <3> QED
      BY <1>1, <1>7, <3>2 DEF FifoInv, Depth
  <2> QED
    BY <2>2, <2>3
<1>9. X86Inv'
  <2>1. divisor' \in [1 .. 2 -> Nat] /\ dlab' \in BOOLEAN
    <3>1. val \in Nat /\ (reg \in {0, 1} => reg + 1 \in 1 .. 2)
      BY <1>4
    <3>2. dlab' \in BOOLEAN
      <4>1. dlab \in BOOLEAN
        BY <1>2
      <4> QED
        BY <1>11, <4>1, Zenon
    <3> QED
      BY <1>2, <1>7, <3>1, <3>2
  <2>2. (left \in 4 .. 6 => dlab') /\ (left <= 3 => ~dlab')
    <3>1. (left \in {4, 5} => dlab) /\ (left \in {1, 2} => ~dlab)
      BY <1>2
    <3>2. left \in {4, 5} \cup {1, 2} => left \notin {3, 6}
      OBVIOUS
    <3>3. (left \in {4, 5} => dlab') /\ (left \in {1, 2} => ~dlab')
      BY <1>11, <3>1, <3>2, Zenon
    <3>4. left \in 4 .. 6 => left = 6 \/ left \in {4, 5}
      OBVIOUS
    <3>5. left <= 3 => left = 3 \/ left \in {1, 2}
      OBVIOUS
    <3> QED
      BY <1>11, <3>3, <3>4, <3>5, Zenon
  <2>3. divisor'[1] = IF left = 5 THEN 3 ELSE divisor[1]
    <3>1. CASE left = 5
      <4>1. dlab /\ reg = 0 /\ val = 3
        BY <1>2, <1>4, <3>1
      <4> QED
        BY <1>2, <1>7, <3>1, <4>1
    <3>2. CASE left # 5
      <4>1. reg # 0
        BY <1>4, <3>2
      <4> QED
        BY <1>2, <1>7, <3>2, <4>1
    <3> QED
      BY <3>1, <3>2
  <2>4. left = 4 => divisor'[2] = 0
    <3> SUFFICES ASSUME left = 4 PROVE divisor'[2] = 0
      OBVIOUS
    <3>1. dlab /\ reg = 1 /\ val = 0
      BY <1>2, <1>4
    <3> QED
      BY <1>2, <1>7, <3>1
  <2>5. left <= 3 => divisor' = divisor
    <3> SUFFICES ASSUME left <= 3 PROVE divisor' = divisor
      OBVIOUS
    <3>1. reg \notin {0, 1}
      BY <1>4
    <3> QED
      BY <1>7, <3>1
  <2>6. left <= 2 => fifo' = <<>>
    <3>1. left = 2 => fifo' = <<>>
      BY <1>4, <1>7
    <3>2. left = 1 => fifo' = <<>>
      BY <1>2, <1>4, <1>7
    <3> QED
      BY <3>1, <3>2
  <2>7. /\ Len(todo') <= 4 => divisor'[1] = 3
        /\ Len(todo') <= 3 => divisor'[2] = 0
        /\ Len(todo') \in 3 .. 5 => dlab'
        /\ Len(todo') <= 2 => ~dlab'
        /\ Len(todo') <= 1 => fifo' = <<>>
    <3>1. Len(todo') = left - 1
      BY <1>2, <1>5
    <3>2. left <= 5 => divisor'[1] = 3
      <4>1. left <= 4 => divisor[1] = 3
        BY <1>2
      <4> QED
        BY <2>3, <4>1
    <3>3. left <= 4 => divisor'[2] = 0
      BY <1>2, <2>4, <2>5
    <3>4. /\ Len(todo') \in 3 .. 5 => left \in 4 .. 6
          /\ Len(todo') <= 2 => left <= 3
      BY <3>1
    <3>5. /\ Len(todo') <= 4 => left <= 5
          /\ Len(todo') <= 3 => left <= 4
          /\ Len(todo') <= 1 => left <= 2
      BY <3>1
    <3> QED
      BY <2>2, <2>6, <3>2, <3>3, <3>4, <3>5, Zenon
  <2>8. CASE left = 1
    <3>1. divisor' = <<3, 0>>
      BY <1>2, <2>5, <2>8
    <3>2. pc' = "ready" /\ Len(fifo') = 0 /\ Len(sent') = 0 /\ lost' = {} /\ ~dlab'
      <4>1. left = Len(todo)
        BY <1>2
      <4>2. fifo' = <<>> /\ ~dlab'
        BY <2>2, <2>6, <2>8
      <4> QED
        BY <1>1, <1>7, <2>8, <4>1, <4>2
    <3> QED
      BY <2>1, <3>1, <3>2 DEF X86Inv
  <2>9. CASE left # 1
    <3>1. pc' = "init" /\ Len(todo') \in 1 .. 7
      <4>1. left = Len(todo) /\ Len(todo') = left - 1
        BY <1>2, <1>5
      <4>2. pc' = "init"
        BY <1>1, <2>9, <4>1
      <4>3. left - 1 \in 1 .. 7
        BY <2>9
      <4> QED
        BY <4>1, <4>2, <4>3
    <3> QED
      BY <1>5, <2>1, <2>7, <3>1 DEF X86Inv
  <2> QED
    BY <2>8, <2>9
<1>10. pc' \in {"init", "ready"} /\ todo' \in Seq(Nat \X Nat)
  BY <1>1, <1>5
<1> QED
  BY <1>1, <1>7, <1>8, <1>9, <1>10 DEF UartInv

\* One write of the setup on aarch64 changes nothing but what is left of it.
LEMMA Store64Keeps == UartInv /\ arch # "x86_64" /\ SerialInit => UartInv'
<1> SUFFICES ASSUME UartInv, arch # "x86_64", SerialInit PROVE UartInv'
  OBVIOUS
<1>1. /\ pc = "init" /\ arch = "aarch64" /\ Aarch64Inv /\ FifoInv /\ PolledInv
      /\ todo \in Seq(Nat \X Nat)
      /\ Store64(todo[1][1], todo[1][2]) /\ todo' = Tail(todo)
      /\ pc' = IF Len(todo) = 1 THEN "ready" ELSE "init"
      /\ arch' = arch /\ c' = c
  BY DEF UartInv, SerialInit
<1>2. todo # <<>> /\ \A k \in 1 .. Len(todo) : todo[k][1] \in {72, 80, 88, 96, 136}
  BY <1>1 DEF Aarch64Inv
<1>3. /\ Len(todo) \in Nat /\ Len(todo) >= 1 /\ todo' \in Seq(Nat \X Nat)
      /\ Len(todo') = Len(todo) - 1 /\ \A k \in 1 .. Len(todo) - 1 : todo'[k] = todo[k + 1]
  BY <1>1, <1>2
<1>4. /\ LCRH \notin {todo[1][1], todo[1][1] + 4}
      /\ fifo_on' = fifo_on /\ UNCHANGED <<fifo, sent, lost>>
  <2>1. todo[1][1] \in {72, 80, 88, 96, 136}
    BY <1>2, <1>3
  <2>2. LCRH # todo[1][1] /\ LCRH # todo[1][1] + 4
    BY <2>1 DEF LCRH
  <2> QED
    BY <1>1, <2>2 DEF Store64
<1>5. Aarch64Inv'
  <2> SUFFICES ASSUME pc' = "init"
               PROVE  todo' # <<>> /\ \A k \in 1 .. Len(todo') : todo'[k][1] \in {72, 80, 88, 96, 136}
    BY DEF Aarch64Inv
  <2>1. Len(todo) # 1
    BY <1>1
  <2>2. Len(todo') >= 1 /\ \A k \in 1 .. Len(todo') : k + 1 \in 1 .. Len(todo)
    BY <1>3, <2>1
  <2>3. todo' # <<>>
    BY <1>3, <2>2
  <2>4. \A k \in 1 .. Len(todo') : k \in 1 .. Len(todo) - 1
    BY <1>3
  <2>5. \A k \in 1 .. Len(todo') : todo'[k] = todo[k + 1]
    BY <1>3, <2>4
  <2> QED
    BY <1>2, <2>2, <2>3, <2>5
<1>6. FifoInv' /\ PolledInv' /\ pc' \in {"init", "ready"}
  <2>1. FifoInv'
    BY <1>1, <1>4 DEF FifoInv, Depth
  <2>2. lost = {} /\ pc' \in {"init", "ready"}
    BY <1>1 DEF UartInv
  <2> QED
    BY <1>1, <1>4, <2>1, <2>2 DEF PolledInv
<1> QED
  BY <1>1, <1>3, <1>4, <1>5, <1>6 DEF UartInv

\* What the steps of serial_putc leave alone.
LEMMA CallKeeps ==
    ASSUME UartInv, FifoInv', pc # "init", pc' \in {"ready", "poll", "cr", "char"},
           c' \in {"x", "\n"}, UNCHANGED <<arch, has_fifo, fifo_on, enabled, dlab, divisor, todo>>,
           arch = "x86_64" => Len(fifo') <= Len(sent') /\ (lost' # {} => Len(sent') > Depth),
           arch # "x86_64" => PolledInv',
           "byte" \notin {sent'[k] : k \in DOMAIN sent'}
    PROVE  UartInv'
<1>1. Depth' = Depth /\ Aarch64Inv'
  BY DEF Depth, Aarch64Inv
<1>2. arch = "x86_64" => X86Inv'
  BY <1>1 DEF X86Inv, UartInv
<1> QED
  BY <1>1, <1>2 DEF UartInv

LEMMA PutcKeeps == UartInv /\ (Putc \/ PollDone) => UartInv'
<1> SUFFICES ASSUME UartInv, Putc \/ PollDone PROVE UartInv'
  OBVIOUS
<1>1. /\ UNCHANGED <<config, fifo, todo, sent, lost>> /\ pc \in {"ready", "poll"}
      /\ c' \in {"x", "\n"} /\ pc' \in {"poll", "cr", "char"}
      /\ pc' # "poll" => ~Busy /\ c' = c
      /\ pc' = "cr" => c = "\n"
      /\ pc' = "char" => c # "\n"
  BY DEF Putc, PollDone, UartInv, config
<1>2. FifoInv'
  BY <1>1 DEF FifoInv, Depth, config, UartInv
<1>3. arch = "x86_64" => Len(fifo') <= Len(sent') /\ (lost' # {} => Len(sent') > Depth)
  BY <1>1 DEF UartInv, X86Inv, config
<1>4. ASSUME arch # "x86_64" PROVE PolledInv'
  <2>1. \A n \in lost' : HalfLost(n)'
    BY <1>1, <1>4 DEF UartInv, PolledInv, HalfLost, Pair, config
  <2>2. pc' # "poll" => Len(fifo) < Depth /\ (arch = "riscv64" => fifo = <<>>)
    <3>1. Len(fifo) \in Nat /\ Depth \in Nat /\ Depth >= 1 /\ Len(fifo) <= Depth /\ Len(<<>>) = 0
      BY DepthFacts DEF UartInv, FifoInv
    <3>2. arch = "aarch64" => Busy = (Len(fifo) = Depth)
      BY DEF Busy
    <3>3. arch = "riscv64" => Busy = (fifo # <<>>)
      BY DEF Busy
    <3>4. arch = "aarch64" \/ arch = "riscv64"
      BY <1>4 DEF UartInv
    <3> SUFFICES ASSUME pc' # "poll" PROVE Len(fifo) < Depth /\ (arch = "riscv64" => fifo = <<>>)
      OBVIOUS
    <3>5. ~Busy
      BY <1>1
    <3>6. arch = "riscv64" => fifo = <<>>
      BY <3>3, <3>5
    <3>7. arch = "aarch64" => Len(fifo) # Depth
      BY <3>2, <3>5
    <3> QED
      BY <3>1, <3>4, <3>6, <3>7
  <2>3. arch = "riscv64" /\ fifo_on => lost = {}
    BY <1>4 DEF UartInv, PolledInv
  <2> QED
    BY <1>1, <2>1, <2>2, <2>3 DEF PolledInv, Depth, config
<1> QED
  BY <1>1, <1>2, <1>3, <1>4, CallKeeps DEF config, UartInv

\* A character of serial_putc on x86-64: nothing is lost before more is written than the
\* FIFO holds.
LEMMA UnpolledLoad ==
    ASSUME UartInv, arch = "x86_64", pc # "init", NEW ch \in {"x", "\n", "\r"}, Load(ch),
           UNCHANGED fifo_on
    PROVE  Len(fifo') <= Len(sent') /\ (lost' # {} => Len(sent') > Depth)
<1>1. FifoInv /\ X86Inv /\ ch \in PortChars
  BY DEF UartInv, PortChars
<1>2. /\ Len(sent) \in Nat /\ Len(fifo) \in Nat /\ Depth \in Nat /\ Len(fifo) <= Len(sent)
      /\ lost # {} => Len(sent) > Depth
  BY <1>1, DepthFacts DEF FifoInv, X86Inv
<1>3. /\ Len(sent') = Len(sent) + 1 /\ Len(fifo') \in Nat /\ Len(fifo') <= Len(fifo) + 1
      /\ lost' = lost \/ Len(fifo) >= Depth
  BY <1>1, Loaded
<1>4. Len(fifo') <= Len(sent') /\ Len(sent') > Len(sent)
  BY <1>2, <1>3
<1>5. ASSUME lost' # {} PROVE Len(sent') > Depth
  <2>1. CASE lost' = lost
    BY <1>2, <1>3, <1>5, <2>1
  <2>2. CASE Len(fifo) >= Depth
    BY <1>2, <1>3, <2>2
  <2> QED
    BY <1>3, <2>1, <2>2
<1> QED
  BY <1>4, <1>5

\* Pairs that are written stay pairs.
LEMMA PairsStay ==
    ASSUME NEW S, sent \in Seq(S), NEW ch, sent' = Append(sent, ch), NEW n \in Nat, Pair(n)
    PROVE  Pair(n)' /\ n \in 1 .. Len(sent) /\ n + 1 \in 1 .. Len(sent)
BY DEF Pair

\* With room nothing more is lost, and what was lost before is still half of a line end.
LEMMA RoomyLoad ==
    ASSUME UartInv, NEW ch \in {"x", "\n", "\r"}, Load(ch), UNCHANGED fifo_on,
           Len(fifo) < Depth, \A n \in lost : HalfLost(n)
    PROVE  /\ lost' = lost /\ \A n \in lost' : HalfLost(n)'
           /\ sent' # <<>> /\ sent'[Len(sent')] = ch /\ Len(sent') \notin lost'
           /\ fifo' # <<>> => fifo'[Len(fifo')] = Len(sent')
           /\ Len(fifo') <= Len(fifo) + 1
<1>1. FifoInv /\ ch \in PortChars
  BY DEF UartInv, PortChars
<1>2. /\ sent \in Seq(PortChars) /\ Len(sent) \in Nat /\ lost \subseteq 1 .. Len(sent)
      /\ Depth \in Nat /\ Len(fifo) \in Nat
  BY <1>1, DepthFacts DEF FifoInv
<1>3. /\ sent' = Append(sent, ch) /\ Len(sent') = Len(sent) + 1 /\ sent'[Len(sent')] = ch
      /\ Len(fifo') \in Nat /\ Len(fifo') <= Len(fifo) + 1
      /\ lost' = lost /\ fifo' # <<>> /\ fifo'[Len(fifo')] = Len(sent')
  <2>1. ~(Len(fifo) >= Depth)
    BY <1>2
  <2> QED
    BY <1>1, <2>1, Loaded
<1>4. sent' # <<>> /\ Len(sent') \notin lost'
  BY <1>2, <1>3
<1>5. ASSUME NEW n \in lost' PROVE HalfLost(n)'
  <2>1. n \in lost /\ n \in Nat /\ n - 1 \in Nat /\ HalfLost(n)
    BY <1>2, <1>3
  <2>2. Pair(n) => Pair(n)'
    BY <1>2, <1>3, <2>1, PairsStay
  <2>3. Pair(n - 1) => Pair(n - 1)'
    BY <1>2, <1>3, <2>1, PairsStay
  <2> QED
    BY <1>3, <2>1, <2>2, <2>3 DEF HalfLost
<1> QED
  BY <1>3, <1>4, <1>5

\* The second half of a line end: it or the half before it may be lost, not both.
LEMMA SecondHalf ==
    ASSUME UartInv, Load("\n"), UNCHANGED fifo_on, sent # <<>>, sent[Len(sent)] = "\r",
           Len(sent) \notin lost, fifo # <<>> => fifo[Len(fifo)] = Len(sent),
           \A n \in lost : HalfLost(n)
    PROVE  \A n \in lost' : HalfLost(n)'
<1>1. FifoInv /\ "\n" \in PortChars
  BY DEF UartInv, PortChars
<1>0. PICK m \in Nat : m = Len(sent)
  BY <1>1 DEF FifoInv
<1>2. /\ sent \in Seq(PortChars) /\ m = Len(sent) /\ m > 0 /\ lost \subseteq 1 .. m
      /\ Depth \in Nat /\ Depth >= 1 /\ Len(fifo) \in Nat
  BY <1>0, <1>1, DepthFacts DEF FifoInv
<1>3. /\ sent' = Append(sent, "\n") /\ Len(sent') = m + 1 /\ sent'[m + 1] = "\n"
      /\ \A k \in 1 .. m : sent'[k] = sent[k]
      /\ \/ lost' = lost
         \/ lost' = lost \cup {m + 1}
         \/ Len(fifo) >= Depth /\ lost' = lost \cup ({fifo[Len(fifo)]} \ {0})
  BY <1>0, <1>1, Loaded
<1>4. Pair(m)'
  BY <1>2, <1>3 DEF Pair
<1>5. lost' \subseteq lost \cup {m} \/ lost' = lost \cup {m + 1}
  <2>1. Len(fifo) >= Depth => fifo[Len(fifo)] = m
    BY <1>2
  <2> QED
    BY <1>3, <2>1
<1>6. lost \subseteq lost' /\ m \notin lost /\ m + 1 \notin lost
  BY <1>2, <1>3
<1>7. ASSUME NEW n \in lost PROVE HalfLost(n)'
  <2>1. n \in Nat /\ n - 1 \in Nat /\ n <= m /\ HalfLost(n)
    BY <1>2
  <2>2. CASE Pair(n) /\ n + 1 \notin lost
    <3>1. Pair(n)' /\ n + 1 \in 1 .. m /\ sent[n + 1] = "\n"
      BY <1>2, <1>3, <2>1, <2>2, PairsStay DEF Pair
    <3>2. n + 1 # m /\ n + 1 # m + 1
      BY <1>2, <3>1
    <3>3. n + 1 \notin lost'
      BY <1>5, <2>2, <3>2
    <3> QED
      BY <3>1, <3>3 DEF HalfLost
  <2>3. CASE Pair(n - 1) /\ n - 1 \notin lost
    <3>1. Pair(n - 1)' /\ n - 1 # m /\ n - 1 # m + 1
      BY <1>2, <1>3, <2>1, <2>3, PairsStay
    <3>2. n - 1 \notin lost'
      BY <1>5, <2>3, <3>1
    <3> QED
      BY <3>1, <3>2 DEF HalfLost
  <2> QED
    BY <2>1, <2>2, <2>3 DEF HalfLost
<1>8. m \in lost' => HalfLost(m)'
  <2>1. m \in lost' => m + 1 \notin lost'
    <3>1. m # m + 1
      BY <1>2
    <3> QED
      BY <1>5, <1>6, <3>1
  <2> QED
    BY <1>4, <2>1 DEF HalfLost
<1>9. m + 1 \in lost' => HalfLost(m + 1)'
  <2>1. m + 1 \in lost' => m \notin lost' /\ (m + 1) - 1 = m
    <3>1. m # m + 1 /\ (m + 1) - 1 = m
      BY <1>2
    <3> QED
      BY <1>5, <1>6, <3>1
  <2> QED
    BY <1>4, <2>1 DEF HalfLost
<1>10. \A n \in lost' : n \in lost \/ n = m \/ n = m + 1
  BY <1>5
<1> QED
  BY <1>7, <1>8, <1>9, <1>10

\* A character of serial_putc.
LEMMA SendKeeps == UartInv /\ (PutCR \/ PutChar) => UartInv'
<1> SUFFICES ASSUME UartInv, PutCR \/ PutChar PROVE UartInv'
  OBVIOUS
<1>1. PICK ch \in {"x", "\n", "\r"} :
        /\ Load(ch) /\ UNCHANGED <<config, todo, c>> /\ pc \in {"cr", "char"}
        /\ pc = "cr" => ch = "\r" /\ pc' = "char"
        /\ pc = "char" => ch = c /\ pc' = "ready"
  BY DEF PutCR, PutChar, UartInv
<1>2. FifoInv /\ ch \in PortChars /\ ch # "byte" /\ UNCHANGED fifo_on /\ pc # "init"
  BY <1>1 DEF UartInv, PortChars, config
<1>3. /\ FifoInv' /\ sent' = Append(sent, ch) /\ Len(sent') = Len(sent) + 1 /\ Len(sent) \in Nat
      /\ sent'[Len(sent')] = ch /\ \A k \in 1 .. Len(sent) : sent'[k] = sent[k]
      /\ Len(fifo') \in Nat /\ Len(fifo') <= Len(fifo) + 1
  BY <1>1, <1>2, Loaded
<1>4. "byte" \notin {sent'[k] : k \in DOMAIN sent'}
  <2>1. sent' \in Seq(PortChars) /\ sent \in Seq(PortChars)
    BY <1>2, <1>3 DEF FifoInv
  <2>2. \A k \in DOMAIN sent' : k \in DOMAIN sent \/ k = Len(sent')
    BY <1>3, <2>1
  <2>3. \A k \in DOMAIN sent : sent'[k] = sent[k] /\ sent[k] # "byte"
    BY <1>3, <2>1 DEF UartInv
  <2> QED
    BY <1>2, <1>3, <2>2, <2>3
<1>5. arch = "x86_64" => Len(fifo') <= Len(sent') /\ (lost' # {} => Len(sent') > Depth)
  BY <1>1, <1>2, UnpolledLoad
<1>6. ASSUME arch # "x86_64" PROVE PolledInv'
  <2>1. PolledInv /\ \A n \in lost : HalfLost(n)
    BY <1>6 DEF UartInv, PolledInv
  <2>2. Depth \in Nat /\ Depth >= 1 /\ (fifo_on => Depth > 1) /\ Depth' = Depth /\ Len(fifo) \in Nat
        /\ arch' = arch /\ c' = c
    BY <1>1, <1>2, DepthFacts DEF FifoInv, Depth, config
  <2>3. CASE pc = "cr"
    <3>1. Len(fifo) < Depth /\ ch = "\r" /\ pc' = "char" /\ c' = "\n"
      BY <1>1, <2>1, <2>2, <2>3 DEF PolledInv
    <3>2. /\ lost' = lost /\ \A n \in lost' : HalfLost(n)'
          /\ sent' # <<>> /\ sent'[Len(sent')] = "\r" /\ Len(sent') \notin lost'
          /\ fifo' # <<>> => fifo'[Len(fifo')] = Len(sent')
          /\ Len(fifo') <= Len(fifo) + 1
      BY <1>1, <1>2, <2>1, <3>1, RoomyLoad
    <3>3. arch = "riscv64" => Len(fifo') <= 1 /\ (fifo_on => lost' = {})
      <4>1. arch = "riscv64" => fifo = <<>> /\ (fifo_on => lost = {})
        BY <2>1, <2>3 DEF PolledInv
      <4> QED
        BY <1>3, <3>2, <4>1
    <3> QED
      BY <1>2, <2>2, <3>1, <3>2, <3>3 DEF PolledInv
  <2>4. CASE pc = "char"
    <3>1. pc' = "ready" /\ ch = c
      BY <1>1, <2>4
    <3>2. CASE Len(fifo) < Depth
      <4>1. lost' = lost /\ \A n \in lost' : HalfLost(n)'
        BY <1>1, <1>2, <2>1, <3>2, RoomyLoad
      <4> QED
        BY <1>2, <2>1, <2>2, <3>1, <4>1 DEF PolledInv
    <3>3. CASE ~(Len(fifo) < Depth)
      <4>1. ch = "\n" /\ sent # <<>> /\ sent[Len(sent)] = "\r" /\ Len(sent) \notin lost
            /\ (fifo # <<>> => fifo[Len(fifo)] = Len(sent))
        BY <2>1, <2>4, <3>1, <3>3 DEF PolledInv
      <4>2. \A n \in lost' : HalfLost(n)'
        BY <1>1, <1>2, <2>1, <4>1, SecondHalf
      <4>3. ~(arch = "riscv64" /\ fifo_on)
        BY <2>1, <2>2, <2>4, <3>3 DEF PolledInv
      <4> QED
        BY <1>2, <2>2, <3>1, <4>2, <4>3 DEF PolledInv
    <3> QED
      BY <3>2, <3>3
  <2> QED
    BY <1>1, <2>3, <2>4
<1>7. pc' \in {"ready", "char"} /\ c' \in {"x", "\n"}
  BY <1>1 DEF UartInv
<1> QED
  BY <1>1, <1>2, <1>3, <1>4, <1>5, <1>6, <1>7, CallKeeps DEF config

\* The transmitter sends a character.
LEMMA TransmitKeeps == UartInv /\ Transmit => UartInv'
<1> SUFFICES ASSUME UartInv, Transmit PROVE UartInv'
  OBVIOUS
<1>1. /\ fifo # <<>> /\ fifo' = Tail(fifo)
      /\ UNCHANGED <<arch, has_fifo, fifo_on, enabled, dlab, divisor, pc, todo, c, sent, lost>>
  BY DEF Transmit, config
<1>2. FifoInv /\ Depth' = Depth /\ Depth \in Nat
  BY <1>1, DepthFacts DEF UartInv, Depth
<1>3. /\ Len(fifo) \in Nat /\ fifo' \in Seq(0 .. Len(sent)) /\ Len(fifo') = Len(fifo) - 1
      /\ \A k \in 1 .. Len(fifo) - 1 : fifo'[k] = fifo[k + 1]
      /\ Len(fifo') \in Nat
  BY <1>1, <1>2 DEF FifoInv
<1>4. FifoInv' /\ Len(fifo') <= Len(fifo) /\ Len(sent) \in Nat
  BY <1>1, <1>2, <1>3 DEF FifoInv
<1>5. fifo' # <<>> => fifo'[Len(fifo')] = fifo[Len(fifo)]
  <2> SUFFICES ASSUME fifo' # <<>> PROVE fifo'[Len(fifo')] = fifo[Len(fifo)]
    OBVIOUS
  <2>1. Len(fifo') \in 1 .. Len(fifo) - 1 /\ Len(fifo') + 1 = Len(fifo)
    BY <1>3
  <2> QED
    BY <1>3, <2>1
<1>6. arch = "x86_64" => X86Inv'
  BY <1>1, <1>2, <1>4 DEF UartInv, X86Inv
<1>7. arch = "aarch64" => Aarch64Inv'
  BY <1>1 DEF UartInv, Aarch64Inv
<1>8. ASSUME arch # "x86_64" PROVE PolledInv'
  <2>1. PolledInv /\ \A n \in lost' : HalfLost(n)'
    BY <1>1, <1>8 DEF UartInv, PolledInv, HalfLost, Pair
  <2> QED
    BY <1>1, <1>2, <1>3, <1>4, <1>5, <2>1 DEF PolledInv
<1> QED
  BY <1>1, <1>4, <1>6, <1>7, <1>8 DEF UartInv

LEMMA UartKept == UartInv /\ [UartNext]_port => UartInv'
<1> SUFFICES ASSUME UartInv, [UartNext]_port PROVE UartInv'
  OBVIOUS
<1>1. CASE UNCHANGED port
  BY <1>1, SMTT(30) DEF port, config, UartInv, FifoInv, Depth, X86Inv, Aarch64Inv, PolledInv, HalfLost, Pair
<1>2. CASE Spin \/ Idle
  BY <1>1, <1>2 DEF Spin, Idle
<1> QED
  BY <1>1, <1>2, OutbKeeps, Store64Keeps, PutcKeeps, SendKeeps, TransmitKeeps DEF UartNext, Driver

\* The invariant of a port holds whatever the firmware left in it.
THEOREM UartInvariant == UartSpec => []UartInv
BY UartInitInv, UartKept, PTL DEF UartSpec

\* A driver that polls loses nothing but half of a line end, for a FIFO of any depth
\* (serial.c of aarch64:57-62 and of riscv64:44-49).
THEOREM PolledTextKept == UartSpec => []PolledKeepsText
<1>1. UartInv => PolledKeepsText
  BY DEF UartInv, PolledInv, HalfLost, PolledKeepsText
<1> QED
  BY <1>1, UartInvariant, PTL

\* The driver of x86-64, which does not poll, loses nothing before it has written more
\* than the FIFO holds (serial.c of x86_64:31, 38-41).
THEOREM OneFifoKept == UartSpec => []UnpolledKeepsOneFifo
<1>1. UartInv => UnpolledKeepsOneFifo
  BY DEF UartInv, X86Inv, UnpolledKeepsOneFifo
<1> QED
  BY <1>1, UartInvariant, PTL

\* Whatever DLAB was, serial_init of x86-64 sets the divisor, leaves the registers ready
\* for text and sends no byte of the setup (serial.c:26-32).
THEOREM BaudRateSet == UartSpec => []InitSetsBaudRate
<1>1. UartInv => InitSetsBaudRate
  BY DEF UartInv, X86Inv, InitSetsBaudRate
<1> QED
  BY <1>1, UartInvariant, PTL
===============================================================================
