------------------------------- MODULE Screen -------------------------------
(***************************************************************************)
(* The screen console of x86-64: tty_output_char_screen of drivers/tty.c   *)
(* and the framebuffer routines of arch/x86_64/drivers/video/screen.c.     *)
(*                                                                         *)
(* The flush loop of tty.c hands the screen one character at a time, with  *)
(* tty_lock held, so a character is one step.  A character is drawn as a   *)
(* full box of its ink, and the ink is its number: which pixels a glyph    *)
(* leaves black, and the colours, are left out.  Coordinates are unsigned  *)
(* words; an address of the framebuffer is row * stride + column, as       *)
(* put_pixel computes it.                                                  *)
(***************************************************************************)
EXTENDS Integers, Sequences

CONSTANTS
    CHAR_WIDTH, CHAR_HEIGHT,    \* the box of a glyph, in pixels
    CHAR_W, CHAR_H,             \* the same with its spacing
    SCREEN_MARGIN,              \* pixels left free at the edges
    Word,                       \* 2^32, the range of uint32_t
    Modes,                      \* the video modes the boot loader may have set
    MaxChars                    \* BOUND: characters shown

\* The kernel's own font and spacing (screen.h), and modes as Limine reports them:
\* a row of pixels is at least as long as it is wide.
ASSUME FontAssumption ==
    /\ CHAR_WIDTH \in Nat \ {0} /\ CHAR_HEIGHT \in Nat \ {0} /\ SCREEN_MARGIN \in Nat
    /\ CHAR_W \in Nat /\ CHAR_W >= CHAR_WIDTH
    /\ CHAR_H \in Nat /\ CHAR_H >= CHAR_HEIGHT
ASSUME WordAssumption == Word \in Nat /\ Word > SCREEN_MARGIN + CHAR_W + CHAR_H
ASSUME ModesAssumption ==
    \A m \in Modes :
        /\ m.width \in 0 .. Word - 1 - CHAR_W /\ m.height \in 0 .. Word - 1 - CHAR_H
        /\ m.stride \in Nat /\ m.stride >= m.width
ASSUME MaxCharsAssumption == MaxChars \in Nat

VARIABLES
    mode,           \* screen_width, screen_height, stride; all 0 without a framebuffer
    fb,             \* the framebuffer: ink by address
    cursor_x,
    cursor_y,
    shown,          \* how many characters the screen was handed
    \* history, read by the properties alone
    lines,          \* the text lines begun: where, when, and their characters
    scrolls         \* how often the screen was scrolled

vars == <<mode, fb, cursor_x, cursor_y, shown, lines, scrolls>>

U32(n) == n % Word

Black == 0

\* The addresses put_pixel writes for a glyph at (x, y): those on the screen.
Box(x, y) ==
    {U32(y + r) * mode.stride + U32(x + c) :
        r \in {s \in 0 .. CHAR_HEIGHT - 1 : U32(y + s) < mode.height},
        c \in {s \in 0 .. CHAR_WIDTH - 1 : U32(x + s) < mode.width}}

\* screen_putc: memory afterwards, wherever the addresses are.
Glyph(pixels, x, y, ink) ==
    LET box == Box(x, y)
    IN  [a \in DOMAIN pixels \cup box |-> IF a \in box THEN ink ELSE pixels[a]]

\* screen_scroll goes by rows that are pixels_per_line apart, not stride.
Line == IF mode.stride \div 4 < mode.width THEN mode.width ELSE mode.stride \div 4

ClearsOneRowMoreBug == {row * Line + x : row \in 0 .. mode.height, x \in 0 .. mode.width - 1}

Rows == {row * Line + x : row \in 0 .. mode.height - 1, x \in 0 .. mode.width - 1}

ScrollsOneRowShortBug(pixels, px) ==
    IF mode.stride = 0 THEN pixels
    ELSE [a \in DOMAIN pixels \cup Rows |->
            IF a \notin Rows THEN pixels[a]
            ELSE IF a \div Line + px - 1 < mode.height THEN pixels[a + (px - 1) * Line]
            ELSE Black]

\* Memory afterwards, wherever the rows are: each takes the content of the row px
\* further down, the last px rows are cleared.
Scroll(pixels, px) ==
    IF mode.stride = 0 THEN pixels
    ELSE [a \in DOMAIN pixels \cup Rows |->
            IF a \notin Rows THEN pixels[a]
            ELSE IF a \div Line + px < mode.height THEN pixels[a + px * Line]
            ELSE Black]

\* print_newline finds the next line below the last row it may start in.
ScrollsLateBug == U32(cursor_y + CHAR_H) > mode.height

MustScroll == U32(cursor_y + CHAR_H) > U32(mode.height - SCREEN_MARGIN)

-----------------------------------------------------------------------------
\* After screen_init: a black screen, the cursor in its corner.  Without a
\* framebuffer it halts, and goes on like this where halt returns.
Init ==
    /\ mode \in Modes
    /\ fb = [a \in 0 .. mode.height * mode.stride - 1 |-> Black]
    /\ cursor_x = SCREEN_MARGIN
    /\ cursor_y = SCREEN_MARGIN
    /\ shown = 0
    /\ lines = <<[y |-> SCREEN_MARGIN, since |-> 0, cells |-> <<>>]>>
    /\ scrolls = 0

\* The history of a character drawn at the cursor.
Noted(kind) ==
    LET cell == [x |-> cursor_x, ink |-> shown + 1, kind |-> kind]
    IN  [lines EXCEPT ![Len(lines)].cells = Append(@, cell)]

\* print_newline, on the framebuffer and the history as the character left them.
PrintNewline(pixels, text) ==
    /\ cursor_x' = SCREEN_MARGIN
    /\ cursor_y' = IF MustScroll THEN U32(U32(cursor_y + CHAR_H) - CHAR_H) ELSE U32(cursor_y + CHAR_H)
    /\ fb' = IF MustScroll THEN Scroll(pixels, CHAR_H) ELSE pixels
    /\ scrolls' = IF MustScroll THEN scrolls + 1 ELSE scrolls
    /\ lines' = Append(text, [y |-> cursor_y', since |-> scrolls', cells |-> <<>>])

\* A newline.
Newline ==
    /\ shown < MaxChars
    /\ shown' = shown + 1
    /\ PrintNewline(fb, lines)
    /\ UNCHANGED mode

\* A character without a glyph is shown as a question mark; the line is not
\* wrapped after it.
Unprintable ==
    /\ shown < MaxChars
    /\ shown' = shown + 1
    /\ fb' = Glyph(fb, cursor_x, cursor_y, shown + 1)
    /\ cursor_x' = U32(cursor_x + CHAR_W)
    /\ lines' = Noted("unprintable")
    /\ UNCHANGED <<mode, cursor_y, scrolls>>

\* A printable character; the line is wrapped when no further one fits.
WrapsLateBug == U32(cursor_x + CHAR_W) > U32(mode.width - SCREEN_MARGIN)

MustWrap == U32(cursor_x + CHAR_W) > U32(mode.width - SCREEN_MARGIN - CHAR_W)

Printable ==
    /\ shown < MaxChars
    /\ shown' = shown + 1
    /\ LET pixels == Glyph(fb, cursor_x, cursor_y, shown + 1)
           text == Noted("printable")
       IN  IF MustWrap
           THEN PrintNewline(pixels, text)
           ELSE /\ cursor_x' = U32(cursor_x + CHAR_W)
                /\ fb' = pixels
                /\ lines' = text
                /\ UNCHANGED <<cursor_y, scrolls>>
    /\ UNCHANGED mode

\* Nothing more is printed.
Halted == shown = MaxChars /\ UNCHANGED vars

Next == Newline \/ Unprintable \/ Printable \/ Halted

Spec == Init /\ [][Next]_vars

-----------------------------------------------------------------------------
\* Types; the framebuffer keeps its extent, so nothing is drawn outside of it
\* (screen.c:36-49, 105-144).
TypeOK ==
    /\ mode \in Modes
    /\ fb \in [0 .. mode.height * mode.stride - 1 -> 0 .. MaxChars]
    /\ cursor_x \in 0 .. Word - 1
    /\ cursor_y \in 0 .. Word - 1
    /\ shown \in 0 .. MaxChars
    /\ scrolls \in 0 .. shown

\* Where line k stands now: one line higher for every scroll since it began.
Top(k) == lines[k].y - CHAR_H * (scrolls - lines[k].since)

\* The characters that should be seen at column x and row y.  The rows of a line
\* that were below the screen when it was written were never drawn.
Seen(x, y) ==
    LET Covers(k, cell) ==
            /\ y - Top(k) \in 0 .. CHAR_HEIGHT - 1
            /\ lines[k].y + (y - Top(k)) < mode.height
            /\ x - cell.x \in 0 .. CHAR_WIDTH - 1
    IN  UNION {{lines[k].cells[i].ink : i \in {j \in DOMAIN lines[k].cells : Covers(k, lines[k].cells[j])}} :
                 k \in DOMAIN lines}

\* The screen is the text: every pixel shows the character whose box covers it,
\* in its line and column, moved up by one line for each scroll, and is black
\* otherwise; in particular the place where the next character goes is black.
\* Holds where rows are not padded; print_newline must not have scrolled a
\* padded framebuffer (screen.c:36-66, 105-153).
ScreenShowsText ==
    mode.stride = mode.width \/ scrolls = 0 =>
        \A x \in 0 .. mode.width - 1, y \in 0 .. mode.height - 1 :
            Seen(x, y) = {fb[y * mode.stride + x]} \ {Black}

\* On a screen of at least twice the margin the next line always starts inside
\* the margins, on a multiple of the line height (screen.c:146-153).
CursorOnPage ==
    mode.height >= 2 * SCREEN_MARGIN =>
        /\ cursor_y \in SCREEN_MARGIN .. mode.height - SCREEN_MARGIN
        /\ (cursor_y - SCREEN_MARGIN) % CHAR_H = 0

\* A printable character is drawn beyond the right margin only where unprintable
\* ones, which do not wrap, have pushed it there: its predecessor on the line is
\* unprintable and stands one place before the end of the line or beyond
\* (tty.c:82-94).
OnlyUnprintablesOverrun ==
    mode.width >= 2 * SCREEN_MARGIN + CHAR_W =>
        \A k \in DOMAIN lines : \A i \in DOMAIN lines[k].cells :
            LET cell == lines[k].cells[i] IN
            cell.kind = "printable" /\ cell.x > mode.width - SCREEN_MARGIN - CHAR_W =>
                i > 1 /\ lines[k].cells[i - 1].kind = "unprintable"
=============================================================================
