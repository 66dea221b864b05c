----------------------------- MODULE Vsnprintk -----------------------------
(***************************************************************************)
(* vsnprintk of kernel/msg/vsnprintk.c: one call, character by character.  *)
(*                                                                         *)
(* The loop moves a pointer o into the buffer and keeps two counters,      *)
(* written and rem, which it advances in nine places and never compares;   *)
(* only the loops that copy a number test o against the end of the buffer. *)
(*                                                                         *)
(* A format is a sequence of pieces, a character or a conversion, so that  *)
(* what it stands for is known; fmt is its text in memory, with the NUL    *)
(* that ends it ("") and what the program has placed behind it.            *)
(***************************************************************************)
EXTENDS Stdlib, FiniteSets

CONSTANTS
    Chars,          \* the values of a char; "" is the NUL
    Formats,        \* sequences of pieces
    Arguments,      \* sequences of arguments; each can be read as any type
    Sizes,          \* values of out_sz
    Beyond          \* characters behind the NUL of a format, up to a NUL

Piece == [conversion : BOOLEAN, longs : Nat, ch : Chars]
Argument == [string : Seq(Chars), null : BOOLEAN, ch : Chars, bits : Nat]

Numeric == {"d", "i", "u", "x", "X", "p"}

TakesArgument(piece) == piece.conversion /\ piece.ch \in Numeric \cup {"s", "c"}

\* How many arguments the first n pieces of a format take.
Takers(ps, n) == Cardinality({m \in 1 .. n : TakesArgument(ps[m])})

ASSUME CharsAssumption ==
    /\ {Upper[d] : d \in 1 .. 36} \cup {Lower[d] : d \in 1 .. 36} \subseteq Chars
    /\ {"", "%", "-", "(", ")"} \subseteq Chars
ASSUME SizesAssumption == Sizes \subseteq Nat
\* A percent sign begins a conversion, its letter is the first character that is no l,
\* and none but the last may lack it: every text is such a sequence of pieces.
ASSUME FormatsAssumption ==
    \A f \in Formats :
        /\ f \in Seq(Piece)
        /\ \A k \in 1 .. Len(f) :
              /\ f[k].conversion => f[k].ch # "l"
              /\ f[k].conversion /\ f[k].ch = "" => k = Len(f)
              /\ ~f[k].conversion => f[k].ch \notin {"", "%"}
\* A caller passes the arguments its format takes; C promises nothing of others.
ASSUME ArgumentsAssumption ==
    \A a \in Arguments : a \in Seq(Argument) /\ \A f \in Formats : Takers(f, Len(f)) <= Len(a)
\* What is behind a format is no format again.
ASSUME BeyondAssumption == Beyond \in Seq(Chars \ {"%"})

VARIABLES
    pieces, args, out_sz,   \* the call
    fmt,                    \* the format in memory
    out,                    \* memory from out on
    o, p,                   \* the pointers, as offsets in out and fmt
    rem, written,           \* the counters
    taken,                  \* arguments va_arg has taken
    src, i, l,              \* what a conversion copies from, and a number's indices
    reported,               \* "o pointer out of bounds!" was logged
    pc                      \* where the call stands

call == <<pieces, args, out_sz, fmt>>
copying == <<src, i, l>>
vars == <<call, out, o, p, rem, written, taken, copying, reported, pc>>

Unset == "unset"

Letters(piece) ==
    (IF piece.conversion THEN <<"%">> \o [k \in 1 .. piece.longs |-> "l"] ELSE <<>>)
    \o (IF piece.ch = "" THEN <<>> ELSE <<piece.ch>>)

Join(seqs) ==
    LET joined[k \in 0 .. Len(seqs)] == IF k = 0 THEN <<>> ELSE joined[k - 1] \o seqs[k]
    IN  joined[Len(seqs)]

FormatText(ps) == Join([k \in DOMAIN ps |-> Letters(ps[k])])

Init ==
    /\ pieces \in Formats /\ args \in Arguments /\ out_sz \in Sizes
    /\ fmt = FormatText(pieces) \o <<"">> \o Beyond \o <<"">>
    /\ out = [k \in 0 .. out_sz |-> Unset]      \* and one place beyond
    /\ o = 0 /\ p = 0
    /\ rem = (IF out_sz > 0 THEN out_sz - 1 ELSE 0) /\ written = 0
    /\ taken = 0
    /\ src = <<>> /\ i = 0 /\ l = 0
    /\ reported = FALSE
    /\ pc = "loop"

\* Characters are stored at o, and all three are advanced.
Store(text) ==
    /\ out' = [k \in DOMAIN out |->
                  IF k >= o /\ k < o + Len(text) THEN text[k - o + 1] ELSE out[k]]
    /\ o' = o + Len(text)
    /\ rem' = rem - Len(text)
    /\ written' = written + Len(text)

InLoop == pc = "loop" /\ fmt[p + 1] # "" /\ rem > 0

Plain ==
    /\ InLoop
    /\ fmt[p + 1] # "%"
    /\ Store(<<fmt[p + 1]>>)
    /\ p' = p + 1
    /\ UNCHANGED <<call, taken, copying, reported, pc>>

\* A format that ends in a percent sign.
PercentEnd ==
    /\ InLoop
    /\ fmt[p + 1] = "%"
    /\ fmt[p + 2] = ""
    /\ p' = p + 1
    /\ pc' = "break"
    /\ UNCHANGED <<call, out, o, rem, written, taken, copying, reported>>

\* The letters l behind the percent sign.
LongCount ==
    CHOOSE n \in 0 .. Len(fmt) :
        /\ fmt[p + 2 + n] # "l"
        /\ \A m \in 0 .. n - 1 : fmt[p + 2 + m] = "l"

\* The switch sees this character.
Conversion == fmt[p + 2 + LongCount]

AtConversion == InLoop /\ fmt[p + 1] = "%" /\ fmt[p + 2] # ""

\* va_arg takes the next argument; beyond the last it is undefined.
Arg == args[taken + 1]

\* An argument as the type the l say: int or unsigned int is its lower bits.
AsUnsigned(arg, longs) == IF longs = 0 THEN arg.bits % 2 ^ IntBits ELSE arg.bits

AsSigned(arg, longs) ==
    LET u == AsUnsigned(arg, longs)
        w == IF longs = 0 THEN IntBits ELSE LongBits
    IN  IF u >= 2 ^ (w - 1) THEN u - 2 ^ w ELSE u

\* %x writes the letters of the digits small.
LowerCase(text) ==
    [k \in DOMAIN text |->
        IF text[k] \in {"A", "B", "C", "D", "E", "F"}
        THEN Lower[DigitValue(text[k]) + 1] ELSE text[k]]

\* What is in tmp_buf after a conversion of a number.
NumberText(conv, longs, arg) ==
    CASE conv \in {"d", "i"} -> Itoa(AsSigned(arg, longs), 10)
      [] conv = "u" -> Uitoa(AsUnsigned(arg, longs), 10)
      [] conv = "X" -> Uitoa(AsUnsigned(arg, longs), 16)
      [] conv = "x" -> LowerCase(Uitoa(AsUnsigned(arg, longs), 16))
      [] conv = "p" -> Uitoa(arg.bits, 16)

Null == <<"(", "n", "u", "l", "l", ")">>

StringOf(arg) == IF arg.null THEN Null ELSE arg.string

\* A string is copied while there is room ...
ConvString ==
    /\ AtConversion
    /\ Conversion = "s"
    /\ src' = StringOf(Arg)
    /\ taken' = taken + 1
    /\ p' = p + 1 + LongCount
    /\ pc' = "string"
    /\ UNCHANGED <<call, out, o, rem, written, i, l, reported>>

CopyString ==
    /\ pc = "string"
    /\ src # <<>> /\ rem > 0
    /\ Store(<<Head(src)>>)
    /\ src' = Tail(src)
    /\ UNCHANGED <<call, p, taken, i, l, reported, pc>>

EndString ==
    /\ pc = "string"
    /\ src = <<>> \/ rem = 0
    /\ src' = <<>>
    /\ p' = p + 1
    /\ pc' = "loop"
    /\ UNCHANGED <<call, out, o, rem, written, taken, i, l, reported>>

\* ... a number up to a length computed before; its loop tests the pointer and
\* the counters follow at the end.
ConvNumber ==
    LET text == NumberText(Conversion, LongCount, Arg) IN
    /\ AtConversion
    /\ Conversion \in Numeric
    /\ src' = text
    /\ l' = IF Len(text) > rem THEN rem ELSE Len(text)
    /\ i' = 0
    /\ taken' = taken + 1
    /\ p' = p + 1 + LongCount
    /\ pc' = "number"
    /\ UNCHANGED <<call, out, o, rem, written, reported>>

CopyDigit ==
    /\ pc = "number"
    /\ i < l
    /\ IF o >= out_sz
       THEN /\ reported' = TRUE
            /\ i' = l
            /\ UNCHANGED <<out, o>>
       ELSE /\ out' = [out EXCEPT ![o] = src[i + 1]]
            /\ o' = o + 1
            /\ i' = i + 1
            /\ UNCHANGED reported
    /\ UNCHANGED <<call, p, rem, written, taken, src, l, pc>>

KeepsRemBug ==
    /\ pc = "number"
    /\ i = l
    /\ rem' = rem - Len(src)
    /\ written' = written + l
    /\ src' = <<>> /\ i' = 0 /\ l' = 0
    /\ p' = p + 1
    /\ pc' = "loop"
    /\ UNCHANGED <<call, out, o, taken, reported>>

EndNumber ==
    /\ pc = "number"
    /\ i = l
    /\ rem' = rem - l
    /\ written' = written + l
    /\ src' = <<>> /\ i' = 0 /\ l' = 0
    /\ p' = p + 1
    /\ pc' = "loop"
    /\ UNCHANGED <<call, out, o, taken, reported>>

ConvChar ==
    /\ AtConversion
    /\ Conversion = "c"
    /\ Store(<<Arg.ch>>)
    /\ taken' = taken + 1
    /\ p' = p + 2 + LongCount
    /\ UNCHANGED <<call, copying, reported, pc>>

TakesForPercentBug ==
    /\ AtConversion
    /\ Conversion = "%"
    /\ Store(<<"%">>)
    /\ taken' = taken + 1
    /\ p' = p + 2 + LongCount
    /\ UNCHANGED <<call, copying, reported, pc>>

ConvPercent ==
    /\ AtConversion
    /\ Conversion = "%"
    /\ Store(<<"%">>)
    /\ p' = p + 2 + LongCount
    /\ UNCHANGED <<call, taken, copying, reported, pc>>

SkipsTwoBug ==
    /\ AtConversion
    /\ Conversion \notin Numeric \cup {"s", "c", "%"}
    /\ Store(IF rem > 1 THEN <<"%", Conversion>> ELSE <<"%">>)
    /\ p' = p + 3 + LongCount
    /\ UNCHANGED <<call, taken, copying, reported, pc>>

\* An unknown conversion is shown.  So is the NUL of a format that ends in %l:
\* the loop goes on behind it.
ConvOther ==
    /\ AtConversion
    /\ Conversion \notin Numeric \cup {"s", "c", "%"}
    /\ Store(IF rem > 1 THEN <<"%", Conversion>> ELSE <<"%">>)
    /\ p' = p + 2 + LongCount
    /\ UNCHANGED <<call, taken, copying, reported, pc>>

TerminatesNothingBug ==
    /\ pc = "break" \/ (pc = "loop" /\ ~InLoop)
    /\ out' = [out EXCEPT ![o] = ""]
    /\ pc' = "done"
    /\ UNCHANGED <<call, o, p, rem, written, taken, copying, reported>>

\* A buffer of size 0 is left alone.
Terminate ==
    /\ pc = "break" \/ (pc = "loop" /\ ~InLoop)
    /\ out' = IF out_sz = 0 THEN out
              ELSE [out EXCEPT ![IF written < out_sz THEN o ELSE out_sz - 1] = ""]
    /\ pc' = "done"
    /\ UNCHANGED <<call, o, p, rem, written, taken, copying, reported>>

Returned == pc = "done" /\ UNCHANGED vars

Next ==
    \/ Plain \/ PercentEnd
    \/ ConvString \/ CopyString \/ EndString
    \/ ConvNumber \/ CopyDigit \/ EndNumber
    \/ ConvChar \/ ConvPercent \/ ConvOther
    \/ Terminate \/ Returned

Spec == Init /\ [][Next]_vars

-----------------------------------------------------------------------------
TypeOK ==
    /\ out \in [0 .. out_sz -> Chars \cup {Unset}]
    /\ o \in 0 .. out_sz /\ rem \in 0 .. out_sz /\ written \in 0 .. out_sz
    /\ p \in Nat /\ taken \in Nat
    /\ l \in 0 .. rem /\ i \in 0 .. l
    /\ reported \in BOOLEAN
    /\ pc \in {"loop", "string", "number", "break", "done"}

\* The pointer and the two counters agree wherever they are compared to anything:
\* what is written and what remains make up the buffer without its terminator.  In
\* the loop that copies a number the counters lag by the digits copied, and the
\* message "o pointer out of bounds!" can never be logged, as l was cut to rem before
\* (vsnprintk.c:30-31, 87-101, 232-237).
CountersAgree ==
    /\ o = written + i
    /\ rem = (IF out_sz > 0 THEN out_sz - 1 ELSE 0) - written
    /\ ~reported

\* No character is stored outside the buffer, whatever its size, 0 and 1 included
\* (vsnprintk.c:93-98, 232-237).
StaysInside == out[out_sz] = Unset

\* The l of the last piece were not followed by a letter.
TrailingL(ps) == ps # <<>> /\ ps[Len(ps)].ch = "" /\ ps[Len(ps)].longs > 0

\* The format is read up to its NUL and no further, but for a format that ends in
\* %l (vsnprintk.c:43-50, 214-229).
ReadsOnlyFormat == p > Len(FormatText(pieces)) => TrailingL(pieces)

\* What a piece stands for, given the arguments the pieces before it have taken.
Meaning(k) ==
    LET piece == pieces[k]
        arg == args[1 + Takers(pieces, k - 1)]
    IN  IF ~piece.conversion THEN <<piece.ch>> ELSE
        CASE piece.ch = "" -> <<>>
          [] piece.ch = "s" -> StringOf(arg)
          [] piece.ch = "c" -> <<arg.ch>>
          [] piece.ch = "%" -> <<"%">>
          [] piece.ch \in Numeric -> NumberText(piece.ch, piece.longs, arg)
          [] OTHER -> <<"%", piece.ch>>

Expansion == Join([k \in DOMAIN pieces |-> Meaning(k)])

\* In the end the buffer holds the text the format stands for, cut to the buffer,
\* then the terminator, and its length is returned (vsnprintk.c:35-41, 232-240).
ShowsExpansion ==
    pc = "done" /\ out_sz > 0 /\ ~TrailingL(pieces) =>
        LET shown == IF Len(Expansion) < out_sz THEN Len(Expansion) ELSE out_sz - 1 IN
        /\ written = shown
        /\ \A k \in 0 .. shown - 1 : out[k] = Expansion[k + 1]
        /\ out[shown] = ""
=============================================================================
