------------------------------- MODULE Printk -------------------------------
(***************************************************************************)
(* printk and logk: kernel/msg/printk.c, logk.c, and what they share.      *)
(*                                                                         *)
(* Both format a message into a static buffer, kbuf, one for each, and     *)
(* hand it to tty_write, which takes tty_lock and reads the buffer live.   *)
(* A number is first built, last character first, in a static buffer of    *)
(* itoa or of uitoa, turned round into the static tmp_buf of vsnprintk,    *)
(* measured there by strlen and copied to kbuf.  No buffer has a lock.  A  *)
(* step makes one access to shared memory, of one character, and all CPUs  *)
(* see the accesses in one order.                                          *)
(*                                                                         *)
(* A character tells which call formatted it and its place in the text of  *)
(* that call, so that a buffer tells whose text it holds; what the format  *)
(* asks for there, and the form the character has.                         *)
(***************************************************************************)
EXTENDS Integers, Sequences, FiniteSets

CONSTANTS
    Callers,        \* the CPUs that run kernel code
    KbufSize,       \* sizeof(kbuf)
    TagLen,         \* strlen(level_tag(level))
    MaxDigits,      \* the longest text of a number
    Formats,        \* the formats
    Prefixes,       \* what a format of logk begins with: level prefixes, whole or not
    LogShowLevel,   \* LOG_SHOW_LEVEL
    IntMax,         \* INT_MAX
    MaxCalls        \* BOUND: calls of printk and logk together

ASSUME BuffersAssumption ==
    /\ TagLen \in Nat /\ KbufSize \in Nat /\ TagLen < KbufSize
    /\ MaxDigits \in Nat \ {0}

\* What a format is made of.  A char is copied: it is a character of the format, of
\* %s or of %c.  A number has len characters, and letters are the places of its A to F;
\* "X" stands for %p too, which asks for the same text, and "d" for %i.
Piece ==
    [conv : {"char"}, len : {1}, letters : {{}}]
    \cup [conv : {"d", "u"}, len : 1 .. MaxDigits, letters : {{}}]
    \cup [conv : {"x", "X"}, len : 1 .. MaxDigits, letters : SUBSET (1 .. MaxDigits)]

ASSUME FormatsAssumption == Formats \subseteq Seq(Piece)
ASSUME PrefixesAssumption ==
    Prefixes \subseteq [open : BOOLEAN, digits : Seq(0 .. 9), closed : BOOLEAN]
ASSUME LevelsAssumption == IntMax \in Nat /\ LogShowLevel \in 0 .. IntMax
ASSUME MaxCallsAssumption == MaxCalls \in Nat

VARIABLES
    \* shared memory
    tty_lock,   \* held by a caller
    kbuf,       \* the static buffers of printk and of logk
    numbuf,     \* the static buffers of itoa and of uitoa
    tmp_buf,    \* the static buffer of vsnprintk
    \* the calls in progress
    pc,         \* per caller: where it stands
    fn,         \* per caller: whose kbuf it uses
    id,         \* per caller: the number of its call
    rest,       \* per caller: pieces of the format to come
    next,       \* per caller: the place in its text of the next character
    o,          \* per caller: characters written to kbuf; the length in the end
    l,          \* per caller: characters of tmp_buf to copy
    j,          \* per caller: the index of the loop it is in
    ch,         \* per caller: the character it has loaded and not stored
    i,          \* per caller: characters of kbuf that tty_write has stored
    \* history, read by the properties alone
    stream,     \* the characters stored in the ring of tty.c
    log         \* per call: what was asked, when, and where its text is on the stream

buffers == <<kbuf, numbuf, tmp_buf>>
locals == <<fn, id, rest, next, o, l, j, ch, i>>
vars == <<tty_lock, buffers, pc, locals, stream, log>>

Forms == {"text", "digit", "capital", "small"}
Char == [call : Nat, place : Nat, asked : Forms, form : Forms]
NUL == [call |-> 0, place |-> 0, asked |-> "text", form |-> "text"]
Functions == {"printk", "logk"}
Converters == {"itoa", "uitoa"}

Init ==
    /\ tty_lock = 0
    /\ kbuf = [f \in Functions |-> [k \in 0 .. KbufSize - 1 |-> NUL]]
    /\ numbuf = [g \in Converters |-> [k \in 0 .. MaxDigits - 1 |-> NUL]]
    /\ tmp_buf = [k \in 0 .. MaxDigits |-> NUL]
    /\ pc = [c \in Callers |-> "idle"]
    /\ fn = [c \in Callers |-> "printk"]
    /\ id = [c \in Callers |-> 0]
    /\ rest = [c \in Callers |-> <<>>]
    /\ next = [c \in Callers |-> 0]
    /\ o = [c \in Callers |-> 0]
    /\ l = [c \in Callers |-> 0]
    /\ j = [c \in Callers |-> 0]
    /\ ch = [c \in Callers |-> NUL]
    /\ i = [c \in Callers |-> 0]
    /\ stream = <<>>
    /\ log = <<>>

\* How long the text of a sequence of pieces is.
TextLen(pieces) ==
    LET n[k \in 0 .. Len(pieces)] == IF k = 0 THEN 0 ELSE n[k - 1] + pieces[k].len
    IN  n[Len(pieces)]

HasNumber(pieces) == \E k \in DOMAIN pieces : pieces[k].conv # "char"

\* The history of a call: the calls it overlaps are those in progress when it
\* begins and those that begin before it ends.
Called(f, pieces) ==
    LET running == {id[d] : d \in {e \in Callers : pc[e] # "idle"}}
    IN  Append([m \in DOMAIN log |->
                   IF m \in running THEN [log[m] EXCEPT !.over = @ \cup {Len(log) + 1}] ELSE log[m]],
               [fn |-> f, total |-> TextLen(pieces), numbers |-> HasNumber(pieces),
                over |-> running, from |-> 0, upto |-> 0])

\* Caller c begins to format.
Begin(c, f, pieces) ==
    /\ pc' = [pc EXCEPT ![c] = "format"]
    /\ fn' = [fn EXCEPT ![c] = f]
    /\ id' = [id EXCEPT ![c] = Len(log) + 1]
    /\ rest' = [rest EXCEPT ![c] = pieces]
    /\ next' = [next EXCEPT ![c] = 1]
    /\ o' = [o EXCEPT ![c] = 0]
    /\ log' = Called(f, pieces)
    /\ UNCHANGED <<tty_lock, buffers, l, j, ch, i, stream>>

\* printk(format, ...)
CallPrintk(c) ==
    /\ pc[c] = "idle"
    /\ Len(log) < MaxCalls
    /\ \E f \in Formats : Begin(c, "printk", f)

\* A level prefix counts when it is whole; otherwise it is part of the text.
Whole(p) == p.open /\ p.digits # <<>> /\ p.closed

Value(digits) ==
    LET v[k \in 0 .. Len(digits)] == IF k = 0 THEN 0 ELSE 10 * v[k - 1] + digits[k]
    IN  v[Len(digits)]

\* The level logk finds.  Where the int overflows it may be any.
Levels(p) ==
    IF ~Whole(p) THEN {6}
    ELSE IF Value(p.digits) <= IntMax THEN {Value(p.digits)}
    ELSE -IntMax - 1 .. IntMax

Plain(n) == [k \in 1 .. n |-> [conv |-> "char", len |-> 1, letters |-> {}]]

\* What logk passes on: the tag of the level (printk_with_level writes it before
\* vsnprintk goes on behind it), a prefix that is none, and the format.
Tagged(p, f) ==
    Plain(TagLen)
    \o (IF Whole(p) THEN <<>>
        ELSE Plain((IF p.open THEN 1 ELSE 0) + Len(p.digits) + (IF p.closed THEN 1 ELSE 0)))
    \o f

Shows(level) == level <= LogShowLevel

\* logk(format, ...), of a level that is shown.
CallLogk(c) ==
    /\ pc[c] = "idle"
    /\ Len(log) < MaxCalls
    /\ \E f \in Formats, p \in Prefixes : \E level \in Levels(p) :
          Shows(level) /\ Begin(c, "logk", Tagged(p, f))

\* logk(format, ...), of a level that is not: it returns, with no effect.
CallLogkDropped(c) ==
    /\ pc[c] = "idle"
    /\ \E p \in Prefixes : \E level \in Levels(p) : ~Shows(level)
    /\ UNCHANGED vars

-----------------------------------------------------------------------------
\* One turn of the loop of vsnprintk, while there is room for the terminator too.
Room(c) == o[c] < KbufSize - 1

Formatting(c) == pc[c] = "format" /\ rest[c] # <<>> /\ Room(c)

\* The call returns and its locals are gone.
Leave(c) ==
    /\ pc' = [pc EXCEPT ![c] = "idle"]
    /\ fn' = [fn EXCEPT ![c] = "printk"]
    /\ rest' = [rest EXCEPT ![c] = <<>>]
    /\ id' = [id EXCEPT ![c] = 0]
    /\ next' = [next EXCEPT ![c] = 0]
    /\ o' = [o EXCEPT ![c] = 0]
    /\ l' = [l EXCEPT ![c] = 0]
    /\ j' = [j EXCEPT ![c] = 0]
    /\ ch' = [ch EXCEPT ![c] = NUL]
    /\ i' = [i EXCEPT ![c] = 0]

PutInKbuf(c, char) == kbuf' = [kbuf EXCEPT ![fn[c]][o[c]] = char]

\* A character of the format, of %s or of %c.
CopyChar(c) ==
    /\ Formatting(c)
    /\ Head(rest[c]).conv = "char"
    /\ PutInKbuf(c, [call |-> id[c], place |-> next[c], asked |-> "text", form |-> "text"])
    /\ o' = [o EXCEPT ![c] = @ + 1]
    /\ next' = [next EXCEPT ![c] = @ + 1]
    /\ rest' = [rest EXCEPT ![c] = Tail(@)]
    /\ UNCHANGED <<tty_lock, numbuf, tmp_buf, pc, fn, id, l, j, ch, i, stream, log>>

\* The number the call formats, and the buffer it is built in.
Number(c) == Head(rest[c])
Converter(c) == IF Number(c).conv = "d" THEN "itoa" ELSE "uitoa"

\* Character q, counted from 0, of a number at a place of call n, as the converter
\* writes it: with capitals.
Digit(n, place, number, q) ==
    LET letter == q + 1 \in number.letters IN
    [call |-> n, place |-> place + q,
     asked |-> IF ~letter THEN "digit" ELSE IF number.conv = "x" THEN "small" ELSE "capital",
     form |-> IF letter THEN "capital" ELSE "digit"]

\* itoa, uitoa: the loop of divisions, the prefix and the sign, from the last character ...
Divide(c) ==
    /\ Formatting(c)
    /\ Number(c).conv # "char"
    /\ numbuf' = [numbuf EXCEPT ![Converter(c)][j[c]] =
                     Digit(id[c], next[c], Number(c), Number(c).len - 1 - j[c])]
    /\ IF j[c] + 1 < Number(c).len
       THEN j' = [j EXCEPT ![c] = @ + 1] /\ pc' = pc
       ELSE j' = [j EXCEPT ![c] = 0] /\ pc' = [pc EXCEPT ![c] = "turn"]
    /\ UNCHANGED <<tty_lock, kbuf, tmp_buf, fn, id, rest, next, o, l, ch, i, stream, log>>

ClearsFirstBug(c) ==
    /\ pc[c] = "turn"
    /\ ch' = [ch EXCEPT ![c] = numbuf[Converter(c)][Number(c).len - 1 - j[c]]]
    /\ tmp_buf' = IF j[c] = 0 THEN [tmp_buf EXCEPT ![0] = NUL] ELSE tmp_buf
    /\ pc' = [pc EXCEPT ![c] = "turned"]
    /\ UNCHANGED <<tty_lock, kbuf, numbuf, fn, id, rest, next, o, l, j, i, stream, log>>

\* ... which is turned round into tmp_buf, character by character ...
TurnLoad(c) ==
    /\ pc[c] = "turn"
    /\ ch' = [ch EXCEPT ![c] = numbuf[Converter(c)][Number(c).len - 1 - j[c]]]
    /\ pc' = [pc EXCEPT ![c] = "turned"]
    /\ UNCHANGED <<tty_lock, buffers, fn, id, rest, next, o, l, j, i, stream, log>>

TurnStore(c) ==
    /\ pc[c] = "turned"
    /\ tmp_buf' = [tmp_buf EXCEPT ![j[c]] = ch[c]]
    /\ ch' = [ch EXCEPT ![c] = NUL]
    /\ j' = [j EXCEPT ![c] = @ + 1]
    /\ pc' = [pc EXCEPT ![c] = IF j[c] + 1 < Number(c).len THEN "turn" ELSE "end"]
    /\ UNCHANGED <<tty_lock, kbuf, numbuf, fn, id, rest, next, o, l, i, stream, log>>

OmitsTerminatorBug(c) ==
    /\ pc[c] = "end"
    /\ j' = [j EXCEPT ![c] = 0]
    /\ pc' = [pc EXCEPT ![c] = IF Number(c).conv = "x" THEN "lower" ELSE "measure"]
    /\ UNCHANGED <<tty_lock, buffers, fn, id, rest, next, o, l, ch, i, stream, log>>

\* ... and terminated.
EndNumber(c) ==
    /\ pc[c] = "end"
    /\ tmp_buf' = [tmp_buf EXCEPT ![j[c]] = NUL]
    /\ j' = [j EXCEPT ![c] = 0]
    /\ pc' = [pc EXCEPT ![c] = IF Number(c).conv = "x" THEN "lower" ELSE "measure"]
    /\ UNCHANGED <<tty_lock, kbuf, numbuf, fn, id, rest, next, o, l, ch, i, stream, log>>

\* %x then makes the letters small, where they stand, up to the terminator.
LowerLoad(c) ==
    /\ pc[c] = "lower"
    /\ IF tmp_buf[j[c]] = NUL
       THEN j' = [j EXCEPT ![c] = 0] /\ ch' = ch /\ pc' = [pc EXCEPT ![c] = "measure"]
       ELSE IF tmp_buf[j[c]].form = "capital"
       THEN j' = j /\ ch' = [ch EXCEPT ![c] = tmp_buf[j[c]]] /\ pc' = [pc EXCEPT ![c] = "lowered"]
       ELSE j' = [j EXCEPT ![c] = @ + 1] /\ ch' = ch /\ pc' = pc
    /\ UNCHANGED <<tty_lock, buffers, fn, id, rest, next, o, l, i, stream, log>>

LowerStore(c) ==
    /\ pc[c] = "lowered"
    /\ tmp_buf' = [tmp_buf EXCEPT ![j[c]] = [ch[c] EXCEPT !.form = "small"]]
    /\ ch' = [ch EXCEPT ![c] = NUL]
    /\ j' = [j EXCEPT ![c] = @ + 1]
    /\ pc' = [pc EXCEPT ![c] = "lower"]
    /\ UNCHANGED <<tty_lock, kbuf, numbuf, fn, id, rest, next, o, l, i, stream, log>>

\* strlen measures tmp_buf; the length is cut to the room that is left.  (It looks at
\* words of eight before it looks at characters: what it can see is among what it sees
\* here, where others may write between any two characters.)
Measure(c) ==
    LET rem == KbufSize - 1 - o[c] IN
    /\ pc[c] = "measure"
    /\ IF tmp_buf[j[c]] # NUL
       THEN j' = [j EXCEPT ![c] = @ + 1] /\ UNCHANGED <<l, pc>>
       ELSE /\ l' = [l EXCEPT ![c] = IF j[c] > rem THEN rem ELSE j[c]]
            /\ j' = [j EXCEPT ![c] = 0]
            /\ pc' = [pc EXCEPT ![c] = "fetch"]
    /\ UNCHANGED <<tty_lock, buffers, fn, id, rest, next, o, ch, i, stream, log>>

\* That many characters are copied; there is at least one.
Fetch(c) ==
    /\ pc[c] = "fetch"
    /\ ch' = [ch EXCEPT ![c] = tmp_buf[j[c]]]
    /\ pc' = [pc EXCEPT ![c] = "put"]
    /\ UNCHANGED <<tty_lock, buffers, fn, id, rest, next, o, l, j, i, stream, log>>

PutDigit(c) ==
    /\ pc[c] = "put"
    /\ PutInKbuf(c, ch[c])
    /\ ch' = [ch EXCEPT ![c] = NUL]
    /\ o' = [o EXCEPT ![c] = @ + 1]
    /\ IF j[c] + 1 < l[c]
       THEN /\ j' = [j EXCEPT ![c] = @ + 1]
            /\ pc' = [pc EXCEPT ![c] = "fetch"]
            /\ UNCHANGED <<next, rest, l>>
       ELSE /\ j' = [j EXCEPT ![c] = 0]
            /\ l' = [l EXCEPT ![c] = 0]
            /\ next' = [next EXCEPT ![c] = @ + Number(c).len]
            /\ rest' = [rest EXCEPT ![c] = Tail(@)]
            /\ pc' = [pc EXCEPT ![c] = "format"]
    /\ UNCHANGED <<tty_lock, numbuf, tmp_buf, fn, id, i, stream, log>>

\* The end of vsnprintk.  An empty message is not written: tty_write returns.
Terminate(c) ==
    /\ pc[c] = "format"
    /\ rest[c] = <<>> \/ ~Room(c)
    /\ PutInKbuf(c, NUL)
    /\ IF o[c] = 0
       THEN Leave(c)
       ELSE /\ pc' = [pc EXCEPT ![c] = "acquire"]
            /\ rest' = [rest EXCEPT ![c] = <<>>]
            /\ next' = [next EXCEPT ![c] = 0]
            /\ UNCHANGED <<fn, id, o, l, j, ch, i>>
    /\ UNCHANGED <<tty_lock, numbuf, tmp_buf, stream, log>>

WritesUnlockedBug(c) ==
    /\ pc[c] = "acquire"
    /\ tty_lock' = 1
    /\ pc' = [pc EXCEPT ![c] = "store"]
    /\ log' = [log EXCEPT ![id[c]].from = Len(stream)]
    /\ UNCHANGED <<buffers, locals, stream>>

\* tty_write(kbuf, len)
Acquire(c) ==
    /\ pc[c] = "acquire"
    /\ tty_lock = 0
    /\ tty_lock' = 1
    /\ pc' = [pc EXCEPT ![c] = "store"]
    /\ log' = [log EXCEPT ![id[c]].from = Len(stream)]
    /\ UNCHANGED <<buffers, locals, stream>>

Store(c) ==
    /\ pc[c] = "store"
    /\ i[c] < o[c]
    /\ stream' = Append(stream, kbuf[fn[c]][i[c]])
    /\ i' = [i EXCEPT ![c] = @ + 1]
    /\ UNCHANGED <<tty_lock, buffers, pc, fn, id, rest, next, o, l, j, ch, log>>

Release(c) ==
    /\ pc[c] = "store"
    /\ i[c] = o[c]
    /\ tty_lock' = 0
    /\ Leave(c)
    /\ log' = [log EXCEPT ![id[c]].upto = Len(stream)]
    /\ UNCHANGED <<buffers, stream>>

Call(c) == CallPrintk(c) \/ CallLogk(c) \/ CallLogkDropped(c)

Convert(c) ==
    \/ Divide(c) \/ TurnLoad(c) \/ TurnStore(c) \/ EndNumber(c) \/ LowerLoad(c) \/ LowerStore(c)

Step(c) ==
    \/ CopyChar(c) \/ Convert(c) \/ Measure(c) \/ Fetch(c) \/ PutDigit(c)
    \/ Terminate(c) \/ Acquire(c) \/ Store(c) \/ Release(c)

\* Nothing more is printed; the kernel may halt at any time.
Halted == (\A c \in Callers : pc[c] = "idle") /\ UNCHANGED vars

Next == (\E c \in Callers : Call(c) \/ Step(c)) \/ Halted

Spec == Init /\ [][Next]_vars

-----------------------------------------------------------------------------
\* Two calls share a buffer.
Conflict(m, n) == log[m].fn = log[n].fn \/ (log[m].numbers /\ log[n].numbers)

Finished(n) == log[n].upto > 0

\* The characters that fit beside the terminator.
Cut(total) == IF total < KbufSize THEN total ELSE KbufSize - 1

Text(n) == SubSeq(stream, log[n].from + 1, log[n].upto)

\* The character the format asks for at place k of call n.
Right(char, n, k) == char.call = n /\ char.place = k /\ char.form = char.asked

\* A call that overlaps no call it shares a buffer with appears on the stream as it
\* was formatted, letters included, cut to the buffer, although other calls format and
\* print at the same time (printk.c:28-34, logk.c:43-55, vsnprintk.c:33, 151-157).
UndisturbedIsShown ==
    \A n \in DOMAIN log :
        Finished(n) /\ (\A m \in log[n].over : ~Conflict(m, n)) =>
            /\ Len(Text(n)) = Cut(log[n].total)
            /\ \A k \in DOMAIN Text(n) : Right(Text(n)[k], n, k)

\* The calls that write the kbuf of call n while it is formatted and printed.
Sharers(n) == {n} \cup {m \in log[n].over : log[m].fn = log[n].fn}

\* Call n converts a number, and so does one it overlaps.
Races(n) == log[n].numbers /\ \E m \in log[n].over : log[m].numbers

\* What a call prints is its own, or of a call that uses the same kbuf meanwhile.  A
\* character of any other call, one that was over long before included, comes to it by
\* tmp_buf alone: it is a character of a number, and two conversions met.  (Then the
\* terminator of one may be overwritten by the other before strlen gets there.)  What
\* one conversion leaves behind its terminator is never read by the next
\* (stdlib.c:58, 95-100, 111, 131-136, vsnprintk.c:33, 85-99).
StaleOnlyByRace ==
    \A n \in DOMAIN log :
        Finished(n) =>
            \A k \in DOMAIN Text(n) :
                LET char == Text(n)[k] IN
                \/ char = NUL
                \/ char.call \in Sharers(n)
                \/ char.asked # "text" /\ \E m \in Sharers(n) : Races(m)

\* However conversions overwrite one another's text, strlen and the loop that makes
\* letters small find a terminator before the end of tmp_buf, a number is never
\* dropped whole, and its copy fits into kbuf: the test of vsnprintk.c:93 never fails
\* (vsnprintk.c:85-97, 151-168, stdlib.c:95-100, 131-136).
ConversionsStayInside ==
    \A c \in Callers :
        /\ pc[c] \in {"lower", "lowered", "measure"} => j[c] <= MaxDigits
        /\ pc[c] \in {"fetch", "put"} => 1 <= l[c] /\ o[c] + (l[c] - j[c]) < KbufSize
=============================================================================
