---------------------------- MODULE PrintkProofs ----------------------------
(***************************************************************************)
(* What becomes of a message while other calls format and print, for every *)
(* number of CPUs and calls, every size of the buffers and every format.   *)
(*                                                                         *)
(* The argument: calls in progress know of one another (CallInv).  tmp_buf *)
(* holds characters of numbers only and ends in a terminator, whoever      *)
(* writes it (NumberInv), so that every conversion stays inside (Local).   *)
(* A call that races with none has the buffers of the numbers to itself    *)
(* while it converts: what they hold and how far it has come is then       *)
(* determined (OwnNumber, OwnLength).  One that conflicts with none has    *)
(* its kbuf to itself too (OwnText).  Of any call it is known who may have *)
(* written what it has in its kbuf (LiveText).                             *)
(***************************************************************************)
EXTENDS Printk, Induction, SequenceTheorems

Room1 == KbufSize - 1

LogEntry == [fn : Functions, total : Nat, numbers : BOOLEAN,
             over : SUBSET Nat, from : Nat, upto : Nat]

PCs == {"idle", "format", "turn", "turned", "end", "lower", "lowered", "measure", "fetch", "put",
        "acquire", "store"}

TypeOK ==
    /\ tty_lock \in {0, 1}
    /\ kbuf \in [Functions -> [0 .. Room1 -> Char]]
    /\ numbuf \in [Converters -> [0 .. MaxDigits - 1 -> Char]]
    /\ tmp_buf \in [0 .. MaxDigits -> Char]
    /\ pc \in [Callers -> PCs]
    /\ fn \in [Callers -> Functions]
    /\ id \in [Callers -> Nat]
    /\ rest \in [Callers -> Seq(Piece)]
    /\ next \in [Callers -> Nat]
    /\ o \in [Callers -> 0 .. Room1]
    /\ l \in [Callers -> Nat] /\ j \in [Callers -> Nat] /\ i \in [Callers -> Nat]
    /\ ch \in [Callers -> Char]
    /\ stream \in Seq(Char)
    /\ log \in Seq(LogEntry)

Active(c) == pc[c] # "idle"

\* Calls in progress have entries of their own in the log and know of one another.
Entry(c) ==
    /\ id[c] \in DOMAIN log
    /\ log[id[c]].fn = fn[c]
    /\ log[id[c]].upto = 0
    /\ HasNumber(rest[c]) => log[id[c]].numbers

Knows(c, d) == id[c] # id[d] /\ id[d] \in log[id[c]].over

CallInv ==
    /\ \A n \in DOMAIN log : log[n].over \subseteq DOMAIN log
    /\ \A c \in Callers : Active(c) => Entry(c)
    /\ \A c, d \in Callers : Active(c) /\ Active(d) /\ c # d => Knows(c, d)

\* The buffers of the numbers hold nothing else, and tmp_buf ends in a terminator.
OfNumber(char) == char = NUL \/ char.asked # "text"

NumberInv ==
    /\ tmp_buf[MaxDigits] = NUL
    /\ \A m \in 0 .. MaxDigits : OfNumber(tmp_buf[m])
    /\ \A g \in Converters : \A m \in 0 .. MaxDigits - 1 : OfNumber(numbuf[g][m])

\* Where a call can stand.  It has a number under way in these places ...
Building == {"turn", "turned"}
Scanning == {"lower", "lowered", "measure"}
Copying == {"fetch", "put"}
Busy(c) == (pc[c] = "format" /\ j[c] > 0) \/ pc[c] \in Building \cup {"end"} \cup Scanning \cup Copying

\* ... of which so much has been built and turned round ...
Built(c) == IF pc[c] = "format" THEN j[c] ELSE Number(c).len

Begun(c) == (pc[c] \in Building /\ j[c] > 0) \/ pc[c] \in {"end"} \cup Scanning \cup Copying

NumberLocal(c) ==
    /\ Busy(c) => rest[c] # <<>> /\ Number(c).conv # "char"
    /\ Busy(c) /\ pc[c] \notin Copying => o[c] < Room1
    /\ pc[c] \in {"format"} \cup Building => j[c] = 0 \/ j[c] < Number(c).len
    /\ pc[c] = "end" => j[c] = Number(c).len
    /\ pc[c] \in Scanning => j[c] <= MaxDigits
    /\ pc[c] \in Copying => j[c] < l[c] /\ l[c] <= MaxDigits /\ o[c] + (l[c] - j[c]) <= Room1
    /\ pc[c] \in {"format"} \cup Building =>
          \A m \in 0 .. MaxDigits - 1 : m < Built(c) => numbuf[Converter(c)][m] # NUL
    /\ Begun(c) => tmp_buf[0] # NUL
    /\ pc[c] \in {"turned", "lowered"} => ch[c] # NUL
    /\ pc[c] = "lowered" => j[c] < MaxDigits
    /\ OfNumber(ch[c])

\* ... and otherwise its loops are at their beginning.
Local(c) ==
    /\ ~Busy(c) => j[c] = 0
    /\ pc[c] # "store" => i[c] = 0
    /\ pc[c] = "format" \/ Busy(c) =>
          next[c] > 0 /\ log[id[c]].total = next[c] - 1 + TextLen(rest[c])
    /\ pc[c] \in {"acquire", "store"} => o[c] > 0
    /\ pc[c] = "store" => i[c] <= o[c]
    /\ NumberLocal(c)

\* Only the holder of the lock stores.
LockInv ==
    /\ tty_lock = 0 => \A c \in Callers : pc[c] # "store"
    /\ \A c, d \in Callers : pc[c] = "store" /\ pc[d] = "store" => c = d
    /\ \A c \in Callers : pc[c] = "store" => log[id[c]].from + i[c] = Len(stream)
    /\ \A n \in DOMAIN log :
          log[n].upto > 0 => log[n].from <= log[n].upto /\ log[n].upto <= Len(stream)

\* The character the format asks for.
Shown(n, place, number, q) ==
    LET char == Digit(n, place, number, q) IN [char EXCEPT !.form = char.asked]

\* A call n that races with none: its number, and how far it has come, in terms of where
\* the call stands, its index and character, and the two buffers.
NumberAt(p, at, char, n, place, number, built, nb, tb) ==
    /\ p \in {"format"} \cup Building =>
          \A m \in 0 .. MaxDigits - 1 :
              m < built => nb[m] = Digit(n, place, number, number.len - 1 - m)
    /\ p \in Building \cup {"end"} =>
          \A m \in 0 .. MaxDigits : m < at => tb[m] = Digit(n, place, number, m)
    /\ p = "turned" => char = Digit(n, place, number, at)
    /\ p \in Scanning \cup Copying => tb[number.len] = NUL
    /\ p \in Scanning => at <= number.len
    /\ p \in {"lower", "lowered"} =>
          /\ number.conv = "x"
          /\ \A m \in 0 .. MaxDigits : m < at => tb[m] = Shown(n, place, number, m)
          /\ \A m \in 0 .. MaxDigits :
                at <= m /\ m < number.len => tb[m] = Digit(n, place, number, m)
    /\ p = "lowered" =>
          at < number.len /\ char = Digit(n, place, number, at) /\ char.form = "capital"
    /\ p \in {"measure"} \cup Copying =>
          \A m \in 0 .. MaxDigits : m < number.len => tb[m] = Shown(n, place, number, m)
    /\ p = "put" => char = Shown(n, place, number, at)

OwnNumber(c) ==
    NumberAt(pc[c], j[c], ch[c], id[c], next[c], Number(c), Built(c), numbuf[Converter(c)], tmp_buf)

\* How much of its text it has in kbuf.
OwnLength(c) ==
    /\ (pc[c] = "format" \/ Busy(c)) /\ pc[c] \notin Copying => o[c] = Cut(next[c] - 1)
    /\ pc[c] \in Copying =>
          /\ o[c] = next[c] - 1 + j[c]
          /\ l[c] = IF Number(c).len > Room1 - (next[c] - 1) THEN Room1 - (next[c] - 1)
                    ELSE Number(c).len
    /\ pc[c] \in {"acquire", "store"} => o[c] = Cut(log[id[c]].total)

Calm(c) == Active(c) /\ ~Races(id[c]) => OwnNumber(c) /\ OwnLength(c)

\* A call that shares no buffer with those it overlaps: what it has in kbuf and on the
\* stream ...
Alone(n) == \A m \in log[n].over : ~Conflict(m, n)

OwnText(c) ==
    /\ \A k \in 0 .. o[c] - 1 : Right(kbuf[fn[c]][k], id[c], k + 1)
    /\ pc[c] = "store" => \A k \in 1 .. i[c] : Right(stream[log[id[c]].from + k], id[c], k)

Own(c) == Active(c) /\ Alone(id[c]) => OwnText(c)

\* ... and what it has left there.
OwnDone ==
    \A n \in DOMAIN log : log[n].upto > 0 /\ Alone(n) =>
        /\ log[n].upto = log[n].from + Cut(log[n].total)
        /\ \A k \in 1 .. Cut(log[n].total) : Right(stream[log[n].from + k], n, k)

\* What a call puts in its kbuf, and what it may find there.
Puts(n, char) ==
    \/ char = NUL
    \/ char.call = n
    \/ char.asked # "text" /\ Races(n)

FairIn(entries, n, char) ==
    LET sharers == {n} \cup {m \in entries[n].over : entries[m].fn = entries[n].fn} IN
    \/ char = NUL
    \/ char.call \in sharers
    \/ /\ char.asked # "text"
       /\ \E m \in sharers : entries[m].numbers /\ \E q \in entries[m].over : entries[q].numbers

LiveText(c) ==
    /\ \A k \in 0 .. o[c] - 1 : FairIn(log, id[c], kbuf[fn[c]][k])
    /\ pc[c] = "store" =>
          \A k \in log[id[c]].from + 1 .. Len(stream) : FairIn(log, id[c], stream[k])

Live(c) == Active(c) => LiveText(c)

LiveDone ==
    \A n \in DOMAIN log : log[n].upto > 0 =>
        \A k \in log[n].from + 1 .. log[n].upto : FairIn(log, n, stream[k])

\* The inductive invariant.
Inv ==
    /\ TypeOK /\ CallInv /\ NumberInv /\ LockInv /\ OwnDone /\ LiveDone
    /\ \A c \in Callers : Local(c) /\ Calm(c) /\ Own(c) /\ Live(c)

-----------------------------------------------------------------------------
LEMMA Sizes == Room1 \in Nat /\ MaxDigits \in Nat /\ MaxDigits > 0 /\ MaxDigits - 1 \in Nat
BY BuffersAssumption DEF Room1

LEMMA PieceFacts ==
    \A p \in Piece : /\ p.len \in Nat /\ p.len \in 1 .. MaxDigits
                     /\ p.conv = "char" => p.len = 1
BY Sizes DEF Piece

\* TextLen is the sum it is meant to be.
LEMMA TextLenSum ==
    ASSUME NEW ps \in Seq(Piece)
    PROVE  \E n \in [0 .. Len(ps) -> Nat] :
              /\ n[0] = 0
              /\ \A k \in 1 .. Len(ps) : n[k] = n[k - 1] + ps[k].len
              /\ TextLen(ps) = n[Len(ps)]
<1> DEFINE D == 0 .. Len(ps)
           G == [kv \in D \X Nat |-> kv[2] + ps[kv[1]].len]
           Eq(f) == f = [k \in D |-> IF k = 0 THEN 0 ELSE f[k - 1] + ps[k].len]
           n == CHOOSE f : Eq(f)
<1>1. \A k \in D : k # 0 => ps[k] \in Piece /\ ps[k].len \in Nat /\ k - 1 \in D
  BY PieceFacts
<1>2. PICK f \in [D -> Nat] : f[0] = 0 /\ \A k \in 1 .. Len(ps) : f[k] = G[<<k, f[k - 1]>>]
  <2>1. Loop(Len(ps), Nat, 0, G)
    BY <1>1 DEF Loop
  <2> HIDE DEF G
  <2> QED
    BY <2>1, Iteration
<1>3. ASSUME NEW k \in D PROVE f[k] = IF k = 0 THEN 0 ELSE f[k - 1] + ps[k].len
  <2>1. CASE k = 0
    BY <1>2, <2>1
  <2>2. CASE k # 0
    <3>1. k \in 1 .. Len(ps) /\ k - 1 \in D /\ k \in D
      BY <2>2
    <3> QED
      BY <1>2, <2>2, <3>1
  <2> QED
    BY <2>1, <2>2
<1>4. Eq(f)
  BY <1>3
<1>5. Eq(n)
  <2> HIDE DEF Eq
  <2> QED
    BY <1>4
<1>6. TextLen(ps) = n[Len(ps)]
  BY DEF TextLen
<1> HIDE DEF n
<1>7. n[0] = 0 /\ \A k \in 1 .. Len(ps) : n[k] = n[k - 1] + ps[k].len
  BY <1>5
<1>8. \A k \in D : n[k] \in Nat
  <2> DEFINE P == {k \in Nat : k \in D => n[k] \in Nat}
  <2>1. 0 \in P
    BY <1>7
  <2>2. ASSUME NEW k \in Nat, k \in P PROVE k + 1 \in P
    <3> SUFFICES ASSUME k + 1 \in D PROVE n[k + 1] \in Nat
      OBVIOUS
    <3>1. n[k] \in Nat /\ n[k + 1] = n[k] + ps[k + 1].len /\ ps[k + 1].len \in Nat
      BY <1>1, <1>7, <2>2
    <3> QED
      BY <3>1
  <2> HIDE DEF P
  <2>3. \A k \in Nat : k \in P
    BY <2>1, <2>2, Induct
  <2> QED
    BY <2>3 DEF P
<1>9. n \in [D -> Nat]
  BY <1>5, <1>8
<1> QED
  BY <1>6, <1>7, <1>9

LEMMA TextLenEmpty == TextLen(<<>>) = 0
<1>1. <<>> \in Seq(Piece) /\ Len(<<>>) = 0
  OBVIOUS
<1> QED
  BY <1>1, TextLenSum

LEMMA TextLenHead ==
    ASSUME NEW ps \in Seq(Piece), ps # <<>>
    PROVE  /\ TextLen(ps) \in Nat /\ TextLen(Tail(ps)) \in Nat
           /\ TextLen(ps) = Head(ps).len + TextLen(Tail(ps))
<1> DEFINE qs == Tail(ps)
<1>1. qs \in Seq(Piece) /\ Len(qs) = Len(ps) - 1 /\ Len(ps) \in Nat /\ Len(ps) > 0
  OBVIOUS
<1>2. \A k \in 1 .. Len(qs) : qs[k] = ps[k + 1] /\ qs[k] \in Piece
  OBVIOUS
<1>3. Head(ps) = ps[1] /\ ps[1] \in Piece /\ ps[1].len \in Nat
  BY PieceFacts
<1>4. PICK n \in [0 .. Len(ps) -> Nat] :
        /\ n[0] = 0
        /\ \A k \in 1 .. Len(ps) : n[k] = n[k - 1] + ps[k].len
        /\ TextLen(ps) = n[Len(ps)]
  BY TextLenSum
<1> HIDE DEF qs
<1>5. PICK t \in [0 .. Len(qs) -> Nat] :
        /\ t[0] = 0
        /\ \A k \in 1 .. Len(qs) : t[k] = t[k - 1] + qs[k].len
        /\ TextLen(qs) = t[Len(qs)]
  BY <1>1, TextLenSum
<1> DEFINE P == {k \in Nat : k <= Len(qs) => n[k + 1] = ps[1].len + t[k]}
<1>6. 0 \in P
  BY <1>1, <1>3, <1>4, <1>5
<1>7. ASSUME NEW k \in Nat, k \in P PROVE k + 1 \in P
  <2> SUFFICES ASSUME k + 1 <= Len(qs) PROVE n[k + 2] = ps[1].len + t[k + 1]
    BY (k + 1) + 1 = k + 2
  <2>1. n[k + 1] = ps[1].len + t[k]
    BY <1>1, <1>7
  <2>2. n[k + 2] = n[k + 1] + ps[k + 2].len
    <3>1. k + 2 \in 1 .. Len(ps) /\ (k + 2) - 1 = k + 1
      BY <1>1
    <3> QED
      BY <1>4, <3>1
  <2>3. t[k + 1] = t[k] + ps[k + 2].len
    <3>1. k + 1 \in 1 .. Len(qs) /\ (k + 1) - 1 = k /\ (k + 1) + 1 = k + 2
      BY <1>1
    <3> QED
      BY <1>2, <1>5, <3>1
  <2>4. t[k] \in Nat /\ ps[k + 2].len \in Nat
    <3>1. k \in 0 .. Len(qs) /\ k + 2 \in 1 .. Len(ps)
      BY <1>1
    <3> QED
      BY <1>5, <3>1, PieceFacts
  <2> QED
    BY <1>3, <2>1, <2>2, <2>3, <2>4
<1> HIDE DEF P
<1>8. \A k \in Nat : k \in P
  BY <1>6, <1>7, Induct
<1>9. n[Len(qs) + 1] = ps[1].len + t[Len(qs)]
  <2>1. Len(qs) \in Nat
    BY <1>1
  <2> QED
    BY <1>8, <2>1 DEF P
<1>10. TextLen(ps) \in Nat /\ TextLen(qs) \in Nat
  <2>1. Len(ps) \in 0 .. Len(ps) /\ Len(qs) \in Nat /\ Len(qs) \in 0 .. Len(qs)
    BY <1>1
  <2> QED
    BY <1>4, <1>5, <2>1
<1>11. TextLen(ps) = Head(ps).len + TextLen(qs)
  BY <1>1, <1>3, <1>4, <1>5, <1>9
<1> QED
  BY <1>10, <1>11 DEF qs

LEMMA TextLenType ==
    ASSUME NEW ps \in Seq(Piece)
    PROVE  TextLen(ps) \in Nat
BY TextLenSum

\* A conversion that comes first is a number to come; what is in the tail was there.
LEMMA NumbersAhead ==
    ASSUME NEW ps \in Seq(Piece), ps # <<>>
    PROVE  /\ Head(ps).conv # "char" => HasNumber(ps)
           /\ HasNumber(Tail(ps)) => HasNumber(ps)
<1>1. Head(ps) = ps[1] /\ 1 \in DOMAIN ps
  OBVIOUS
<1>2. \A k \in DOMAIN Tail(ps) : k + 1 \in DOMAIN ps /\ Tail(ps)[k] = ps[k + 1]
  OBVIOUS
<1> QED
  BY <1>1, <1>2 DEF HasNumber

-----------------------------------------------------------------------------
LEMMA CallTypes ==
    ASSUME TypeOK, NEW c \in Callers
    PROVE  /\ fn[c] \in Functions /\ id[c] \in Nat /\ rest[c] \in Seq(Piece)
           /\ next[c] \in Nat /\ o[c] \in 0 .. Room1
           /\ l[c] \in Nat /\ j[c] \in Nat /\ i[c] \in Nat /\ ch[c] \in Char /\ pc[c] \in PCs
BY DEF TypeOK

LEMMA LogTypes ==
    ASSUME TypeOK
    PROVE  /\ log \in Seq(LogEntry) /\ Len(log) \in Nat /\ DOMAIN log = 1 .. Len(log)
           /\ \A n \in DOMAIN log : log[n] \in LogEntry
BY DEF TypeOK

\* The pieces of a message are the characters and conversions of vsnprintk.
LEMMA TaggedType ==
    ASSUME NEW p \in Prefixes, NEW f \in Formats
    PROVE  Tagged(p, f) \in Seq(Piece)
<1>1. \A n \in Nat : Plain(n) \in Seq(Piece)
  <2>1. [conv |-> "char", len |-> 1, letters |-> {}] \in Piece
    BY DEF Piece
  <2> QED
    BY <2>1 DEF Plain
<1>2. TagLen \in Nat /\ f \in Seq(Piece) /\ Len(p.digits) \in Nat
  BY BuffersAssumption, FormatsAssumption, PrefixesAssumption
<1> DEFINE a == IF p.open THEN 1 ELSE 0
           b == IF p.closed THEN 1 ELSE 0
           n == a + Len(p.digits) + b
           kept == IF Whole(p) THEN <<>> ELSE Plain(n)
<1>3. n \in Nat
  <2>1. a \in Nat /\ b \in Nat
    BY Zenon, 0 \in Nat, 1 \in Nat
  <2> HIDE DEF a, b
  <2> QED
    BY <1>2, <2>1
<1> HIDE DEF n
<1>4. kept \in Seq(Piece)
  <2>1. <<>> \in Seq(Piece) /\ Plain(n) \in Seq(Piece)
    BY <1>1, <1>3
  <2> QED
    BY <2>1, Zenon
<1>5. Tagged(p, f) = Plain(TagLen) \o kept \o f
  BY Zenon DEF Tagged, n
<1> HIDE DEF kept
<1> QED
  BY <1>1, <1>2, <1>4, <1>5

\* Every call begins the same way.
LEMMA CallBegins ==
    ASSUME TypeOK, NEW c \in Callers, Call(c)
    PROVE  \/ /\ pc[c] = "idle"
              /\ \E f \in Functions, ps \in Seq(Piece) : Begin(c, f, ps)
           \/ UNCHANGED vars
<1>1. CASE CallPrintk(c)
  BY <1>1, FormatsAssumption DEF CallPrintk, Functions
<1>2. CASE CallLogk(c)
  <2>1. pc[c] = "idle" /\ \E f \in Formats, p \in Prefixes : Begin(c, "logk", Tagged(p, f))
    BY <1>2 DEF CallLogk
  <2>2. "logk" \in Functions
    BY DEF Functions
  <2> QED
    BY <2>1, <2>2, TaggedType
<1>3. CASE CallLogkDropped(c)
  BY <1>3 DEF CallLogkDropped
<1> QED
  BY <1>1, <1>2, <1>3 DEF Call

-----------------------------------------------------------------------------
\* A call leaves what the others keep for themselves; it writes the kbuf of its function,
\* the stream when it holds the lock, and the buffers of numbers for a conversion of its own.
Others(c) ==
    \A d \in Callers : d # c =>
        /\ pc'[d] = pc[d] /\ fn'[d] = fn[d] /\ id'[d] = id[d] /\ rest'[d] = rest[d]
        /\ next'[d] = next[d] /\ o'[d] = o[d] /\ l'[d] = l[d] /\ j'[d] = j[d] /\ i'[d] = i[d]
        /\ ch'[d] = ch[d]

KbufFrame(c) ==
    \A f \in Functions, k \in 0 .. Room1 :
        \/ kbuf'[f][k] = kbuf[f][k]
        \/ Active(c) /\ f = fn[c] /\ Puts(id[c], kbuf'[f][k])

NumbersFrame(c) ==
    /\ \A g \in Converters : \A m \in 0 .. MaxDigits - 1 :
          numbuf'[g][m] = numbuf[g][m] \/ (numbuf'[g][m] # NUL /\ OfNumber(numbuf'[g][m]))
    /\ tmp_buf'[MaxDigits] = NUL
    /\ tmp_buf[0] # NUL => tmp_buf'[0] # NUL
    /\ \A m \in 0 .. MaxDigits : OfNumber(tmp_buf'[m])
    /\ (tmp_buf' = tmp_buf /\ numbuf' = numbuf) \/ (Active(c) /\ HasNumber(rest[c]))

StreamFrame(c) ==
    \/ stream' = stream
    \/ /\ pc[c] = "store" /\ i[c] < o[c]
       /\ stream' = Append(stream, kbuf[fn[c]][i[c]])

LogFrame(c) ==
    /\ Len(log) <= Len(log')
    /\ \A n \in DOMAIN log :
          /\ log'[n].fn = log[n].fn /\ log'[n].total = log[n].total
          /\ log'[n].numbers = log[n].numbers
          /\ log[n].over \subseteq log'[n].over
          /\ log'[n].over \ log[n].over \subseteq DOMAIN log' \ DOMAIN log
          /\ ~(Active(c) /\ n = id[c]) => log'[n].from = log[n].from /\ log'[n].upto = log[n].upto
    /\ \A n \in DOMAIN log' \ DOMAIN log : log'[n].upto = 0 /\ log'[n].over \subseteq DOMAIN log

Frame(c) ==
    /\ Others(c) /\ KbufFrame(c) /\ NumbersFrame(c) /\ StreamFrame(c) /\ LogFrame(c)
    /\ pc'[c] = "store" => pc[c] = "store" \/ tty_lock = 0
    /\ tty_lock' = 0 => tty_lock = 0 \/ pc[c] = "store"

LEMMA NumbersStay ==
    ASSUME NumberInv, NEW c \in Callers, tmp_buf' = tmp_buf, numbuf' = numbuf
    PROVE  NumbersFrame(c)
BY DEF NumberInv, NumbersFrame

\* The entry of a call that begins.
Enters(f, ps) ==
    LET n == Len(log) + 1 IN
    /\ Len(log') = n
    /\ log'[n].fn = f /\ log'[n].total = TextLen(ps) /\ log'[n].numbers = HasNumber(ps)
    /\ log'[n].upto = 0
    /\ \A d \in Callers : Active(d) => id[d] \in log'[n].over /\ n \in log'[id[d]].over

LEMMA BeginFrame ==
    ASSUME TypeOK, CallInv, NumberInv, NEW c \in Callers, NEW f \in Functions, NEW ps \in Seq(Piece),
           pc[c] = "idle", Begin(c, f, ps)
    PROVE  TypeOK' /\ Frame(c) /\ Enters(f, ps)
<1>1. \A e \in Callers : pc[e] # "idle" => id[e] \in DOMAIN log
  BY DEF CallInv, Active, Entry
<1> DEFINE running == {id[d] : d \in {e \in Callers : pc[e] # "idle"}}
           entry == [fn |-> f, total |-> TextLen(ps), numbers |-> HasNumber(ps),
                     over |-> running, from |-> 0, upto |-> 0]
           news == [m \in DOMAIN log |->
                      IF m \in running THEN [log[m] EXCEPT !.over = @ \cup {Len(log) + 1}] ELSE log[m]]
<1>2. running \subseteq DOMAIN log /\ running \subseteq Nat
  BY <1>1, LogTypes
<1>3. entry \in LogEntry
  <2>1. TextLen(ps) \in Nat /\ HasNumber(ps) \in BOOLEAN
    <3> QED
      BY TextLenType DEF HasNumber
  <2> HIDE DEF running
  <2> QED
    BY <1>2, <2>1 DEF LogEntry
<1>4. log \in Seq(LogEntry) /\ DOMAIN log = 1 .. Len(log) /\ Len(log) \in Nat
  BY DEF TypeOK
<1>5. news \in Seq(LogEntry) /\ Len(news) = Len(log)
  <2>1. ASSUME NEW m \in DOMAIN log PROVE news[m] \in LogEntry
    <3>1. log[m] \in LogEntry /\ Len(log) + 1 \in Nat
      BY <1>4
    <3>2. [log[m] EXCEPT !.over = @ \cup {Len(log) + 1}] \in LogEntry
      BY <3>1 DEF LogEntry
    <3> QED
      BY <3>1, <3>2
  <2>2. news = [m \in 1 .. Len(log) |-> news[m]]
    BY <1>4
  <2> HIDE DEF news
  <2> QED
    BY <1>4, <2>1, <2>2
<1>6. log' = Append(news, entry)
  BY DEF Begin, Called
<1>7. log' \in Seq(LogEntry) /\ Len(log') = Len(log) + 1 /\ log'[Len(log) + 1] = entry
      /\ \A n \in DOMAIN log : log'[n] = news[n]
  <2> HIDE DEF news, entry
  <2> QED
    BY <1>3, <1>4, <1>5, <1>6
<1>8. TypeOK'
  <2>1. 0 \in 0 .. Room1
    BY BuffersAssumption DEF Room1
  <2>2. Len(log) + 1 \in Nat
    BY <1>4
  <2>3. /\ tty_lock' \in {0, 1} /\ kbuf' \in [Functions -> [0 .. Room1 -> Char]]
        /\ numbuf' \in [Converters -> [0 .. MaxDigits - 1 -> Char]]
        /\ tmp_buf' \in [0 .. MaxDigits -> Char] /\ stream' \in Seq(Char)
        /\ ch' \in [Callers -> Char]
        /\ l' \in [Callers -> Nat] /\ j' \in [Callers -> Nat] /\ i' \in [Callers -> Nat]
    BY DEF TypeOK, Begin, buffers
  <2>4. /\ pc' \in [Callers -> PCs]
        /\ fn' \in [Callers -> Functions] /\ rest' \in [Callers -> Seq(Piece)]
    BY DEF TypeOK, Begin, PCs
  <2>5. id' \in [Callers -> Nat] /\ next' \in [Callers -> Nat] /\ o' \in [Callers -> 0 .. Room1]
    BY <2>1, <2>2 DEF TypeOK, Begin
  <2> HIDE DEF news, entry
  <2> QED
    BY <1>7, <2>3, <2>4, <2>5 DEF TypeOK
<1>9. LogFrame(c)
  <2>1. \A n \in DOMAIN log : news[n] = log[n] \/ news[n] = [log[n] EXCEPT !.over = @ \cup {Len(log) + 1}]
    OBVIOUS
  <2>2. DOMAIN log' \ DOMAIN log = {Len(log) + 1}
    <3> HIDE DEF news, entry
    <3> QED
      BY <1>4, <1>7
  <2> HIDE DEF news
  <2>4. ASSUME NEW n \in DOMAIN log
        PROVE
          /\ log'[n].fn = log[n].fn /\ log'[n].total = log[n].total
          /\ log'[n].numbers = log[n].numbers
          /\ log[n].over \subseteq log'[n].over
          /\ log'[n].over \ log[n].over \subseteq {Len(log) + 1}
          /\ log'[n].from = log[n].from /\ log'[n].upto = log[n].upto
    <3>1. log[n] \in LogEntry /\ log'[n] = news[n]
      BY <1>4, <1>7
    <3>2. CASE news[n] = log[n]
      BY <3>1, <3>2
    <3>3. CASE news[n] = [log[n] EXCEPT !.over = @ \cup {Len(log) + 1}]
      BY <3>1, <3>3 DEF LogEntry
    <3> QED
      BY <2>1, <3>2, <3>3
  <2>5. entry.upto = 0 /\ entry.over \subseteq DOMAIN log
    BY <1>2
  <2> HIDE DEF entry
  <2> QED
    BY <1>4, <1>7, <2>2, <2>4, <2>5 DEF LogFrame
<1>10. Others(c)
  BY DEF Others, Begin, TypeOK, buffers
<1>11. KbufFrame(c) /\ StreamFrame(c) /\ NumbersFrame(c)
  BY NumbersStay DEF KbufFrame, StreamFrame, Begin, buffers
<1>12. Enters(f, ps)
  <2>1. entry.fn = f /\ entry.total = TextLen(ps) /\ entry.numbers = HasNumber(ps) /\ entry.upto = 0
    BY Zenon
  <2>2. ASSUME NEW d \in Callers, Active(d)
        PROVE  id[d] \in entry.over /\ Len(log) + 1 \in news[id[d]].over /\ id[d] \in DOMAIN log
    <3>1. id[d] \in running /\ id[d] \in DOMAIN log
      BY <1>1, <2>2 DEF Active
    <3>2. log[id[d]] \in LogEntry
      BY <1>4, <3>1
    <3>3. news[id[d]] = [log[id[d]] EXCEPT !.over = @ \cup {Len(log) + 1}]
      BY <3>1, Zenon
    <3>4. Len(log) + 1 \in news[id[d]].over
      BY <3>2, <3>3 DEF LogEntry
    <3>5. id[d] \in entry.over
      BY <3>1, Zenon
    <3> QED
      BY <3>1, <3>4, <3>5
  <2> HIDE DEF news, entry
  <2> QED
    BY <1>7, <2>1, <2>2 DEF Enters
<1> QED
  BY <1>8, <1>9, <1>10, <1>11, <1>12 DEF Frame, Begin, TypeOK, buffers

LEMMA LogStays ==
    ASSUME TypeOK, NEW c \in Callers, log' = log
    PROVE  log' \in Seq(LogEntry) /\ LogFrame(c)
<1>1. log \in Seq(LogEntry) /\ Len(log) \in Nat
  BY DEF TypeOK
<1> QED
  BY <1>1 DEF LogFrame

LEMMA LogSets ==
    ASSUME TypeOK, NEW c \in Callers, Active(c), Entry(c),
           \/ log' = [log EXCEPT ![id[c]].from = Len(stream)]
           \/ log' = [log EXCEPT ![id[c]].upto = Len(stream)]
    PROVE  /\ log' \in Seq(LogEntry) /\ LogFrame(c) /\ DOMAIN log' = DOMAIN log
           /\ \A n \in DOMAIN log : log'[n].over = log[n].over
<1>1. /\ log \in Seq(LogEntry) /\ Len(log) \in Nat /\ DOMAIN log = 1 .. Len(log)
      /\ Len(stream) \in Nat /\ id[c] \in 1 .. Len(log)
  BY DEF TypeOK, Entry
<1>2. log[id[c]] \in LogEntry
  BY <1>1
<1>3. PICK e \in LogEntry :
        /\ log' = [log EXCEPT ![id[c]] = e]
        /\ e.fn = log[id[c]].fn /\ e.total = log[id[c]].total
        /\ e.numbers = log[id[c]].numbers /\ e.over = log[id[c]].over
  <2> DEFINE ef == [log[id[c]] EXCEPT !.from = Len(stream)]
             eu == [log[id[c]] EXCEPT !.upto = Len(stream)]
  <2>1. /\ ef \in LogEntry /\ ef.fn = log[id[c]].fn /\ ef.total = log[id[c]].total
        /\ ef.numbers = log[id[c]].numbers /\ ef.over = log[id[c]].over
    BY <1>1, <1>2 DEF LogEntry
  <2>2. /\ eu \in LogEntry /\ eu.fn = log[id[c]].fn /\ eu.total = log[id[c]].total
        /\ eu.numbers = log[id[c]].numbers /\ eu.over = log[id[c]].over
    BY <1>1, <1>2 DEF LogEntry
  <2>3. log' = [log EXCEPT ![id[c]] = ef] \/ log' = [log EXCEPT ![id[c]] = eu]
    OBVIOUS
  <2> HIDE DEF ef, eu
  <2> QED
    BY <2>1, <2>2, <2>3
<1>4. /\ log' \in Seq(LogEntry) /\ Len(log') = Len(log) /\ DOMAIN log' = DOMAIN log
      /\ log'[id[c]] = e /\ \A n \in DOMAIN log : n # id[c] => log'[n] = log[n]
  BY <1>1, <1>3, ExceptSeq
<1>5. \A n \in DOMAIN log :
        /\ log'[n].fn = log[n].fn /\ log'[n].total = log[n].total
        /\ log'[n].numbers = log[n].numbers /\ log'[n].over = log[n].over
        /\ n # id[c] => log'[n].from = log[n].from /\ log'[n].upto = log[n].upto
  <2> SUFFICES ASSUME NEW n \in DOMAIN log
               PROVE  /\ log'[n].fn = log[n].fn /\ log'[n].total = log[n].total
                      /\ log'[n].numbers = log[n].numbers /\ log'[n].over = log[n].over
                      /\ n # id[c] => log'[n].from = log[n].from /\ log'[n].upto = log[n].upto
    OBVIOUS
  <2>1. CASE n = id[c]
    <3>1. log'[n] = e /\ log[n] = log[id[c]]
      BY <1>4, <2>1
    <3> QED
      BY <1>3, <2>1, <3>1
  <2>2. CASE n # id[c]
    <3>1. log'[n] = log[n]
      BY <1>4, <2>2
    <3> QED
      BY <3>1
  <2> QED
    BY <2>1, <2>2
<1>6. LogFrame(c)
  BY <1>1, <1>4, <1>5 DEF LogFrame
<1> QED
  BY <1>4, <1>5, <1>6

\* A character put in kbuf.
LEMMA KbufPut ==
    ASSUME TypeOK, NEW c \in Callers, NEW char \in Char, PutInKbuf(c, char)
    PROVE  /\ kbuf' \in [Functions -> [0 .. Room1 -> Char]]
           /\ kbuf'[fn[c]][o[c]] = char
           /\ \A f \in Functions, k \in 0 .. Room1 :
                 f # fn[c] \/ k # o[c] => kbuf'[f][k] = kbuf[f][k]
<1>1. fn[c] \in Functions /\ o[c] \in 0 .. Room1 /\ kbuf \in [Functions -> [0 .. Room1 -> Char]]
  BY DEF TypeOK
<1>2. kbuf' = [kbuf EXCEPT ![fn[c]] = [kbuf[fn[c]] EXCEPT ![o[c]] = char]]
  BY DEF PutInKbuf
<1> QED
  BY <1>1, <1>2

LEMMA KbufPutFrame ==
    ASSUME TypeOK, NEW c \in Callers, Active(c), NEW char \in Char, PutInKbuf(c, char),
           Puts(id[c], char)
    PROVE  KbufFrame(c)
BY KbufPut DEF KbufFrame

LEMMA NulChar == NUL \in Char /\ OfNumber(NUL)
BY DEF NUL, Char, Forms, OfNumber

\* One turn of the loop: the pieces that are left.
LEMMA RestType ==
    ASSUME TypeOK, NEW c \in Callers, rest[c] # <<>>
    PROVE  /\ rest[c] \in Seq(Piece) /\ Number(c) \in Piece /\ Head(rest[c]) \in Piece
           /\ Tail(rest[c]) \in Seq(Piece)
<1>1. rest[c] \in Seq(Piece)
  BY DEF TypeOK
<1> QED
  BY <1>1, HeadTailProperties DEF Number

LEMMA NumberFacts ==
    ASSUME TypeOK, NEW c \in Callers, rest[c] # <<>>, Number(c).conv # "char"
    PROVE  /\ Number(c) \in Piece /\ Number(c).len \in Nat /\ Number(c).len \in 1 .. MaxDigits
           /\ Converter(c) \in Converters
           /\ HasNumber(rest[c])
<1>1. Number(c) \in Piece /\ HasNumber(rest[c])
  BY RestType, NumbersAhead DEF Number
<1>2. Converter(c) \in Converters
  BY DEF Converter, Converters
<1> QED
  BY <1>1, <1>2, PieceFacts

\* The characters of a number.
LEMMA DigitFacts ==
    ASSUME NEW n \in Nat, NEW place \in Nat, NEW number, NEW q \in Nat
    PROVE  LET dig == Digit(n, place, number, q)
               shown == Shown(n, place, number, q)
           IN  /\ dig \in Char /\ shown \in Char
               /\ dig # NUL /\ shown # NUL
               /\ OfNumber(dig) /\ OfNumber(shown)
               /\ Right(shown, n, place + q)
               /\ number.conv # "x" => shown = dig
               /\ number.conv = "x" /\ dig.form # "capital" => shown = dig
               /\ number.conv = "x" /\ dig.form = "capital" => shown = [dig EXCEPT !.form = "small"]
<1> DEFINE letter == q + 1 \in number.letters
           ask == IF ~letter THEN "digit" ELSE IF number.conv = "x" THEN "small" ELSE "capital"
           frm == IF letter THEN "capital" ELSE "digit"
           dig == Digit(n, place, number, q)
           shown == Shown(n, place, number, q)
<1>1. dig = [call |-> n, place |-> place + q, asked |-> ask, form |-> frm]
  BY DEF Digit
<1>2. ask \in Forms /\ frm \in Forms /\ ask # "text" /\ frm # "text"
  BY DEF Forms
<1>3. /\ number.conv # "x" => ask = frm
      /\ number.conv = "x" /\ frm # "capital" => ask = frm
      /\ number.conv = "x" /\ frm = "capital" => ask = "small"
  OBVIOUS
<1> HIDE DEF ask, frm
<1>4. place + q \in Nat
  OBVIOUS
<1>5. shown = [call |-> n, place |-> place + q, asked |-> ask, form |-> ask]
  BY <1>1 DEF Shown
<1> HIDE DEF dig, shown
<1>6. dig \in Char /\ shown \in Char
  BY <1>1, <1>2, <1>4, <1>5 DEF Char
<1>7. NUL.asked = "text"
  BY DEF NUL
<1>8. dig.asked = ask /\ dig.form = frm /\ shown.asked = ask
  BY <1>1, <1>5
<1>9. dig # NUL /\ shown # NUL /\ OfNumber(dig) /\ OfNumber(shown)
  BY <1>2, <1>7, <1>8 DEF OfNumber
<1>10. Right(shown, n, place + q)
  BY <1>5 DEF Right
<1>11. /\ number.conv # "x" => shown = dig
       /\ number.conv = "x" /\ dig.form # "capital" => shown = dig
  BY <1>1, <1>3, <1>5, <1>8
<1>12. ASSUME number.conv = "x", dig.form = "capital"
       PROVE  shown = [dig EXCEPT !.form = "small"]
  <2>1. ask = "small"
    BY <1>3, <1>8, <1>12
  <2> QED
    BY <1>1, <1>5, <2>1
<1> QED
  BY <1>6, <1>9, <1>10, <1>11, <1>12 DEF dig, shown

\* A character made small.
LEMMA SmallChar ==
    ASSUME NEW char \in Char, char # NUL, OfNumber(char)
    PROVE  LET small == [char EXCEPT !.form = "small"]
           IN  small \in Char /\ small # NUL /\ OfNumber(small)
<1> DEFINE small == [char EXCEPT !.form = "small"]
<1>1. small \in Char /\ small.asked = char.asked
  BY DEF Char, Forms
<1>2. char.asked # "text" /\ NUL.asked = "text"
  BY DEF OfNumber, NUL
<1> HIDE DEF small
<1>3. small \in Char /\ small # NUL /\ OfNumber(small)
  BY <1>1, <1>2 DEF OfNumber
<1> QED
  BY <1>3 DEF small

\* A character put in a buffer of the numbers.
LEMMA TmpPut ==
    ASSUME TypeOK, NumberInv, NEW c \in Callers, Active(c), HasNumber(rest[c]),
           NEW m \in 0 .. MaxDigits, NEW char \in Char, OfNumber(char),
           tmp_buf' = [tmp_buf EXCEPT ![m] = char], numbuf' = numbuf,
           m = MaxDigits => char = NUL, m = 0 => char # NUL
    PROVE  /\ tmp_buf' \in [0 .. MaxDigits -> Char] /\ NumbersFrame(c)
           /\ \A k \in 0 .. MaxDigits : tmp_buf'[k] = IF k = m THEN char ELSE tmp_buf[k]
<1>1. tmp_buf \in [0 .. MaxDigits -> Char] /\ MaxDigits \in 0 .. MaxDigits /\ 0 \in 0 .. MaxDigits
  BY Sizes DEF TypeOK
<1>2. \A k \in 0 .. MaxDigits : tmp_buf'[k] = IF k = m THEN char ELSE tmp_buf[k]
  BY <1>1
<1>3. tmp_buf' \in [0 .. MaxDigits -> Char]
  BY <1>1
<1>4. NumbersFrame(c)
  BY <1>1, <1>2 DEF NumbersFrame, NumberInv
<1> QED
  BY <1>2, <1>3, <1>4

LEMMA NumbufPut ==
    ASSUME TypeOK, NumberInv, NEW c \in Callers, Active(c), HasNumber(rest[c]),
           NEW g \in Converters, NEW m \in 0 .. MaxDigits - 1, NEW char \in Char,
           char # NUL, OfNumber(char),
           numbuf' = [numbuf EXCEPT ![g][m] = char], tmp_buf' = tmp_buf
    PROVE  /\ numbuf' \in [Converters -> [0 .. MaxDigits - 1 -> Char]] /\ NumbersFrame(c)
           /\ \A k \in 0 .. MaxDigits - 1 : numbuf'[g][k] = IF k = m THEN char ELSE numbuf[g][k]
<1>1. numbuf \in [Converters -> [0 .. MaxDigits - 1 -> Char]]
  BY DEF TypeOK
<1>2. numbuf' = [numbuf EXCEPT ![g] = [numbuf[g] EXCEPT ![m] = char]]
  OBVIOUS
<1>3. numbuf' \in [Converters -> [0 .. MaxDigits - 1 -> Char]]
  BY <1>1, <1>2
<1>4. \A h \in Converters : \A k \in 0 .. MaxDigits - 1 :
        numbuf'[h][k] = IF h = g /\ k = m THEN char ELSE numbuf[h][k]
  BY <1>1, <1>2
<1>5. NumbersFrame(c)
  BY <1>4 DEF NumbersFrame, NumberInv
<1> QED
  BY <1>3, <1>4, <1>5

\* What the steps of a conversion have in common, the last one excepted.
Moves(c, p, jn, ln, char) ==
    /\ pc' = [pc EXCEPT ![c] = p]
    /\ j' = [j EXCEPT ![c] = jn]
    /\ l' = [l EXCEPT ![c] = ln]
    /\ ch' = [ch EXCEPT ![c] = char]
    /\ UNCHANGED <<tty_lock, kbuf, fn, id, rest, next, o, i, stream, log>>

LEMMA MovesSets ==
    ASSUME TypeOK, NEW c \in Callers, Active(c), NEW p \in PCs \ {"idle", "acquire", "store"},
           NEW jn \in Nat, NEW ln \in Nat, NEW char \in Char,
           Moves(c, p, jn, ln, char), NumbersFrame(c),
           numbuf' \in [Converters -> [0 .. MaxDigits - 1 -> Char]],
           tmp_buf' \in [0 .. MaxDigits -> Char]
    PROVE  /\ TypeOK' /\ Frame(c)
           /\ pc'[c] = p /\ j'[c] = jn /\ l'[c] = ln /\ ch'[c] = char
<1>1. log' \in Seq(LogEntry) /\ LogFrame(c)
  BY LogStays DEF Moves
<1>2. /\ pc' \in [Callers -> PCs] /\ j' \in [Callers -> Nat] /\ l' \in [Callers -> Nat]
      /\ ch' \in [Callers -> Char]
      /\ pc'[c] = p /\ j'[c] = jn /\ l'[c] = ln /\ ch'[c] = char
  BY DEF Moves, TypeOK
<1>3. TypeOK'
  BY <1>1, <1>2 DEF TypeOK, Moves
<1>4. Others(c)
  BY DEF Others, Moves, TypeOK
<1>5. KbufFrame(c) /\ StreamFrame(c)
  BY DEF KbufFrame, StreamFrame, Moves
<1> QED
  BY <1>1, <1>2, <1>3, <1>4, <1>5 DEF Frame, Moves

\* How each step moves, and what it does to the buffers of the numbers.
Keeps == numbuf' = numbuf /\ tmp_buf' = tmp_buf

LEMMA ExceptSame ==
    ASSUME NEW f, NEW D, NEW x \in D, f = [y \in D |-> f[y]]
    PROVE  [f EXCEPT ![x] = f[x]] = f
OBVIOUS

LEMMA SameSets ==
    ASSUME TypeOK, NEW c \in Callers
    PROVE  /\ [pc EXCEPT ![c] = pc[c]] = pc /\ [j EXCEPT ![c] = j[c]] = j
           /\ [l EXCEPT ![c] = l[c]] = l /\ [ch EXCEPT ![c] = ch[c]] = ch
<1>1. /\ pc = [y \in Callers |-> pc[y]] /\ j = [y \in Callers |-> j[y]]
      /\ l = [y \in Callers |-> l[y]] /\ ch = [y \in Callers |-> ch[y]]
  BY DEF TypeOK
<1> QED
  BY <1>1, ExceptSame

LEMMA DivideMoves ==
    ASSUME TypeOK, NumberInv, NEW c \in Callers, Local(c), Divide(c)
    PROVE  LET k == Number(c).len
               more == j[c] + 1 < k
               p == IF more THEN "format" ELSE "turn"
               jn == IF more THEN j[c] + 1 ELSE 0
           IN  /\ pc[c] = "format" /\ rest[c] # <<>> /\ Number(c).conv # "char" /\ o[c] < Room1
               /\ j[c] < k
               /\ Moves(c, p, jn, l[c], ch[c]) /\ p \in PCs \ {"idle", "acquire", "store"}
               /\ jn \in Nat
               /\ numbuf' \in [Converters -> [0 .. MaxDigits - 1 -> Char]] /\ tmp_buf' = tmp_buf
               /\ NumbersFrame(c)
               /\ \A m \in 0 .. MaxDigits - 1 :
                     numbuf'[Converter(c)][m] =
                         IF m = j[c] THEN Digit(id[c], next[c], Number(c), k - 1 - j[c]) ELSE numbuf[Converter(c)][m]
<1> DEFINE k == Number(c).len
           more == j[c] + 1 < k
           p == IF more THEN "format" ELSE "turn"
           jn == IF more THEN j[c] + 1 ELSE 0
<1>1. pc[c] = "format" /\ rest[c] # <<>> /\ Number(c).conv # "char" /\ o[c] < Room1 /\ Active(c)
  BY DEF Divide, Formatting, Room, Room1, Active
<1>2. /\ k \in Nat /\ k \in 1 .. MaxDigits /\ Converter(c) \in Converters /\ HasNumber(rest[c])
      /\ j[c] \in Nat /\ id[c] \in Nat /\ next[c] \in Nat
  BY <1>1, NumberFacts, CallTypes
<1> HIDE DEF k
<1>3. j[c] < k
  BY <1>1, <1>2 DEF Local, NumberLocal, k
<1>4. j[c] \in 0 .. MaxDigits - 1 /\ k - 1 - j[c] \in Nat
  BY <1>2, <1>3, Sizes
<1>5. Moves(c, p, jn, l[c], ch[c])
  <2>1. UNCHANGED <<tty_lock, kbuf, fn, id, rest, next, o, l, ch, i, stream, log>>
    BY DEF Divide
  <2>2. CASE more
    <3>1. j' = [j EXCEPT ![c] = j[c] + 1] /\ pc' = pc
      BY <2>2 DEF Divide, k
    <3> QED
      BY <1>1, <2>1, <2>2, <3>1, SameSets DEF Moves
  <2>3. CASE ~more
    <3>1. j' = [j EXCEPT ![c] = 0] /\ pc' = [pc EXCEPT ![c] = "turn"]
      BY <2>3 DEF Divide, k
    <3> QED
      BY <2>1, <2>3, <3>1, SameSets DEF Moves
  <2> QED
    BY <2>2, <2>3
<1>6. p \in PCs \ {"idle", "acquire", "store"} /\ jn \in Nat
  BY <1>2 DEF PCs
<1>7. /\ numbuf' = [numbuf EXCEPT ![Converter(c)][j[c]] = Digit(id[c], next[c], Number(c), k - 1 - j[c])]
      /\ tmp_buf' = tmp_buf
  BY DEF Divide, k
<1>8. /\ numbuf' \in [Converters -> [0 .. MaxDigits - 1 -> Char]] /\ NumbersFrame(c)
      /\ \A m \in 0 .. MaxDigits - 1 :
            numbuf'[Converter(c)][m] =
                IF m = j[c] THEN Digit(id[c], next[c], Number(c), k - 1 - j[c]) ELSE numbuf[Converter(c)][m]
  BY <1>1, <1>2, <1>4, <1>7, DigitFacts, NumbufPut
<1> HIDE DEF p, jn
<1> QED
  BY <1>1, <1>3, <1>5, <1>6, <1>7, <1>8 DEF p, jn, k

LEMMA TurnLoadMoves ==
    ASSUME TypeOK, NumberInv, NEW c \in Callers, Local(c), TurnLoad(c)
    PROVE  LET char == numbuf[Converter(c)][Number(c).len - 1 - j[c]]
           IN  /\ pc[c] = "turn" /\ Number(c).len - 1 - j[c] \in 0 .. MaxDigits - 1
               /\ Moves(c, "turned", j[c], l[c], char)
               /\ char \in Char /\ char # NUL /\ OfNumber(char) /\ Keeps
<1>1. pc[c] = "turn" /\ Busy(c)
  BY DEF TurnLoad, Busy, Building
<1>2. rest[c] # <<>> /\ Number(c).conv # "char" /\ j[c] \in Nat
      /\ (j[c] = 0 \/ j[c] < Number(c).len)
      /\ \A m \in 0 .. MaxDigits - 1 : m < Built(c) => numbuf[Converter(c)][m] # NUL
  BY <1>1, CallTypes DEF Local, NumberLocal, Building
<1>3. /\ Number(c).len \in Nat /\ Number(c).len \in 1 .. MaxDigits /\ Converter(c) \in Converters
      /\ Built(c) = Number(c).len
  BY <1>1, <1>2, NumberFacts DEF Built
<1> DEFINE m == Number(c).len - 1 - j[c]
<1>4. m \in 0 .. MaxDigits - 1 /\ m < Number(c).len
  BY <1>2, <1>3, Sizes
<1>5. numbuf[Converter(c)][m] \in Char /\ OfNumber(numbuf[Converter(c)][m])
      /\ numbuf[Converter(c)][m] # NUL
  <2>1. numbuf[Converter(c)][m] \in Char
    <3>1. numbuf[Converter(c)] \in [0 .. MaxDigits - 1 -> Char]
      BY <1>3 DEF TypeOK
    <3> QED
      BY <1>4, <3>1
  <2>2. OfNumber(numbuf[Converter(c)][m])
    BY <1>3, <1>4 DEF NumberInv
  <2>3. numbuf[Converter(c)][m] # NUL
    BY <1>2, <1>3, <1>4
  <2> QED
    BY <2>1, <2>2, <2>3
<1>6. Moves(c, "turned", j[c], l[c], numbuf[Converter(c)][m]) /\ Keeps
  BY SameSets DEF TurnLoad, Moves, buffers, Keeps
<1> QED
  BY <1>1, <1>4, <1>5, <1>6

LEMMA TurnStoreMoves ==
    ASSUME TypeOK, NumberInv, NEW c \in Callers, Local(c), TurnStore(c)
    PROVE  LET p == IF j[c] + 1 < Number(c).len THEN "turn" ELSE "end"
           IN  /\ pc[c] = "turned" /\ j[c] < Number(c).len
               /\ Moves(c, p, j[c] + 1, l[c], NUL) /\ p \in PCs \ {"idle", "acquire", "store"}
               /\ ch[c] # NUL
               /\ tmp_buf' \in [0 .. MaxDigits -> Char] /\ numbuf' = numbuf /\ NumbersFrame(c)
               /\ \A k \in 0 .. MaxDigits : tmp_buf'[k] = IF k = j[c] THEN ch[c] ELSE tmp_buf[k]
<1> DEFINE p == IF j[c] + 1 < Number(c).len THEN "turn" ELSE "end"
<1>1. pc[c] = "turned" /\ Busy(c) /\ Active(c)
  BY DEF TurnStore, Busy, Building, Active
<1>2. rest[c] # <<>> /\ Number(c).conv # "char" /\ j[c] \in Nat
      /\ (j[c] = 0 \/ j[c] < Number(c).len) /\ ch[c] # NUL /\ OfNumber(ch[c]) /\ ch[c] \in Char
  BY <1>1, CallTypes DEF Local, NumberLocal, Building
<1>3. Number(c).len \in Nat /\ Number(c).len \in 1 .. MaxDigits /\ HasNumber(rest[c])
  BY <1>2, NumberFacts
<1>4. j[c] \in 0 .. MaxDigits /\ j[c] # MaxDigits /\ j[c] < Number(c).len
  BY <1>2, <1>3, Sizes
<1>5. tmp_buf' = [tmp_buf EXCEPT ![j[c]] = ch[c]] /\ numbuf' = numbuf
  BY DEF TurnStore
<1>6. /\ tmp_buf' \in [0 .. MaxDigits -> Char] /\ NumbersFrame(c)
      /\ \A k \in 0 .. MaxDigits : tmp_buf'[k] = IF k = j[c] THEN ch[c] ELSE tmp_buf[k]
  BY <1>1, <1>2, <1>3, <1>4, <1>5, TmpPut
<1>7. Moves(c, p, j[c] + 1, l[c], NUL)
  BY SameSets DEF TurnStore, Moves
<1>8. p \in PCs \ {"idle", "acquire", "store"}
  BY DEF PCs
<1> HIDE DEF p
<1> QED
  BY <1>1, <1>2, <1>4, <1>5, <1>6, <1>7, <1>8 DEF p

LEMMA EndNumberMoves ==
    ASSUME TypeOK, NumberInv, NEW c \in Callers, Local(c), EndNumber(c)
    PROVE  LET p == IF Number(c).conv = "x" THEN "lower" ELSE "measure"
           IN  /\ pc[c] = "end" /\ j[c] = Number(c).len
               /\ Moves(c, p, 0, l[c], ch[c]) /\ p \in PCs \ {"idle", "acquire", "store"}
               /\ tmp_buf' \in [0 .. MaxDigits -> Char] /\ numbuf' = numbuf /\ NumbersFrame(c)
               /\ \A k \in 0 .. MaxDigits : tmp_buf'[k] = IF k = j[c] THEN NUL ELSE tmp_buf[k]
<1> DEFINE p == IF Number(c).conv = "x" THEN "lower" ELSE "measure"
<1>1. pc[c] = "end" /\ Busy(c) /\ Active(c)
  BY DEF EndNumber, Busy, Active
<1>2. rest[c] # <<>> /\ Number(c).conv # "char" /\ j[c] = Number(c).len
  BY <1>1, CallTypes DEF Local, NumberLocal
<1>3. Number(c).len \in Nat /\ Number(c).len \in 1 .. MaxDigits /\ HasNumber(rest[c])
  BY <1>2, NumberFacts
<1>4. j[c] \in 0 .. MaxDigits /\ j[c] # 0
  BY <1>2, <1>3, Sizes
<1>5. tmp_buf' = [tmp_buf EXCEPT ![j[c]] = NUL] /\ numbuf' = numbuf
  BY DEF EndNumber
<1>6. /\ tmp_buf' \in [0 .. MaxDigits -> Char] /\ NumbersFrame(c)
      /\ \A k \in 0 .. MaxDigits : tmp_buf'[k] = IF k = j[c] THEN NUL ELSE tmp_buf[k]
  BY <1>1, <1>3, <1>4, <1>5, NulChar, TmpPut
<1>7. Moves(c, p, 0, l[c], ch[c])
  BY SameSets DEF EndNumber, Moves
<1>8. p \in PCs \ {"idle", "acquire", "store"}
  BY DEF PCs
<1> HIDE DEF p
<1> QED
  BY <1>1, <1>2, <1>5, <1>6, <1>7, <1>8 DEF p

\* Where a scan of tmp_buf stands.
LEMMA ScanAt ==
    ASSUME TypeOK, NumberInv, NEW c \in Callers, Local(c), pc[c] \in Scanning
    PROVE  /\ Active(c) /\ rest[c] # <<>> /\ Number(c).conv # "char" /\ j[c] \in 0 .. MaxDigits
           /\ tmp_buf[j[c]] \in Char /\ OfNumber(tmp_buf[j[c]])
           /\ tmp_buf[j[c]] # NUL => j[c] < MaxDigits
           /\ tmp_buf[0] # NUL
<1>1. Active(c) /\ Busy(c) /\ Begun(c)
  BY DEF Active, Busy, Scanning, Begun
<1>2. rest[c] # <<>> /\ Number(c).conv # "char" /\ j[c] \in 0 .. MaxDigits /\ tmp_buf[0] # NUL
  BY <1>1, CallTypes, Sizes DEF Local, NumberLocal
<1> QED
  BY <1>1, <1>2, Sizes DEF TypeOK, NumberInv

LEMMA LowerLoadMoves ==
    ASSUME TypeOK, NumberInv, NEW c \in Callers, Local(c), LowerLoad(c)
    PROVE  /\ pc[c] = "lower" /\ Keeps
           /\ \/ tmp_buf[j[c]] = NUL /\ Moves(c, "measure", 0, l[c], ch[c])
              \/ /\ tmp_buf[j[c]] # NUL /\ tmp_buf[j[c]].form = "capital"
                 /\ Moves(c, "lowered", j[c], l[c], tmp_buf[j[c]])
              \/ /\ tmp_buf[j[c]] # NUL /\ tmp_buf[j[c]].form # "capital"
                 /\ Moves(c, "lower", j[c] + 1, l[c], ch[c])
<1>1. /\ pc[c] = "lower" /\ Keeps
      /\ UNCHANGED <<tty_lock, kbuf, fn, id, rest, next, o, l, i, stream, log>>
  BY DEF LowerLoad, Keeps, buffers
<1>2. CASE tmp_buf[j[c]] = NUL
  <2>1. j' = [j EXCEPT ![c] = 0] /\ ch' = ch /\ pc' = [pc EXCEPT ![c] = "measure"]
    BY <1>2 DEF LowerLoad
  <2> QED
    BY <1>1, <1>2, <2>1, SameSets DEF Moves
<1>3. CASE tmp_buf[j[c]] # NUL /\ tmp_buf[j[c]].form = "capital"
  <2>1. j' = j /\ ch' = [ch EXCEPT ![c] = tmp_buf[j[c]]] /\ pc' = [pc EXCEPT ![c] = "lowered"]
    BY <1>3 DEF LowerLoad
  <2> QED
    BY <1>1, <1>3, <2>1, SameSets DEF Moves
<1>4. CASE tmp_buf[j[c]] # NUL /\ tmp_buf[j[c]].form # "capital"
  <2>1. j' = [j EXCEPT ![c] = j[c] + 1] /\ ch' = ch /\ pc' = pc
    BY <1>4 DEF LowerLoad
  <2> QED
    BY <1>1, <1>4, <2>1, SameSets DEF Moves
<1> QED
  BY <1>1, <1>2, <1>3, <1>4

LEMMA LowerStoreMoves ==
    ASSUME TypeOK, NumberInv, NEW c \in Callers, Local(c), LowerStore(c)
    PROVE  LET char == [ch[c] EXCEPT !.form = "small"]
           IN  /\ pc[c] = "lowered" /\ j[c] < MaxDigits
               /\ Moves(c, "lower", j[c] + 1, l[c], NUL)
               /\ tmp_buf' \in [0 .. MaxDigits -> Char] /\ numbuf' = numbuf /\ NumbersFrame(c)
               /\ \A k \in 0 .. MaxDigits : tmp_buf'[k] = IF k = j[c] THEN char ELSE tmp_buf[k]
<1> DEFINE char == [ch[c] EXCEPT !.form = "small"]
<1>1. pc[c] = "lowered" /\ pc[c] \in Scanning
  BY DEF LowerStore, Scanning
<1>2. /\ Active(c) /\ rest[c] # <<>> /\ Number(c).conv # "char" /\ j[c] \in 0 .. MaxDigits
      /\ HasNumber(rest[c])
  BY <1>1, ScanAt, NumberFacts
<1>3. ch[c] \in Char /\ ch[c] # NUL /\ OfNumber(ch[c]) /\ j[c] < MaxDigits
  BY <1>1, CallTypes DEF Local, NumberLocal
<1>4. char \in Char /\ char # NUL /\ OfNumber(char)
  BY <1>3, SmallChar
<1>5. tmp_buf' = [tmp_buf EXCEPT ![j[c]] = char] /\ numbuf' = numbuf
  BY DEF LowerStore
<1>6. Moves(c, "lower", j[c] + 1, l[c], NUL)
  BY SameSets DEF LowerStore, Moves
<1> HIDE DEF char
<1>7. /\ tmp_buf' \in [0 .. MaxDigits -> Char] /\ NumbersFrame(c)
      /\ \A k \in 0 .. MaxDigits : tmp_buf'[k] = IF k = j[c] THEN char ELSE tmp_buf[k]
  <2>1. j[c] # MaxDigits
    BY <1>2, <1>3, Sizes
  <2> QED
    BY <1>2, <1>4, <1>5, <2>1, TmpPut
<1> QED
  BY <1>1, <1>3, <1>5, <1>6, <1>7 DEF char

LEMMA MeasureMoves ==
    ASSUME TypeOK, NumberInv, NEW c \in Callers, Local(c), Measure(c)
    PROVE  LET rem == Room1 - o[c]
           IN  /\ pc[c] = "measure" /\ Keeps
               /\ \/ tmp_buf[j[c]] # NUL /\ Moves(c, "measure", j[c] + 1, l[c], ch[c])
                  \/ /\ tmp_buf[j[c]] = NUL
                     /\ Moves(c, "fetch", 0, IF j[c] > rem THEN rem ELSE j[c], ch[c])
<1> DEFINE rem == Room1 - o[c]
<1>1. /\ pc[c] = "measure" /\ Keeps
      /\ UNCHANGED <<tty_lock, kbuf, fn, id, rest, next, o, ch, i, stream, log>>
  BY DEF Measure, Keeps, buffers
<1>2. CASE tmp_buf[j[c]] # NUL
  <2>1. j' = [j EXCEPT ![c] = j[c] + 1] /\ l' = l /\ pc' = pc
    BY <1>2 DEF Measure
  <2> QED
    BY <1>1, <1>2, <2>1, SameSets DEF Moves
<1>3. CASE tmp_buf[j[c]] = NUL
  <2>1. /\ l' = [l EXCEPT ![c] = IF j[c] > rem THEN rem ELSE j[c]]
        /\ j' = [j EXCEPT ![c] = 0] /\ pc' = [pc EXCEPT ![c] = "fetch"]
    BY <1>3 DEF Measure, Room1
  <2> HIDE DEF rem
  <2>2. Moves(c, "fetch", 0, IF j[c] > rem THEN rem ELSE j[c], ch[c])
    BY <1>1, <2>1, SameSets DEF Moves
  <2> QED
    BY <1>1, <1>3, <2>2 DEF rem
<1> QED
  BY <1>2, <1>3

LEMMA FetchMoves ==
    ASSUME TypeOK, NumberInv, NEW c \in Callers, Local(c), Fetch(c)
    PROVE  /\ pc[c] = "fetch" /\ Keeps /\ j[c] \in 0 .. MaxDigits
           /\ Moves(c, "put", j[c], l[c], tmp_buf[j[c]])
           /\ tmp_buf[j[c]] \in Char /\ OfNumber(tmp_buf[j[c]])
<1>1. pc[c] = "fetch" /\ Keeps
  BY DEF Fetch, Keeps, buffers
<1>2. j[c] \in 0 .. MaxDigits
  BY <1>1, CallTypes, Sizes DEF Local, NumberLocal, Copying
<1>3. tmp_buf[j[c]] \in Char /\ OfNumber(tmp_buf[j[c]])
  BY <1>2 DEF TypeOK, NumberInv
<1>4. Moves(c, "put", j[c], l[c], tmp_buf[j[c]])
  BY SameSets DEF Fetch, Moves, buffers
<1> QED
  BY <1>1, <1>2, <1>3, <1>4

LEMMA CopyCharFrame ==
    ASSUME TypeOK, CallInv, NumberInv, NEW c \in Callers, Local(c), CopyChar(c)
    PROVE  TypeOK' /\ Frame(c)
<1> DEFINE char == [call |-> id[c], place |-> next[c], asked |-> "text", form |-> "text"]
<1>1. pc[c] = "format" /\ rest[c] # <<>> /\ o[c] < Room1 /\ Active(c)
  BY DEF CopyChar, Formatting, Room, Active, Room1
<1>2. id[c] \in Nat /\ next[c] \in Nat /\ o[c] + 1 \in 0 .. Room1
  BY <1>1, Sizes DEF TypeOK
<1>3. char \in Char /\ Puts(id[c], char) /\ PutInKbuf(c, char)
  BY <1>2 DEF Char, Forms, Puts, CopyChar
<1> HIDE DEF char
<1>4. KbufFrame(c)
  BY <1>1, <1>3, KbufPutFrame
<1>5. kbuf' \in [Functions -> [0 .. Room1 -> Char]]
  BY <1>3, KbufPut
<1>6. log' \in Seq(LogEntry) /\ LogFrame(c)
  BY LogStays DEF CopyChar
<1>7. Others(c)
  BY DEF Others, CopyChar, TypeOK
<1>8. /\ rest' \in [Callers -> Seq(Piece)] /\ next' \in [Callers -> Nat]
      /\ o' \in [Callers -> 0 .. Room1]
  <2>1. Tail(rest[c]) \in Seq(Piece) /\ next[c] + 1 \in Nat
    BY <1>1, <1>2, RestType
  <2> QED
    BY <1>2, <2>1 DEF TypeOK, CopyChar
<1>9. TypeOK'
  BY <1>5, <1>6, <1>8 DEF TypeOK, CopyChar
<1> QED
  BY <1>1, <1>4, <1>6, <1>7, <1>9, NumbersStay DEF Frame, StreamFrame, CopyChar, TypeOK

LEMMA ConvertFrame ==
    ASSUME TypeOK, NumberInv, NEW c \in Callers, Local(c), Convert(c)
    PROVE  TypeOK' /\ Frame(c)
<1>0. /\ "turned" \in PCs \ {"idle", "acquire", "store"} /\ "lower" \in PCs \ {"idle", "acquire", "store"}
      /\ "lowered" \in PCs \ {"idle", "acquire", "store"}
      /\ "measure" \in PCs \ {"idle", "acquire", "store"}
      /\ 0 \in Nat /\ NUL \in Char
  BY NulChar DEF PCs
<1>1. j[c] \in Nat /\ j[c] + 1 \in Nat /\ l[c] \in Nat /\ ch[c] \in Char
  BY CallTypes
<1>2. Keeps => /\ numbuf' \in [Converters -> [0 .. MaxDigits - 1 -> Char]]
               /\ tmp_buf' \in [0 .. MaxDigits -> Char] /\ NumbersFrame(c)
  BY NumbersStay DEF Keeps, TypeOK
<1>3. /\ numbuf \in [Converters -> [0 .. MaxDigits - 1 -> Char]]
      /\ tmp_buf \in [0 .. MaxDigits -> Char]
  BY DEF TypeOK
<1>4. CASE Divide(c)
  <2>1. pc[c] = "format"
    BY <1>4, DivideMoves
  <2> QED
    BY <1>1, <1>3, <1>4, <2>1, DivideMoves, MovesSets DEF Active
<1>5. CASE TurnLoad(c)
  <2>1. pc[c] = "turn"
    BY <1>5, TurnLoadMoves
  <2> QED
    BY <1>0, <1>1, <1>2, <1>5, <2>1, TurnLoadMoves, MovesSets DEF Active
<1>6. CASE TurnStore(c)
  <2>1. pc[c] = "turned"
    BY <1>6, TurnStoreMoves
  <2> QED
    BY <1>0, <1>1, <1>3, <1>6, <2>1, TurnStoreMoves, MovesSets DEF Active
<1>7. CASE EndNumber(c)
  <2>1. pc[c] = "end"
    BY <1>7, EndNumberMoves
  <2> QED
    BY <1>0, <1>1, <1>3, <1>7, <2>1, EndNumberMoves, MovesSets DEF Active
<1>8. CASE LowerLoad(c)
  <2>1. pc[c] = "lower" /\ Active(c) /\ pc[c] \in Scanning
    BY <1>8, LowerLoadMoves DEF Active, Scanning
  <2>2. tmp_buf[j[c]] \in Char
    BY <2>1, ScanAt
  <2> QED
    BY <1>0, <1>1, <1>2, <1>8, <2>1, <2>2, LowerLoadMoves, MovesSets
<1>9. CASE LowerStore(c)
  <2>1. pc[c] = "lowered"
    BY <1>9, LowerStoreMoves
  <2> QED
    BY <1>0, <1>1, <1>3, <1>9, <2>1, LowerStoreMoves, MovesSets DEF Active
<1> QED
  BY <1>4, <1>5, <1>6, <1>7, <1>8, <1>9 DEF Convert

LEMMA MeasureFrame ==
    ASSUME TypeOK, NumberInv, NEW c \in Callers, Local(c), Measure(c)
    PROVE  TypeOK' /\ Frame(c)
<1> DEFINE ln == IF j[c] > Room1 - o[c] THEN Room1 - o[c] ELSE j[c]
<1>1. pc[c] = "measure" /\ Active(c) /\ Busy(c) /\ pc[c] \notin Copying /\ Keeps
  BY MeasureMoves DEF Active, Busy, Scanning, Copying
<1>2. o[c] < Room1
  BY <1>1 DEF Local, NumberLocal
<1>3. j[c] \in Nat /\ j[c] + 1 \in Nat /\ l[c] \in Nat /\ ch[c] \in Char /\ ln \in Nat
  BY <1>2, CallTypes, Sizes
<1>4. /\ numbuf' \in [Converters -> [0 .. MaxDigits - 1 -> Char]]
      /\ tmp_buf' \in [0 .. MaxDigits -> Char] /\ NumbersFrame(c)
  BY <1>1, NumbersStay DEF Keeps, TypeOK
<1>5. "measure" \in PCs \ {"idle", "acquire", "store"} /\ "fetch" \in PCs \ {"idle", "acquire", "store"}
  BY DEF PCs
<1>6. Moves(c, "measure", j[c] + 1, l[c], ch[c]) \/ Moves(c, "fetch", 0, ln, ch[c])
  BY MeasureMoves
<1> HIDE DEF ln
<1> QED
  BY <1>1, <1>3, <1>4, <1>5, <1>6, MovesSets, 0 \in Nat

LEMMA FetchFrame ==
    ASSUME TypeOK, NumberInv, NEW c \in Callers, Local(c), Fetch(c)
    PROVE  TypeOK' /\ Frame(c)
<1>1. pc[c] = "fetch" /\ Active(c) /\ Keeps
  BY FetchMoves DEF Active
<1>2. j[c] \in Nat /\ l[c] \in Nat
  BY CallTypes
<1>3. /\ numbuf' \in [Converters -> [0 .. MaxDigits - 1 -> Char]]
      /\ tmp_buf' \in [0 .. MaxDigits -> Char] /\ NumbersFrame(c)
  BY <1>1, NumbersStay DEF Keeps, TypeOK
<1>4. "put" \in PCs \ {"idle", "acquire", "store"}
  BY DEF PCs
<1> QED
  BY <1>1, <1>2, <1>3, <1>4, FetchMoves, MovesSets

\* A character of a number, as the call puts it in its kbuf.
LEMMA PutDigitAt ==
    ASSUME Inv, NEW c \in Callers, PutDigit(c)
    PROVE  /\ pc[c] = "put" /\ Active(c) /\ rest[c] # <<>> /\ Number(c).conv # "char"
           /\ Number(c) \in Piece /\ Number(c).len \in 1 .. MaxDigits /\ Number(c).len \in Nat
           /\ j[c] \in Nat /\ l[c] \in Nat /\ o[c] \in Nat /\ next[c] \in Nat
           /\ j[c] < l[c] /\ o[c] + (l[c] - j[c]) <= Room1
           /\ o[c] \in 0 .. Room1 /\ o[c] + 1 \in 0 .. Room1
           /\ ch[c] \in Char /\ Puts(id[c], ch[c]) /\ PutInKbuf(c, ch[c])
<1>1. pc[c] = "put" /\ Active(c) /\ Busy(c) /\ pc[c] \in Copying /\ PutInKbuf(c, ch[c])
  BY DEF PutDigit, Active, Busy, Copying
<1>2. TypeOK /\ NumberLocal(c) /\ Entry(c) /\ Calm(c)
  BY <1>1 DEF Inv, CallInv, Local
<1>3. rest[c] # <<>> /\ Number(c).conv # "char" /\ j[c] < l[c] /\ o[c] + (l[c] - j[c]) <= Room1
      /\ OfNumber(ch[c])
  BY <1>1, <1>2 DEF NumberLocal
<1>4. /\ j[c] \in Nat /\ l[c] \in Nat /\ o[c] \in 0 .. Room1 /\ o[c] \in Nat /\ next[c] \in Nat
      /\ ch[c] \in Char
  BY <1>2, CallTypes, Sizes
<1>5. o[c] + 1 \in 0 .. Room1
  BY <1>3, <1>4, Sizes
<1>6. Number(c) \in Piece /\ Number(c).len \in 1 .. MaxDigits /\ Number(c).len \in Nat
  BY <1>2, <1>3, NumberFacts
<1>7. Puts(id[c], ch[c])
  <2>1. CASE Races(id[c])
    BY <1>3, <2>1 DEF Puts, OfNumber
  <2>2. CASE ~Races(id[c])
    <3>1. ch[c] = Shown(id[c], next[c], Number(c), j[c]) /\ id[c] \in Nat
      BY <1>1, <1>2, <2>2, CallTypes DEF Calm, OwnNumber, NumberAt
    <3>2. Right(Shown(id[c], next[c], Number(c), j[c]), id[c], next[c] + j[c])
      BY <1>4, <3>1, DigitFacts
    <3> QED
      BY <3>1, <3>2 DEF Right, Puts
  <2> QED
    BY <2>1, <2>2
<1> QED
  BY <1>1, <1>3, <1>4, <1>5, <1>6, <1>7

LEMMA PutDigitFrame ==
    ASSUME Inv, NEW c \in Callers, PutDigit(c)
    PROVE  TypeOK' /\ Frame(c)
<1> USE DEF Inv
<1>1. /\ pc[c] = "put" /\ Active(c) /\ rest[c] # <<>>
      /\ Number(c).len \in Nat /\ j[c] \in Nat /\ next[c] \in Nat /\ o[c] + 1 \in 0 .. Room1
      /\ ch[c] \in Char /\ Puts(id[c], ch[c]) /\ PutInKbuf(c, ch[c])
  BY PutDigitAt
<1>2. KbufFrame(c) /\ kbuf' \in [Functions -> [0 .. Room1 -> Char]]
  BY <1>1, KbufPut, KbufPutFrame
<1>3. log' \in Seq(LogEntry) /\ LogFrame(c)
  BY LogStays DEF PutDigit
<1>4. Tail(rest[c]) \in Seq(Piece)
  BY <1>1, RestType
<1>5. "fetch" \in PCs /\ "format" \in PCs
  BY DEF PCs
<1>6. /\ o' \in [Callers -> 0 .. Room1] /\ j' \in [Callers -> Nat] /\ l' \in [Callers -> Nat]
      /\ next' \in [Callers -> Nat] /\ rest' \in [Callers -> Seq(Piece)] /\ pc' \in [Callers -> PCs]
      /\ ch' \in [Callers -> Char]
  <2>1. o' \in [Callers -> 0 .. Room1] /\ ch' \in [Callers -> Char]
    BY <1>1, NulChar DEF TypeOK, PutDigit
  <2>2. CASE j[c] + 1 < l[c]
    <3>1. j' \in [Callers -> Nat]
      <4>1. j' = [j EXCEPT ![c] = j[c] + 1] /\ j[c] + 1 \in Nat
        BY <1>1, <2>2 DEF PutDigit
      <4> QED
        BY <4>1 DEF TypeOK
    <3>2. l' \in [Callers -> Nat] /\ next' \in [Callers -> Nat] /\ rest' \in [Callers -> Seq(Piece)]
      BY <2>2 DEF TypeOK, PutDigit
    <3>3. pc' \in [Callers -> PCs]
      BY <1>5, <2>2 DEF TypeOK, PutDigit
    <3> QED
      BY <2>1, <3>1, <3>2, <3>3
  <2>3. CASE ~(j[c] + 1 < l[c])
    <3>1. next[c] + Number(c).len \in Nat /\ 0 \in Nat
      BY <1>1
    <3>2. j' \in [Callers -> Nat] /\ l' \in [Callers -> Nat] /\ next' \in [Callers -> Nat]
      BY <2>3, <3>1, ZenonT(60) DEF TypeOK, PutDigit
    <3>3. rest' \in [Callers -> Seq(Piece)]
      BY <1>4, <2>3, ZenonT(60) DEF TypeOK, PutDigit
    <3>4. pc' \in [Callers -> PCs]
      BY <1>5, <2>3 DEF TypeOK, PutDigit
    <3> QED
      BY <2>1, <3>2, <3>3, <3>4
  <2> QED
    BY <2>2, <2>3
<1>7. TypeOK'
  BY <1>2, <1>3, <1>6 DEF TypeOK, PutDigit
<1>8. Others(c)
  BY SMTT(20) DEF Others, PutDigit, TypeOK
<1>9. pc'[c] # "store"
  BY <1>1 DEF PutDigit, TypeOK
<1> QED
  BY <1>2, <1>3, <1>7, <1>8, <1>9, NumbersStay DEF Frame, StreamFrame, PutDigit

\* What a call keeps for itself, when it leaves.
LEMMA LeaveType ==
    ASSUME TypeOK, NEW c \in Callers, Leave(c)
    PROVE  /\ pc' \in [Callers -> PCs]
           /\ fn' \in [Callers -> Functions] /\ id' \in [Callers -> Nat]
           /\ rest' \in [Callers -> Seq(Piece)] /\ next' \in [Callers -> Nat]
           /\ o' \in [Callers -> 0 .. Room1] /\ l' \in [Callers -> Nat]
           /\ j' \in [Callers -> Nat] /\ i' \in [Callers -> Nat] /\ ch' \in [Callers -> Char]
           /\ pc'[c] = "idle" /\ Others(c)
<1>1. <<>> \in Seq(Piece) /\ 0 \in 0 .. Room1 /\ "printk" \in Functions
      /\ "idle" \in PCs /\ "acquire" \in PCs
  BY Sizes DEF Functions, PCs
<1>2. /\ pc' \in [Callers -> PCs]
      /\ fn' \in [Callers -> Functions] /\ id' \in [Callers -> Nat]
      /\ rest' \in [Callers -> Seq(Piece)] /\ pc'[c] = "idle"
  BY <1>1 DEF Leave, TypeOK
<1>3. /\ next' \in [Callers -> Nat] /\ o' \in [Callers -> 0 .. Room1] /\ l' \in [Callers -> Nat]
      /\ j' \in [Callers -> Nat] /\ i' \in [Callers -> Nat] /\ ch' \in [Callers -> Char]
  BY <1>1, NulChar DEF Leave, TypeOK
<1>4. Others(c)
  BY DEF Leave, TypeOK, Others
<1> QED
  BY <1>2, <1>3, <1>4

LEMMA TerminateFrame ==
    ASSUME TypeOK, CallInv, NumberInv, NEW c \in Callers, Local(c), Terminate(c)
    PROVE  TypeOK' /\ Frame(c)
<1>1. pc[c] = "format" /\ Active(c) /\ PutInKbuf(c, NUL) /\ NUL \in Char /\ Puts(id[c], NUL)
  BY NulChar DEF Terminate, Active, Puts
<1>2. KbufFrame(c) /\ kbuf' \in [Functions -> [0 .. Room1 -> Char]]
  BY <1>1, KbufPut, KbufPutFrame
<1>3. log' \in Seq(LogEntry) /\ LogFrame(c)
  BY LogStays DEF Terminate
<1>4. /\ pc' \in [Callers -> PCs]
      /\ fn' \in [Callers -> Functions] /\ id' \in [Callers -> Nat]
      /\ rest' \in [Callers -> Seq(Piece)] /\ next' \in [Callers -> Nat]
      /\ o' \in [Callers -> 0 .. Room1] /\ l' \in [Callers -> Nat]
      /\ j' \in [Callers -> Nat] /\ i' \in [Callers -> Nat] /\ ch' \in [Callers -> Char]
      /\ pc'[c] # "store" /\ Others(c)
  <2>1. CASE o[c] = 0
    <3>1. Leave(c)
      BY <2>1 DEF Terminate
    <3> QED
      BY <3>1, LeaveType
  <2>2. CASE o[c] # 0
    <3>1. <<>> \in Seq(Piece)
      OBVIOUS
    <3>2. /\ pc' = [pc EXCEPT ![c] = "acquire"] /\ rest' = [rest EXCEPT ![c] = <<>>]
          /\ next' = [next EXCEPT ![c] = 0] /\ UNCHANGED <<fn, id, o, l, j, ch, i>>
      BY <2>2 DEF Terminate
    <3>3. Others(c) /\ pc'[c] # "store"
      BY <3>2 DEF Others, TypeOK
    <3> QED
      BY <3>1, <3>2, <3>3 DEF TypeOK, PCs
  <2> QED
    BY <2>1, <2>2
<1>5. TypeOK'
  BY <1>2, <1>3, <1>4 DEF TypeOK, Terminate
<1> QED
  BY <1>2, <1>3, <1>4, <1>5, NumbersStay DEF Frame, StreamFrame, Terminate

LEMMA AcquireFrame ==
    ASSUME TypeOK, CallInv, NumberInv, NEW c \in Callers, Acquire(c)
    PROVE  /\ TypeOK' /\ Frame(c) /\ DOMAIN log' = DOMAIN log
           /\ \A n \in DOMAIN log : log'[n].over = log[n].over
<1>1. Active(c) /\ Entry(c)
  BY DEF Acquire, Active, CallInv
<1>2. /\ log' \in Seq(LogEntry) /\ LogFrame(c) /\ DOMAIN log' = DOMAIN log
      /\ \A n \in DOMAIN log : log'[n].over = log[n].over
  BY <1>1, LogSets DEF Acquire
<1>3. TypeOK'
  BY <1>2 DEF TypeOK, Acquire, locals, buffers, PCs
<1>4. Others(c)
  BY DEF Others, Acquire, TypeOK, locals
<1> QED
  BY <1>2, <1>3, <1>4, NumbersStay DEF Frame, KbufFrame, StreamFrame, Acquire, locals, buffers

LEMMA StoreFrame ==
    ASSUME TypeOK, NumberInv, NEW c \in Callers, Store(c)
    PROVE  TypeOK' /\ Frame(c) /\ kbuf[fn[c]][i[c]] \in Char
<1>1. kbuf[fn[c]][i[c]] \in Char
  <2>1. fn[c] \in Functions /\ i[c] \in 0 .. Room1
    BY Sizes DEF TypeOK, Store
  <2>2. kbuf[fn[c]] \in [0 .. Room1 -> Char]
    BY <2>1 DEF TypeOK
  <2> QED
    BY <2>1, <2>2
<1>2. log' \in Seq(LogEntry) /\ LogFrame(c)
  BY LogStays DEF Store
<1>3. stream' \in Seq(Char) /\ i' \in [Callers -> Nat]
  BY <1>1 DEF TypeOK, Store
<1>4. TypeOK'
  BY <1>2, <1>3 DEF TypeOK, Store, buffers
<1>5. Others(c)
  BY DEF Others, Store, TypeOK
<1> QED
  BY <1>1, <1>2, <1>4, <1>5, NumbersStay DEF Frame, KbufFrame, StreamFrame, Store, buffers

LEMMA ReleaseFrame ==
    ASSUME TypeOK, CallInv, NumberInv, NEW c \in Callers, Release(c)
    PROVE  /\ TypeOK' /\ Frame(c) /\ DOMAIN log' = DOMAIN log
           /\ \A n \in DOMAIN log : log'[n].over = log[n].over
<1>1. Active(c) /\ Entry(c)
  BY DEF Release, Active, CallInv
<1>2. /\ log' \in Seq(LogEntry) /\ LogFrame(c) /\ DOMAIN log' = DOMAIN log
      /\ \A n \in DOMAIN log : log'[n].over = log[n].over
  BY <1>1, LogSets DEF Release
<1>3. Leave(c)
  BY DEF Release
<1>4. TypeOK'
  BY <1>2, <1>3, LeaveType DEF TypeOK, Release, buffers
<1>5. Others(c) /\ pc'[c] = "idle"
  BY <1>3, LeaveType
<1> QED
  BY <1>2, <1>4, <1>5, NumbersStay DEF Frame, KbufFrame, StreamFrame, Release, buffers

\* Every step keeps the types and the frame.
LEMMA StepFrame ==
    ASSUME Inv, NEW c \in Callers, Call(c) \/ Step(c)
    PROVE  TypeOK' /\ Frame(c)
<1>0. TypeOK /\ CallInv /\ NumberInv /\ Local(c)
  BY DEF Inv
<1>1. CASE Call(c)
  <2>1. CASE UNCHANGED vars
    <3>1. TypeOK'
      BY <1>0, <2>1 DEF vars, buffers, locals, TypeOK
    <3>2. LogFrame(c)
      BY <1>0, <2>1, LogStays DEF vars
    <3>3. NumbersFrame(c)
      BY <1>0, <2>1, NumbersStay DEF vars, buffers
    <3> QED
      BY <2>1, <3>1, <3>2, <3>3 DEF vars, buffers, locals, Frame, Others, KbufFrame, StreamFrame
  <2> QED
    BY <1>0, <1>1, <2>1, CallBegins, BeginFrame
<1>2. CASE Step(c)
  BY <1>0, <1>2, CopyCharFrame, ConvertFrame, MeasureFrame, FetchFrame, PutDigitFrame, TerminateFrame,
     AcquireFrame, StoreFrame, ReleaseFrame DEF Step
<1> QED
  BY <1>1, <1>2

-----------------------------------------------------------------------------
\* The log only grows: a call that is alone was alone, what may be found stays so.
LEMMA Grows ==
    ASSUME TypeOK, TypeOK', CallInv, NEW c \in Callers, LogFrame(c), NEW n \in DOMAIN log
    PROVE  /\ n \in DOMAIN log'
           /\ Alone(n)' => Alone(n)
           /\ Races(n) => Races(n)'
           /\ \A char : FairIn(log, n, char) => FairIn(log', n, char)
<1>1. /\ DOMAIN log = 1 .. Len(log) /\ DOMAIN log' = 1 .. Len(log')
      /\ Len(log) \in Nat /\ Len(log') \in Nat /\ Len(log) <= Len(log')
  <2>1. log \in Seq(LogEntry) /\ log' \in Seq(LogEntry)
    BY DEF TypeOK
  <2> QED
    BY <2>1 DEF LogFrame
<1>2. \A m \in DOMAIN log :
        /\ m \in DOMAIN log' /\ log'[m].fn = log[m].fn /\ log'[m].numbers = log[m].numbers
        /\ log[m].over \subseteq log'[m].over /\ log[m].over \subseteq DOMAIN log
  BY <1>1 DEF LogFrame, CallInv
<1>3. Alone(n)' => Alone(n)
  BY <1>2 DEF Alone, Conflict
<1>4. \A m \in DOMAIN log : Races(m) => Races(m)'
  BY <1>2 DEF Races
<1>5. \A char : FairIn(log, n, char) => FairIn(log', n, char)
  BY <1>2 DEF FairIn
<1> QED
  BY <1>2, <1>3, <1>4, <1>5

\* A step is one of the call that is in progress.
LEMMA StepKeeps ==
    ASSUME Inv, NEW c \in Callers, Step(c)
    PROVE  /\ Active(c) /\ DOMAIN log' = DOMAIN log
           /\ \A n \in DOMAIN log : log'[n].over = log[n].over
           /\ Active(c)' => /\ id'[c] = id[c] /\ fn'[c] = fn[c]
                            /\ log'[id[c]].upto = log[id[c]].upto
                            /\ HasNumber(rest'[c]) => HasNumber(rest[c])
<1> USE DEF Inv
<1>1. CASE CopyChar(c) \/ PutDigit(c)
  <2>1. Active(c) /\ rest[c] # <<>> /\ log' = log /\ id' = id /\ fn' = fn
    BY <1>1, PutDigitAt DEF CopyChar, PutDigit, Formatting, Active
  <2>2. rest'[c] = rest[c] \/ rest'[c] = Tail(rest[c])
    BY <1>1 DEF CopyChar, PutDigit, TypeOK
  <2>3. HasNumber(rest'[c]) => HasNumber(rest[c])
    BY <2>1, <2>2, RestType, NumbersAhead DEF Inv
  <2> QED
    BY <2>1, <2>3
<1>2. CASE Convert(c) \/ Measure(c) \/ Fetch(c) \/ Store(c)
  BY <1>2 DEF Convert, Divide, TurnLoad, TurnStore, EndNumber, LowerLoad, LowerStore, Measure, Fetch,
              Store, Formatting, Active
<1>3. CASE Terminate(c)
  <2>1. Active(c) /\ log' = log
    BY <1>3 DEF Terminate, Active
  <2>2. Active(c)' => /\ id'[c] = id[c] /\ fn'[c] = fn[c] /\ rest' = [rest EXCEPT ![c] = <<>>]
    <3>1. o[c] = 0 => ~Active(c)'
      BY <1>3, LeaveType DEF Terminate, Active
    <3> QED
      BY <1>3, <3>1 DEF Terminate
  <2>3. rest' = [rest EXCEPT ![c] = <<>>] => ~HasNumber(rest'[c])
    BY DEF TypeOK, HasNumber
  <2> QED
    BY <2>1, <2>2, <2>3
<1>4. CASE Acquire(c)
  <2>1. Active(c) /\ id[c] \in DOMAIN log /\ UNCHANGED <<id, fn, rest>>
    BY <1>4 DEF Acquire, Active, CallInv, Entry, locals
  <2>2. log \in Seq(LogEntry) /\ log' = [log EXCEPT ![id[c]].from = Len(stream)]
    BY <1>4 DEF TypeOK, Acquire
  <2>3. log'[id[c]].upto = log[id[c]].upto
    <3>1. log[id[c]] \in LogEntry /\ log'[id[c]] = [log[id[c]] EXCEPT !.from = Len(stream)]
      BY <2>1, <2>2
    <3> QED
      BY <3>1 DEF LogEntry
  <2> QED
    BY <1>4, <2>1, <2>3, AcquireFrame
<1>5. CASE Release(c)
  <2>1. Active(c) /\ ~Active(c)'
    BY <1>5, LeaveType DEF Release, Active
  <2> QED
    BY <1>5, <2>1, ReleaseFrame
<1> QED
  BY <1>1, <1>2, <1>3, <1>4, <1>5 DEF Step

\* The calls in progress know of one another.
LEMMA EntryKept ==
    ASSUME Inv, TypeOK', NEW c \in Callers, Frame(c), NEW d \in Callers, d # c, Active(d)'
    PROVE  /\ Active(d) /\ Entry(d) /\ Entry(d)' /\ id'[d] = id[d] /\ fn'[d] = fn[d]
           /\ log'[id[d]].total = log[id[d]].total /\ log'[id[d]].from = log[id[d]].from
           /\ Active(c) => Knows(c, d) /\ Knows(d, c)
<1>1. Active(d) /\ Entry(d) /\ id'[d] = id[d] /\ fn'[d] = fn[d] /\ rest'[d] = rest[d]
  BY DEF Inv, CallInv, Frame, Others, Active
<1>2. Active(c) => Knows(c, d) /\ Knows(d, c)
  BY <1>1 DEF Inv, CallInv
<1>3. id[d] \in DOMAIN log /\ ~(Active(c) /\ id[d] = id[c])
  BY <1>1, <1>2 DEF Entry, Knows
<1>4. id[d] \in DOMAIN log'
  BY <1>3, Grows DEF Inv, Frame
<1>5. /\ log'[id[d]].fn = log[id[d]].fn /\ log'[id[d]].numbers = log[id[d]].numbers
      /\ log'[id[d]].upto = log[id[d]].upto /\ log'[id[d]].from = log[id[d]].from
      /\ log'[id[d]].total = log[id[d]].total
  BY <1>3 DEF Frame, LogFrame
<1> QED
  BY <1>1, <1>2, <1>4, <1>5 DEF Entry

LEMMA CallInvKept ==
    ASSUME Inv, TypeOK', NEW c \in Callers, Frame(c),
           \/ Step(c)
           \/ \E f \in Functions, ps \in Seq(Piece) :
                 pc[c] = "idle" /\ Begin(c, f, ps) /\ Enters(f, ps)
    PROVE  CallInv'
<1> USE DEF Inv
<1>1. /\ DOMAIN log = 1 .. Len(log) /\ DOMAIN log' = 1 .. Len(log')
      /\ Len(log) \in Nat /\ Len(log') \in Nat /\ Len(log) <= Len(log')
  BY LogTypes, SMTT(20) DEF TypeOK, Frame, LogFrame
<1>2. \A n \in DOMAIN log' : log'[n].over \subseteq DOMAIN log'
  <2>1. ASSUME NEW n \in DOMAIN log' PROVE log'[n].over \subseteq DOMAIN log'
    <3>1. DOMAIN log \subseteq DOMAIN log'
      BY <1>1
    <3>2. CASE n \in DOMAIN log
      <4>1. log'[n].over \ log[n].over \subseteq DOMAIN log' /\ log[n].over \subseteq DOMAIN log
        BY <3>2 DEF Frame, LogFrame, CallInv
      <4> QED
        BY <3>1, <4>1
    <3>3. CASE n \notin DOMAIN log
      <4>1. log'[n].over \subseteq DOMAIN log
        BY <3>3 DEF Frame, LogFrame
      <4> QED
        BY <3>1, <4>1
    <3> QED
      BY <3>2, <3>3
  <2> QED
    BY <2>1
<1>3. ASSUME NEW d \in Callers, NEW e \in Callers, d # c, e # c, d # e, Active(d)', Active(e)'
      PROVE  Knows(d, e)'
  <2>1. Active(d) /\ Active(e) /\ Entry(d) /\ id'[d] = id[d] /\ id'[e] = id[e]
    BY <1>3, EntryKept
  <2>2. Knows(d, e)
    BY <1>3, <2>1 DEF CallInv
  <2>3. log[id[d]].over \subseteq log'[id[d]].over
    BY <2>1 DEF Entry, Frame, LogFrame
  <2> QED
    BY <2>1, <2>2, <2>3 DEF Knows
<1>4. Active(c)' => Entry(c)' /\ \A d \in Callers \ {c} : Active(d)' => Knows(c, d)' /\ Knows(d, c)'
  <2> SUFFICES ASSUME Active(c)'
               PROVE  Entry(c)' /\ \A d \in Callers \ {c} : Active(d)' => Knows(c, d)' /\ Knows(d, c)'
    OBVIOUS
  <2>1. CASE Step(c)
    <3>1. /\ Active(c) /\ Entry(c) /\ id'[c] = id[c] /\ fn'[c] = fn[c] /\ DOMAIN log' = DOMAIN log
          /\ log'[id[c]].upto = log[id[c]].upto
          /\ HasNumber(rest'[c]) => HasNumber(rest[c])
          /\ \A n \in DOMAIN log : log'[n].over = log[n].over
      BY <2>1, StepKeeps DEF CallInv
    <3>2. log'[id[c]].fn = log[id[c]].fn /\ log'[id[c]].numbers = log[id[c]].numbers
      BY <3>1 DEF Entry, Frame, LogFrame
    <3>3. Entry(c)'
      BY <3>1, <3>2 DEF Entry
    <3>4. ASSUME NEW d \in Callers \ {c}, Active(d)' PROVE Knows(c, d)' /\ Knows(d, c)'
      <4>1. Knows(c, d) /\ Knows(d, c) /\ Entry(d) /\ id'[d] = id[d]
        BY <3>1, <3>4, EntryKept
      <4> QED
        BY <3>1, <4>1 DEF Knows, Entry
    <3> QED
      BY <3>3, <3>4
  <2>2. ASSUME NEW f \in Functions, NEW ps \in Seq(Piece), pc[c] = "idle",
               Begin(c, f, ps), Enters(f, ps)
        PROVE  Entry(c)' /\ \A d \in Callers \ {c} : Active(d)' => Knows(c, d)' /\ Knows(d, c)'
    <3>1. id'[c] = Len(log) + 1 /\ fn'[c] = f /\ rest'[c] = ps
      BY <2>2 DEF Begin, TypeOK
    <3>2. Len(log') = Len(log) + 1 /\ Len(log) + 1 \in DOMAIN log'
      BY <1>1, <2>2 DEF Enters
    <3>3. Entry(c)'
      BY <2>2, <3>1, <3>2 DEF Enters, Entry
    <3>4. ASSUME NEW d \in Callers \ {c}, Active(d)' PROVE Knows(c, d)' /\ Knows(d, c)'
      <4>1. Active(d) /\ id'[d] = id[d] /\ id[d] \in DOMAIN log
        BY <3>4, EntryKept DEF Entry
      <4>2. id[d] # Len(log) + 1
        BY <1>1, <4>1
      <4> QED
        BY <2>2, <3>1, <4>1, <4>2 DEF Enters, Knows
    <3> QED
      BY <3>3, <3>4
  <2> QED
    BY <2>1, <2>2
<1>5. \A d \in Callers : Active(d)' => Entry(d)'
  BY <1>4, EntryKept
<1>6. \A d, e \in Callers : Active(d)' /\ Active(e)' /\ d # e => Knows(d, e)'
  BY <1>3, <1>4
<1> QED
  BY <1>2, <1>5, <1>6 DEF CallInv

-----------------------------------------------------------------------------
\* What a step leaves of the other calls.
LEMMA NumberInvKept ==
    ASSUME Inv, NEW c \in Callers, Frame(c)
    PROVE  NumberInv'
BY DEF Inv, Frame, NumbersFrame, NumberInv

LEMMA OtherSame ==
    ASSUME NEW c \in Callers, Frame(c), NEW d \in Callers, d # c
    PROVE  /\ pc'[d] = pc[d] /\ fn'[d] = fn[d] /\ id'[d] = id[d] /\ rest'[d] = rest[d]
           /\ next'[d] = next[d] /\ o'[d] = o[d] /\ l'[d] = l[d] /\ j'[d] = j[d] /\ i'[d] = i[d]
           /\ ch'[d] = ch[d]
           /\ Number(d)' = Number(d) /\ Converter(d)' = Converter(d)
           /\ Busy(d)' = Busy(d) /\ Begun(d)' = Begun(d) /\ Built(d)' = Built(d)
           /\ Active(d)' = Active(d)
<1>1. /\ pc'[d] = pc[d] /\ fn'[d] = fn[d] /\ id'[d] = id[d] /\ rest'[d] = rest[d]
      /\ next'[d] = next[d] /\ o'[d] = o[d] /\ l'[d] = l[d] /\ j'[d] = j[d] /\ i'[d] = i[d]
      /\ ch'[d] = ch[d]
  BY DEF Frame, Others
<1>2. Number(d)' = Number(d) /\ Converter(d)' = Converter(d)
  BY <1>1 DEF Number, Converter
<1>3. Busy(d)' = Busy(d) /\ Begun(d)' = Begun(d) /\ Built(d)' = Built(d) /\ Active(d)' = Active(d)
  BY <1>1, <1>2 DEF Busy, Begun, Built, Active
<1> QED
  BY <1>1, <1>2, <1>3

LEMMA OtherNumberLocal ==
    ASSUME Inv, TypeOK', NEW c \in Callers, Frame(c), NEW d \in Callers, d # c
    PROVE  NumberLocal(d)'
<1>1. NumberLocal(d)
  BY DEF Inv, Local
<1>2. /\ Busy(d)' => rest'[d] # <<>> /\ Number(d)'.conv # "char"
      /\ Busy(d)' /\ pc'[d] \notin Copying => o'[d] < Room1
      /\ pc'[d] \in {"format"} \cup Building => j'[d] = 0 \/ j'[d] < Number(d)'.len
      /\ pc'[d] = "end" => j'[d] = Number(d)'.len
      /\ pc'[d] \in Scanning => j'[d] <= MaxDigits
      /\ pc'[d] \in Copying => j'[d] < l'[d] /\ l'[d] <= MaxDigits /\ o'[d] + (l'[d] - j'[d]) <= Room1
      /\ pc'[d] \in {"turned", "lowered"} => ch'[d] # NUL
      /\ pc'[d] = "lowered" => j'[d] < MaxDigits
      /\ OfNumber(ch'[d])
  BY <1>1, OtherSame DEF NumberLocal
<1>3. Begun(d)' => tmp_buf'[0] # NUL
  <2>1. Begun(d)' => tmp_buf[0] # NUL
    BY <1>1, OtherSame DEF NumberLocal
  <2> QED
    BY <2>1 DEF Frame, NumbersFrame
<1>4. ASSUME pc'[d] \in {"format"} \cup Building, NEW m \in 0 .. MaxDigits - 1, m < Built(d)'
      PROVE  numbuf'[Converter(d)'][m] # NUL
  <2>1. numbuf[Converter(d)][m] # NUL
    BY <1>1, <1>4, OtherSame DEF NumberLocal
  <2>2. Converter(d)' = Converter(d) /\ Converter(d) \in Converters
    BY OtherSame DEF Converter, Converters
  <2> QED
    BY <2>1, <2>2 DEF Frame, NumbersFrame
<1> QED
  BY <1>2, <1>3, <1>4 DEF NumberLocal

LEMMA OtherLocal ==
    ASSUME Inv, TypeOK', NEW c \in Callers, Frame(c), NEW d \in Callers, d # c
    PROVE  Local(d)'
<1>1. /\ pc'[d] = pc[d] /\ id'[d] = id[d] /\ rest'[d] = rest[d] /\ next'[d] = next[d]
      /\ o'[d] = o[d] /\ j'[d] = j[d] /\ i'[d] = i[d] /\ Busy(d)' = Busy(d) /\ Active(d)' = Active(d)
  BY OtherSame
<1>2. Local(d) /\ NumberLocal(d)'
  BY OtherNumberLocal DEF Inv
<1>3. CASE Active(d)'
  <2>1. log'[id[d]].total = log[id[d]].total
    BY <1>3, EntryKept
  <2> QED
    BY <1>1, <1>2, <2>1 DEF Local
<1>4. CASE ~Active(d)'
  <2>1. pc[d] = "idle" /\ ~Busy(d)
    BY <1>1, <1>4 DEF Active, Busy, Building, Scanning, Copying
  <2> QED
    BY <1>1, <1>2, <2>1 DEF Local
<1> QED
  BY <1>3, <1>4

\* The entry of another call, and what the log says of it.
LEMMA OtherEntry ==
    ASSUME Inv, TypeOK', NEW c \in Callers, Frame(c), NEW d \in Callers, d # c, Active(d)'
    PROVE  /\ Active(d) /\ Entry(d) /\ id[d] \in DOMAIN log
           /\ log'[id[d]].total = log[id[d]].total /\ log'[id[d]].from = log[id[d]].from
           /\ Active(c) => Entry(c) /\ Knows(d, c)
           /\ Alone(id[d])' => Alone(id[d])
           /\ ~Races(id[d])' => ~Races(id[d])
           /\ \A char : FairIn(log, id[d], char) => FairIn(log', id[d], char)
<1>1. /\ Active(d) /\ Entry(d) /\ id[d] \in DOMAIN log /\ id'[d] = id[d]
      /\ log'[id[d]].total = log[id[d]].total /\ log'[id[d]].from = log[id[d]].from
      /\ Active(c) => Entry(c) /\ Knows(d, c)
  BY EntryKept DEF Entry, Inv, CallInv
<1>2. PICK n \in DOMAIN log : n = id[d] /\ n = id'[d]
  BY <1>1
<1>3. /\ Alone(n)' => Alone(n)
      /\ Races(n) => Races(n)'
      /\ \A char : FairIn(log, n, char) => FairIn(log', n, char)
  BY Grows DEF Inv, Frame
<1>4. Alone(id[d])' => Alone(n)'
  BY <1>2 DEF Alone, Conflict
<1>5. Races(n)' => Races(id[d])'
  BY <1>2 DEF Races
<1> QED
  BY <1>1, <1>2, <1>3, <1>4, <1>5

\* A call with no number under way.
LEMMA IdleNumber ==
    ASSUME NEW p, NEW at, NEW char, NEW n, NEW place, NEW number, NEW built, NEW nb, NEW tb,
           p \notin Building \cup {"end"} \cup Scanning \cup Copying, p = "format" => built = 0
    PROVE  NumberAt(p, at, char, n, place, number, built, nb, tb)
BY Sizes DEF NumberAt, Building, Scanning, Copying

LEMMA OtherCalm ==
    ASSUME Inv, TypeOK', NEW c \in Callers, Frame(c), NEW d \in Callers, d # c
    PROVE  Calm(d)'
<1> SUFFICES ASSUME Active(d)', ~Races(id[d])' PROVE OwnNumber(d)' /\ OwnLength(d)'
  BY DEF Calm
<1>0. Active(d) /\ Entry(d) /\ log'[id[d]].total = log[id[d]].total /\ ~Races(id[d])
  BY OtherEntry
<1>1. OwnNumber(d) /\ OwnLength(d) /\ NumberLocal(d)
  BY <1>0 DEF Inv, Calm, Local
<1>2. OwnLength(d)'
  BY <1>0, <1>1, OtherSame DEF OwnLength
<1>3. Busy(d) => tmp_buf' = tmp_buf /\ numbuf' = numbuf
  <2> SUFFICES ASSUME Busy(d), Active(c), HasNumber(rest[c]) PROVE FALSE
    BY DEF Frame, NumbersFrame
  <2>1. HasNumber(rest[d])
    BY <1>1, NumberFacts DEF NumberLocal, Inv
  <2>2. Entry(c) /\ Knows(d, c) /\ ~Races(id[d])
    BY OtherEntry
  <2> QED
    BY <1>0, <1>1, <2>1, <2>2 DEF Entry, Knows, Races
<1>4. CASE Busy(d)
  <2>1. /\ pc'[d] = pc[d] /\ j'[d] = j[d] /\ ch'[d] = ch[d] /\ tmp_buf' = tmp_buf /\ numbuf' = numbuf
        /\ id'[d] = id[d] /\ next'[d] = next[d]
        /\ Number(d)' = Number(d) /\ Converter(d)' = Converter(d) /\ Built(d)' = Built(d)
    BY <1>3, <1>4, OtherSame
  <2>2. NumberAt(pc[d], j[d], ch[d], id[d], next[d], Number(d), Built(d), numbuf[Converter(d)], tmp_buf)
    BY <1>1 DEF OwnNumber
  <2>3. NumberAt(pc'[d], j'[d], ch'[d], id'[d], next'[d], Number(d)', Built(d)',
                 numbuf'[Converter(d)'], tmp_buf')
    BY <2>1, <2>2
  <2> QED
    BY <1>2, <2>3 DEF OwnNumber
<1>5. CASE ~Busy(d)
  <2>1. pc'[d] = pc[d] /\ j'[d] = j[d] /\ pc[d] \notin Building \cup {"end"} \cup Scanning \cup Copying
    BY <1>5, OtherSame DEF Busy
  <2>2. pc'[d] = "format" => Built(d)' = 0
    BY <1>5, <2>1, CallTypes DEF Busy, Built, Inv
  <2>3. NumberAt(pc'[d], j'[d], ch'[d], id'[d], next'[d], Number(d)', Built(d)',
                 numbuf'[Converter(d)'], tmp_buf')
    BY <2>1, <2>2, IdleNumber
  <2> QED
    BY <1>2, <2>3 DEF OwnNumber
<1> QED
  BY <1>2, <1>4, <1>5

LEMMA OtherOwn ==
    ASSUME Inv, TypeOK', NEW c \in Callers, Frame(c), NEW d \in Callers, d # c
    PROVE  Own(d)'
<1> SUFFICES ASSUME Active(d)', Alone(id[d])' PROVE OwnText(d)'
  BY DEF Own
<1>1. /\ pc'[d] = pc[d] /\ fn'[d] = fn[d] /\ id'[d] = id[d] /\ o'[d] = o[d] /\ i'[d] = i[d]
  BY OtherSame
<1>2. /\ Entry(d) /\ log'[id[d]].from = log[id[d]].from /\ OwnText(d) /\ Local(d)
      /\ Active(c) => Entry(c) /\ fn[c] # fn[d]
  BY OtherEntry DEF Inv, Own, Knows, Alone, Conflict, Entry
<1>3. /\ fn[d] \in Functions /\ o[d] \in 0 .. Room1 /\ Len(stream) \in Nat /\ stream \in Seq(Char)
      /\ i[d] \in Nat
  BY DEF Inv, TypeOK
<1>4. \A k \in 0 .. o[d] - 1 : kbuf'[fn[d]][k] = kbuf[fn[d]][k]
  <2>1. \A k \in 0 .. o[d] - 1 : k \in 0 .. Room1
    BY <1>3, Sizes
  <2> QED
    BY <1>2, <1>3, <2>1 DEF Frame, KbufFrame
<1>5. pc[d] = "store" => \A k \in 1 .. i[d] : stream'[log[id[d]].from + k] = stream[log[id[d]].from + k]
  BY DEF Frame, StreamFrame, Inv, LockInv
<1>6. \A k \in 0 .. o'[d] - 1 : Right(kbuf'[fn'[d]][k], id'[d], k + 1)
  BY <1>1, <1>2, <1>4 DEF OwnText
<1>7. pc'[d] = "store" => \A k \in 1 .. i'[d] : Right(stream'[log'[id'[d]].from + k], id'[d], k)
  BY <1>1, <1>2, <1>5, ZenonT(60) DEF OwnText
<1> QED
  BY <1>6, <1>7 DEF OwnText, Right

LEMMA OtherLive ==
    ASSUME Inv, TypeOK', NEW c \in Callers, Frame(c), NEW d \in Callers, d # c
    PROVE  Live(d)'
<1> SUFFICES ASSUME Active(d)' PROVE LiveText(d)'
  BY DEF Live
<1>1. pc'[d] = pc[d] /\ fn'[d] = fn[d] /\ id'[d] = id[d] /\ o'[d] = o[d]
  BY OtherSame
<1>2. /\ Active(d) /\ Entry(d) /\ log'[id[d]].from = log[id[d]].from
      /\ Active(c) => Entry(c) /\ Knows(d, c)
      /\ \A char : FairIn(log, id[d], char) => FairIn(log', id[d], char)
      /\ LiveText(d)
  BY OtherEntry DEF Inv, Live
<1>3. fn[d] \in Functions /\ o[d] \in 0 .. Room1
  BY DEF Inv, TypeOK
<1>4. \A k \in 0 .. o[d] - 1 :
        kbuf'[fn[d]][k] = kbuf[fn[d]][k] \/ FairIn(log, id[d], kbuf'[fn[d]][k])
  <2> SUFFICES ASSUME NEW k \in 0 .. o[d] - 1
               PROVE  kbuf'[fn[d]][k] = kbuf[fn[d]][k] \/ FairIn(log, id[d], kbuf'[fn[d]][k])
    OBVIOUS
  <2>1. k \in 0 .. Room1
    BY <1>3, Sizes
  <2>2. CASE Active(c) /\ fn[c] = fn[d] /\ Puts(id[c], kbuf'[fn[d]][k])
    <3>1. id[c] \in log[id[d]].over /\ log[id[c]].fn = log[id[d]].fn
      BY <1>2, <2>2 DEF Knows, Entry
    <3> QED
      BY <2>2, <3>1 DEF Puts, FairIn, Races
  <2> QED
    BY <1>3, <2>1, <2>2 DEF Frame, KbufFrame
<1>5. \A k \in 0 .. o[d] - 1 : FairIn(log, id[d], kbuf[fn[d]][k])
  BY <1>2 DEF LiveText
<1>6. \A k \in 0 .. o'[d] - 1 : FairIn(log', id'[d], kbuf'[fn'[d]][k])
  BY <1>1, <1>2, <1>4, <1>5
<1>7. pc'[d] = "store" =>
          \A k \in log'[id'[d]].from + 1 .. Len(stream') : FairIn(log', id'[d], stream'[k])
  <2>1. pc[d] = "store" => stream' = stream
    BY DEF Frame, StreamFrame, Inv, LockInv
  <2> QED
    BY <1>1, <1>2, <2>1 DEF LiveText
<1> QED
  BY <1>6, <1>7 DEF LiveText

-----------------------------------------------------------------------------
\* What a step leaves of its own call.
LEMMA StepSame ==
    ASSUME Inv, TypeOK', NEW c \in Callers, Frame(c), Step(c), Active(c)'
    PROVE  /\ Active(c) /\ Entry(c) /\ id'[c] = id[c] /\ fn'[c] = fn[c]
           /\ log'[id[c]].total = log[id[c]].total
           /\ Alone(id[c])' => Alone(id[c])
           /\ ~Races(id[c])' => ~Races(id[c])
           /\ \A char : FairIn(log, id[c], char) => FairIn(log', id[c], char)
<1>1. /\ Active(c) /\ Entry(c) /\ id'[c] = id[c] /\ fn'[c] = fn[c]
  BY StepKeeps DEF Inv, CallInv
<1>2. PICK n \in DOMAIN log : n = id[c] /\ n = id'[c]
  BY <1>1 DEF Entry
<1>3. log'[n].total = log[n].total
  BY DEF Frame, LogFrame
<1>4. /\ Alone(n)' => Alone(n)
      /\ Races(n) => Races(n)'
      /\ \A char : FairIn(log, n, char) => FairIn(log', n, char)
  BY Grows DEF Inv, Frame
<1>5. Alone(id[c])' => Alone(n)'
  BY <1>2 DEF Alone, Conflict
<1>6. Races(n)' => Races(id[c])'
  BY <1>2 DEF Races
<1> QED
  BY <1>1, <1>2, <1>3, <1>4, <1>5, <1>6

\* The buffer of the call, before and after a character is put in it.
LEMMA OwnKbuf ==
    ASSUME TypeOK, NEW c \in Callers, NEW char \in Char, PutInKbuf(c, char)
    PROVE  \A k \in 0 .. o[c] : kbuf'[fn[c]][k] = IF k = o[c] THEN char ELSE kbuf[fn[c]][k]
<1>1. fn[c] \in Functions /\ o[c] \in 0 .. Room1
  BY DEF TypeOK
<1>2. \A k \in 0 .. o[c] : k \in 0 .. Room1
  BY <1>1, Sizes
<1> QED
  BY <1>1, <1>2, KbufPut

\* While a number is under way, the message and the stream stay.
Working == {"format"} \cup Building \cup {"end"} \cup Scanning \cup Copying

LEMMA MovesOwn ==
    ASSUME Inv, TypeOK', NEW c \in Callers, Frame(c), Step(c), pc[c] \in Working,
           NEW p \in Working, NEW jn \in Nat, NEW ln, NEW char, Moves(c, p, jn, ln, char),
           p = "format" => jn > 0
    PROVE  /\ pc'[c] = p /\ j'[c] = jn /\ l'[c] = ln /\ ch'[c] = char
           /\ o'[c] = o[c] /\ rest'[c] = rest[c] /\ next'[c] = next[c] /\ id'[c] = id[c]
           /\ Number(c)' = Number(c) /\ Converter(c)' = Converter(c)
           /\ NumberLocal(c)' => Local(c)'
           /\ Own(c)' /\ Live(c)'
           /\ ~Races(id[c])' => ~Races(id[c]) /\ OwnNumber(c) /\ OwnLength(c)
<1>1. /\ pc'[c] = p /\ j'[c] = jn /\ l'[c] = ln /\ ch'[c] = char
      /\ UNCHANGED <<kbuf, fn, id, rest, next, o, i, stream, log>>
  BY DEF Inv, TypeOK, Moves
<1>2. Number(c)' = Number(c) /\ Converter(c)' = Converter(c)
  BY <1>1 DEF Number, Converter
<1>3. /\ pc[c] \notin {"idle", "acquire", "store"} /\ p \notin {"idle", "acquire", "store"}
      /\ Active(c)' /\ Active(c) /\ Busy(c)'
      /\ pc[c] = "format" \/ Busy(c)
  BY <1>1 DEF Working, Building, Scanning, Copying, Active, Busy
<1>4. /\ log'[id[c]].total = log[id[c]].total
      /\ Alone(id[c])' => Alone(id[c])
      /\ ~Races(id[c])' => ~Races(id[c])
      /\ \A m : FairIn(log, id[c], m) => FairIn(log', id[c], m)
  BY <1>3, StepSame
<1>5. Local(c) /\ Calm(c) /\ Own(c) /\ Live(c)
  BY DEF Inv
<1>6. NumberLocal(c)' => Local(c)'
  BY <1>1, <1>3, <1>4, <1>5 DEF Local
<1>7. Own(c)'
  <2> SUFFICES ASSUME Alone(id[c])' PROVE OwnText(c)'
    BY DEF Own
  <2>1. OwnText(c)
    BY <1>3, <1>4, <1>5 DEF Own
  <2> QED
    BY <1>1, <1>3, <2>1 DEF OwnText, Right
<1>8. Live(c)'
  <2>1. LiveText(c)
    BY <1>3, <1>5 DEF Live
  <2> QED
    BY <1>1, <1>3, <1>4, <2>1 DEF Live, LiveText
<1>9. ~Races(id[c])' => ~Races(id[c]) /\ OwnNumber(c) /\ OwnLength(c)
  BY <1>3, <1>4, <1>5 DEF Calm
<1> QED
  BY <1>1, <1>2, <1>6, <1>7, <1>8, <1>9

\* How far a call has come, after a step: a call that races with none.
LEMMA CalmBy ==
    ASSUME NEW c \in Callers,
           ~Races(id[c])' =>
               /\ NumberAt(pc'[c], j'[c], ch'[c], id'[c], next'[c], Number(c)', Built(c)',
                           numbuf'[Converter(c)'], tmp_buf')
               /\ OwnLength(c)'
    PROVE  Calm(c)'
BY DEF Calm, OwnNumber

LEMMA DivideOwn ==
    ASSUME Inv, TypeOK', NEW c \in Callers, Frame(c), Divide(c)
    PROVE  Local(c)' /\ Calm(c)' /\ Own(c)' /\ Live(c)'
<1> DEFINE k == Number(c).len
           more == j[c] + 1 < k
           p == IF more THEN "format" ELSE "turn"
           jn == IF more THEN j[c] + 1 ELSE 0
           dig == Digit(id[c], next[c], Number(c), k - 1 - j[c])
<1>0. TypeOK /\ NumberInv /\ Local(c) /\ NumberLocal(c)
  BY DEF Inv, Local
<1>1. /\ pc[c] = "format" /\ rest[c] # <<>> /\ Number(c).conv # "char" /\ o[c] < Room1 /\ j[c] < k
      /\ Moves(c, p, jn, l[c], ch[c]) /\ jn \in Nat /\ tmp_buf' = tmp_buf
      /\ \A m \in 0 .. MaxDigits - 1 :
            numbuf'[Converter(c)][m] = IF m = j[c] THEN dig ELSE numbuf[Converter(c)][m]
  BY <1>0, DivideMoves
<1>2. /\ k \in Nat /\ k \in 1 .. MaxDigits /\ j[c] \in Nat /\ next[c] \in Nat /\ id[c] \in Nat
      /\ k - 1 - j[c] \in Nat
  BY <1>0, <1>1, NumberFacts, CallTypes
<1> HIDE DEF k
<1>3. pc[c] \in Working /\ p \in Working /\ (p = "format" => jn > 0) /\ Step(c)
  BY <1>1, <1>2 DEF Working, Building, Step, Convert
<1>4. dig # NUL
  BY <1>2, DigitFacts
<1> HIDE DEF dig, p, jn
<1>5. /\ pc'[c] = p /\ j'[c] = jn /\ ch'[c] = ch[c]
      /\ o'[c] = o[c] /\ rest'[c] = rest[c] /\ next'[c] = next[c] /\ id'[c] = id[c]
      /\ Number(c)' = Number(c) /\ Converter(c)' = Converter(c)
      /\ NumberLocal(c)' => Local(c)'
      /\ Own(c)' /\ Live(c)'
      /\ ~Races(id[c])' => ~Races(id[c]) /\ OwnNumber(c) /\ OwnLength(c)
  BY <1>1, <1>3, MovesOwn
<1>6. /\ (more /\ p = "format" /\ jn = j[c] + 1) \/ (~more /\ p = "turn" /\ jn = 0 /\ k = j[c] + 1)
      /\ Built(c)' = j[c] + 1
  <2>1. (more /\ p = "format" /\ jn = j[c] + 1) \/ (~more /\ p = "turn" /\ jn = 0 /\ k = j[c] + 1)
    BY <1>1, <1>2 DEF p, jn
  <2> QED
    BY <1>5, <2>1 DEF Built, k
<1>7. Built(c) = j[c]
  BY <1>1 DEF Built
<1>8. NumberLocal(c)'
  <2>1. \A m \in 0 .. MaxDigits - 1 : m < j[c] => numbuf[Converter(c)][m] # NUL
    BY <1>0, <1>1, <1>7 DEF NumberLocal
  <2>2. \A m \in 0 .. MaxDigits - 1 : m < Built(c)' => numbuf'[Converter(c)'][m] # NUL
    BY <1>1, <1>2, <1>4, <1>5, <1>6, <2>1
  <2>3. OfNumber(ch'[c])
    BY <1>0, <1>5 DEF NumberLocal
  <2>4. Begun(c)' => FALSE
    BY <1>5, <1>6 DEF Begun, Building, Scanning, Copying
  <2> QED
    BY <1>1, <1>2, <1>5, <1>6, <2>2, <2>3, <2>4 DEF NumberLocal, Building, Scanning, Copying, k
<1>9. Calm(c)'
  <2> SUFFICES ASSUME ~Races(id[c])'
               PROVE  /\ NumberAt(pc'[c], j'[c], ch'[c], id'[c], next'[c], Number(c)', Built(c)',
                                  numbuf'[Converter(c)'], tmp_buf')
                      /\ OwnLength(c)'
    BY CalmBy
  <2>1. OwnNumber(c) /\ OwnLength(c)
    BY <1>5
  <2>2. \A m \in 0 .. MaxDigits - 1 :
          m < j[c] => numbuf[Converter(c)][m] = Digit(id[c], next[c], Number(c), k - 1 - m)
    BY <1>1, <1>7, <2>1 DEF OwnNumber, NumberAt, k
  <2>3. \A m \in 0 .. MaxDigits - 1 :
          m < j[c] + 1 => numbuf'[Converter(c)][m] = Digit(id[c], next[c], Number(c), k - 1 - m)
    BY <1>1, <1>2, <2>2 DEF dig
  <2>4. NumberAt(p, jn, ch[c], id[c], next[c], Number(c), j[c] + 1, numbuf'[Converter(c)], tmp_buf)
    BY <1>6, <2>3, Sizes DEF NumberAt, Building, Scanning, Copying, k
  <2>5. OwnLength(c)'
    BY <1>1, <1>5, <1>6, <2>1 DEF OwnLength, Busy, Building, Copying, Scanning
  <2> QED
    BY <1>1, <1>5, <1>6, <2>4, <2>5
<1> QED
  BY <1>5, <1>8, <1>9

LEMMA TurnLoadOwn ==
    ASSUME Inv, TypeOK', NEW c \in Callers, Frame(c), TurnLoad(c)
    PROVE  Local(c)' /\ Calm(c)' /\ Own(c)' /\ Live(c)'
<1> DEFINE k == Number(c).len
           char == numbuf[Converter(c)][k - 1 - j[c]]
<1>0. TypeOK /\ NumberInv /\ Local(c) /\ NumberLocal(c)
  BY DEF Inv, Local
<1>1. /\ pc[c] = "turn" /\ k - 1 - j[c] \in 0 .. MaxDigits - 1
      /\ Moves(c, "turned", j[c], l[c], char) /\ char # NUL /\ OfNumber(char) /\ Keeps
  BY <1>0, TurnLoadMoves
<1>2. Busy(c) /\ pc[c] \in Working /\ "turned" \in Working /\ Step(c) /\ pc[c] \in Building
  BY <1>1 DEF Busy, Working, Building, Step, Convert
<1>3. rest[c] # <<>> /\ Number(c).conv # "char" /\ o[c] < Room1 /\ (j[c] = 0 \/ j[c] < k) /\ j[c] \in Nat
  BY <1>0, <1>1, <1>2, CallTypes DEF NumberLocal, Building, Copying
<1>4. k \in Nat /\ k \in 1 .. MaxDigits /\ Built(c) = k
  BY <1>0, <1>1, <1>3, NumberFacts DEF Built
<1> HIDE DEF k, char
<1>5. /\ pc'[c] = "turned" /\ j'[c] = j[c] /\ ch'[c] = char
      /\ o'[c] = o[c] /\ rest'[c] = rest[c] /\ next'[c] = next[c] /\ id'[c] = id[c]
      /\ Number(c)' = Number(c) /\ Converter(c)' = Converter(c)
      /\ NumberLocal(c)' => Local(c)'
      /\ Own(c)' /\ Live(c)'
      /\ ~Races(id[c])' => ~Races(id[c]) /\ OwnNumber(c) /\ OwnLength(c)
  BY <1>1, <1>2, <1>3, MovesOwn
<1>6. Built(c)' = k /\ (Begun(c)' => Begun(c)) /\ numbuf' = numbuf /\ tmp_buf' = tmp_buf
  BY <1>1, <1>5 DEF Built, Begun, Building, Scanning, Copying, Keeps, k
<1>7. NumberLocal(c)'
  <2>1. \A m \in 0 .. MaxDigits - 1 : m < Built(c) => numbuf[Converter(c)][m] # NUL
    BY <1>0, <1>2 DEF NumberLocal
  <2>2. \A m \in 0 .. MaxDigits - 1 : m < Built(c)' => numbuf'[Converter(c)'][m] # NUL
    BY <1>4, <1>5, <1>6, <2>1
  <2>3. Begun(c)' => tmp_buf'[0] # NUL
    BY <1>0, <1>6 DEF NumberLocal
  <2> QED
    BY <1>1, <1>3, <1>5, <2>2, <2>3 DEF NumberLocal, Building, Scanning, Copying, k
<1>8. Calm(c)'
  <2> SUFFICES ASSUME ~Races(id[c])'
               PROVE  /\ NumberAt(pc'[c], j'[c], ch'[c], id'[c], next'[c], Number(c)', Built(c)',
                                  numbuf'[Converter(c)'], tmp_buf')
                      /\ OwnLength(c)'
    BY CalmBy
  <2>1. OwnNumber(c) /\ OwnLength(c)
    BY <1>5
  <2>2. /\ \A m \in 0 .. MaxDigits - 1 :
             m < k => numbuf[Converter(c)][m] = Digit(id[c], next[c], Number(c), k - 1 - m)
        /\ \A m \in 0 .. MaxDigits : m < j[c] => tmp_buf[m] = Digit(id[c], next[c], Number(c), m)
    BY <1>2, <1>4, <2>1 DEF OwnNumber, NumberAt, k
  <2>3. char = Digit(id[c], next[c], Number(c), j[c])
    <3>1. k - 1 - j[c] < k /\ k - 1 - (k - 1 - j[c]) = j[c]
      BY <1>3, <1>4
    <3>2. char = Digit(id[c], next[c], Number(c), k - 1 - (k - 1 - j[c]))
      BY <1>1, <2>2, <3>1 DEF char
    <3> QED
      BY <3>1, <3>2
  <2>4. NumberAt("turned", j[c], char, id[c], next[c], Number(c), k, numbuf[Converter(c)], tmp_buf)
    BY <2>2, <2>3 DEF NumberAt, Building, Scanning, Copying, k
  <2>5. OwnLength(c)'
    BY <1>1, <1>2, <1>5, <2>1 DEF OwnLength, Busy, Building, Copying, Scanning
  <2> QED
    BY <1>5, <1>6, <2>4, <2>5
<1> QED
  BY <1>5, <1>7, <1>8

LEMMA TurnStoreOwn ==
    ASSUME Inv, TypeOK', NEW c \in Callers, Frame(c), TurnStore(c)
    PROVE  Local(c)' /\ Calm(c)' /\ Own(c)' /\ Live(c)'
<1> DEFINE k == Number(c).len
           p == IF j[c] + 1 < k THEN "turn" ELSE "end"
<1>0. TypeOK /\ NumberInv /\ Local(c) /\ NumberLocal(c)
  BY DEF Inv, Local
<1>1. /\ pc[c] = "turned" /\ j[c] < k /\ ch[c] # NUL
      /\ Moves(c, p, j[c] + 1, l[c], NUL) /\ numbuf' = numbuf
      /\ \A m \in 0 .. MaxDigits : tmp_buf'[m] = IF m = j[c] THEN ch[c] ELSE tmp_buf[m]
  BY <1>0, TurnStoreMoves
<1>2. Busy(c) /\ pc[c] \in Working /\ p \in Working /\ p # "format" /\ Step(c) /\ pc[c] \in Building
  BY <1>1 DEF Busy, Working, Building, Step, Convert
<1>3. rest[c] # <<>> /\ Number(c).conv # "char" /\ o[c] < Room1 /\ j[c] \in Nat /\ j[c] + 1 \in Nat
  BY <1>0, <1>1, <1>2, CallTypes DEF NumberLocal, Building, Copying
<1>4. k \in Nat /\ k \in 1 .. MaxDigits /\ Built(c) = k
  BY <1>0, <1>1, <1>3, NumberFacts DEF Built
<1> HIDE DEF k, p
<1>5. /\ pc'[c] = p /\ j'[c] = j[c] + 1 /\ ch'[c] = NUL
      /\ o'[c] = o[c] /\ rest'[c] = rest[c] /\ next'[c] = next[c] /\ id'[c] = id[c]
      /\ Number(c)' = Number(c) /\ Converter(c)' = Converter(c)
      /\ NumberLocal(c)' => Local(c)'
      /\ Own(c)' /\ Live(c)'
      /\ ~Races(id[c])' => ~Races(id[c]) /\ OwnNumber(c) /\ OwnLength(c)
  BY <1>1, <1>2, <1>3, MovesOwn
<1>6. (j[c] + 1 < k /\ p = "turn") \/ (j[c] + 1 = k /\ p = "end")
  BY <1>1, <1>3, <1>4 DEF p
<1>7. Built(c)' = k
  BY <1>5, <1>6 DEF Built, k
<1>8. NumberLocal(c)'
  <2>1. \A m \in 0 .. MaxDigits - 1 : m < Built(c) => numbuf[Converter(c)][m] # NUL
    BY <1>0, <1>2 DEF NumberLocal
  <2>2. \A m \in 0 .. MaxDigits - 1 : m < Built(c)' => numbuf'[Converter(c)'][m] # NUL
    BY <1>1, <1>4, <1>5, <1>7, <2>1
  <2>3. tmp_buf'[0] # NUL
    <3>1. CASE j[c] = 0
      BY <1>1, <3>1, Sizes
    <3>2. CASE j[c] # 0
      <4>1. Begun(c)
        BY <1>2, <1>3, <3>2 DEF Begun
      <4> QED
        BY <1>0, <1>1, <3>2, <4>1, Sizes DEF NumberLocal
    <3> QED
      BY <3>1, <3>2
  <2> QED
    BY <1>3, <1>5, <1>6, <2>2, <2>3, NulChar DEF NumberLocal, Building, Scanning, Copying, k
<1>9. Calm(c)'
  <2> SUFFICES ASSUME ~Races(id[c])'
               PROVE  /\ NumberAt(pc'[c], j'[c], ch'[c], id'[c], next'[c], Number(c)', Built(c)',
                                  numbuf'[Converter(c)'], tmp_buf')
                      /\ OwnLength(c)'
    BY CalmBy
  <2>1. OwnNumber(c) /\ OwnLength(c)
    BY <1>5
  <2>2. /\ \A m \in 0 .. MaxDigits - 1 :
             m < k => numbuf[Converter(c)][m] = Digit(id[c], next[c], Number(c), k - 1 - m)
        /\ \A m \in 0 .. MaxDigits : m < j[c] => tmp_buf[m] = Digit(id[c], next[c], Number(c), m)
        /\ ch[c] = Digit(id[c], next[c], Number(c), j[c])
    BY <1>1, <1>2, <1>4, <2>1 DEF OwnNumber, NumberAt, k
  <2>3. \A m \in 0 .. MaxDigits :
          m < j[c] + 1 => tmp_buf'[m] = Digit(id[c], next[c], Number(c), m)
    BY <1>1, <1>3, <2>2
  <2>4. NumberAt(p, j[c] + 1, NUL, id[c], next[c], Number(c), k, numbuf[Converter(c)], tmp_buf')
    BY <1>6, <2>2, <2>3 DEF NumberAt, Building, Scanning, Copying, k
  <2>5. OwnLength(c)'
    BY <1>1, <1>2, <1>5, <1>6, <2>1 DEF OwnLength, Busy, Building, Copying, Scanning
  <2> QED
    BY <1>1, <1>5, <1>7, <2>4, <2>5
<1> QED
  BY <1>5, <1>8, <1>9

LEMMA EndNumberOwn ==
    ASSUME Inv, TypeOK', NEW c \in Callers, Frame(c), EndNumber(c)
    PROVE  Local(c)' /\ Calm(c)' /\ Own(c)' /\ Live(c)'
<1> DEFINE k == Number(c).len
           p == IF Number(c).conv = "x" THEN "lower" ELSE "measure"
<1>0. TypeOK /\ NumberInv /\ Local(c) /\ NumberLocal(c)
  BY DEF Inv, Local
<1>1. /\ pc[c] = "end" /\ j[c] = k /\ Moves(c, p, 0, l[c], ch[c]) /\ numbuf' = numbuf
      /\ \A m \in 0 .. MaxDigits : tmp_buf'[m] = IF m = j[c] THEN NUL ELSE tmp_buf[m]
  BY <1>0, EndNumberMoves
<1>2. /\ Busy(c) /\ pc[c] \in Working /\ p \in Working /\ p # "format" /\ Step(c) /\ Begun(c)
      /\ p \in Scanning /\ p # "lowered"
  BY <1>1 DEF Busy, Working, Scanning, Step, Convert, Begun
<1>3. rest[c] # <<>> /\ Number(c).conv # "char" /\ o[c] < Room1 /\ tmp_buf[0] # NUL /\ OfNumber(ch[c])
  BY <1>0, <1>1, <1>2 DEF NumberLocal, Copying
<1>4. k \in Nat /\ k \in 1 .. MaxDigits
  BY <1>0, <1>1, <1>3, NumberFacts
<1> HIDE DEF k
<1>5. /\ pc'[c] = p /\ j'[c] = 0 /\ ch'[c] = ch[c]
      /\ o'[c] = o[c] /\ rest'[c] = rest[c] /\ next'[c] = next[c] /\ id'[c] = id[c]
      /\ Number(c)' = Number(c) /\ Converter(c)' = Converter(c)
      /\ NumberLocal(c)' => Local(c)'
      /\ Own(c)' /\ Live(c)'
      /\ ~Races(id[c])' => ~Races(id[c]) /\ OwnNumber(c) /\ OwnLength(c)
  BY <1>1, <1>2, MovesOwn, 0 \in Nat
<1>6. tmp_buf'[0] # NUL
  BY <1>1, <1>3, <1>4, Sizes
<1>7. NumberLocal(c)'
  BY <1>2, <1>3, <1>5, <1>6, Sizes DEF NumberLocal, Building, Scanning, Copying
<1>8. Calm(c)'
  <2> SUFFICES ASSUME ~Races(id[c])'
               PROVE  /\ NumberAt(pc'[c], j'[c], ch'[c], id'[c], next'[c], Number(c)', Built(c)',
                                  numbuf'[Converter(c)'], tmp_buf')
                      /\ OwnLength(c)'
    BY CalmBy
  <2>1. OwnNumber(c) /\ OwnLength(c)
    BY <1>5
  <2>2. \A m \in 0 .. MaxDigits : m < k => tmp_buf[m] = Digit(id[c], next[c], Number(c), m)
    BY <1>1, <2>1 DEF OwnNumber, NumberAt
  <2>3. /\ \A m \in 0 .. MaxDigits : m < k => tmp_buf'[m] = Digit(id[c], next[c], Number(c), m)
        /\ tmp_buf'[k] = NUL
    BY <1>1, <1>4, <2>2, Sizes
  <2>4. Number(c).conv # "x" =>
          \A m \in 0 .. MaxDigits : m < k => tmp_buf'[m] = Shown(id[c], next[c], Number(c), m)
    <3>1. id[c] \in Nat /\ next[c] \in Nat
      BY <1>0, CallTypes
    <3> QED
      BY <2>3, <3>1, DigitFacts
  <2>5. ASSUME NEW built, NEW nb
        PROVE  NumberAt(p, 0, ch[c], id[c], next[c], Number(c), built, nb, tmp_buf')
    BY <1>2, <1>4, <2>3, <2>4, Sizes DEF NumberAt, Building, Scanning, Copying, k
  <2>6. OwnLength(c)'
    BY <1>1, <1>2, <1>5, <2>1 DEF OwnLength, Busy, Building, Copying, Scanning
  <2> QED
    BY <1>5, <2>5, <2>6
<1> QED
  BY <1>5, <1>7, <1>8

\* A scan of tmp_buf, and what is known of it when the call races with none.
LEMMA ScanFacts ==
    ASSUME Inv, NEW c \in Callers, pc[c] \in Scanning
    PROVE  /\ TypeOK /\ NumberInv /\ Local(c) /\ NumberLocal(c)
           /\ Busy(c) /\ Begun(c) /\ pc[c] \in Working
           /\ rest[c] # <<>> /\ Number(c).conv # "char" /\ o[c] < Room1 /\ tmp_buf[0] # NUL
           /\ j[c] \in Nat /\ j[c] \in 0 .. MaxDigits /\ (tmp_buf[j[c]] # NUL => j[c] < MaxDigits)
           /\ OfNumber(ch[c]) /\ ch[c] \in Char
           /\ OfNumber(tmp_buf[j[c]]) /\ tmp_buf[j[c]] \in Char
           /\ Number(c).len \in Nat /\ Number(c).len \in 1 .. MaxDigits
           /\ id[c] \in Nat /\ next[c] \in Nat
<1>0. TypeOK /\ NumberInv /\ Local(c) /\ NumberLocal(c)
  BY DEF Inv, Local
<1>1. Busy(c) /\ Begun(c) /\ pc[c] \in Working /\ pc[c] \notin Copying
  BY DEF Busy, Begun, Working, Scanning, Copying
<1>2. /\ rest[c] # <<>> /\ Number(c).conv # "char" /\ j[c] \in 0 .. MaxDigits
      /\ OfNumber(tmp_buf[j[c]]) /\ tmp_buf[j[c]] \in Char
      /\ tmp_buf[j[c]] # NUL => j[c] < MaxDigits
      /\ tmp_buf[0] # NUL
  BY <1>0, ScanAt
<1>3. o[c] < Room1 /\ OfNumber(ch[c])
  BY <1>0, <1>1 DEF NumberLocal
<1>4. j[c] \in Nat /\ id[c] \in Nat /\ next[c] \in Nat /\ ch[c] \in Char
  BY <1>0, CallTypes
<1>5. Number(c).len \in Nat /\ Number(c).len \in 1 .. MaxDigits
  BY <1>0, <1>2, NumberFacts
<1> QED
  BY <1>0, <1>1, <1>2, <1>3, <1>4, <1>5

LEMMA LowerLoadOwn ==
    ASSUME Inv, TypeOK', NEW c \in Callers, Frame(c), LowerLoad(c)
    PROVE  Local(c)' /\ Calm(c)' /\ Own(c)' /\ Live(c)'
<1> DEFINE k == Number(c).len
<1>0. pc[c] = "lower" /\ pc[c] \in Scanning /\ Step(c) /\ pc[c] # "format"
  BY DEF LowerLoad, Scanning, Step, Convert
<1>1. /\ TypeOK /\ NumberInv /\ Local(c) /\ NumberLocal(c) /\ Busy(c) /\ pc[c] \in Working
      /\ rest[c] # <<>> /\ Number(c).conv # "char" /\ o[c] < Room1 /\ tmp_buf[0] # NUL
      /\ j[c] \in Nat /\ j[c] \in 0 .. MaxDigits /\ (tmp_buf[j[c]] # NUL => j[c] < MaxDigits)
      /\ OfNumber(ch[c]) /\ OfNumber(tmp_buf[j[c]])
      /\ k \in Nat /\ k \in 1 .. MaxDigits /\ id[c] \in Nat /\ next[c] \in Nat
  BY <1>0, ScanFacts
<1>2. PICK p \in {"measure", "lowered", "lower"}, jn \in Nat, char \in {ch[c], tmp_buf[j[c]]} :
         /\ Moves(c, p, jn, l[c], char) /\ numbuf' = numbuf /\ tmp_buf' = tmp_buf
         /\ p = "measure" => jn = 0 /\ tmp_buf[j[c]] = NUL /\ char = ch[c]
         /\ p = "lowered" => /\ jn = j[c] /\ char = tmp_buf[j[c]] /\ tmp_buf[j[c]] # NUL
                             /\ char.form = "capital"
         /\ p = "lower" => /\ jn = j[c] + 1 /\ char = ch[c] /\ tmp_buf[j[c]] # NUL
                           /\ tmp_buf[j[c]].form # "capital"
  BY <1>1, LowerLoadMoves, 0 \in Nat DEF Keeps
<1>3. p \in Working /\ p # "format" /\ p \in Scanning
  BY DEF Working, Scanning
<1> HIDE DEF k
<1>5. /\ pc'[c] = p /\ j'[c] = jn /\ ch'[c] = char
      /\ o'[c] = o[c] /\ rest'[c] = rest[c] /\ next'[c] = next[c] /\ id'[c] = id[c]
      /\ Number(c)' = Number(c) /\ Converter(c)' = Converter(c)
      /\ NumberLocal(c)' => Local(c)'
      /\ Own(c)' /\ Live(c)'
      /\ ~Races(id[c])' => ~Races(id[c]) /\ OwnNumber(c) /\ OwnLength(c)
  BY <1>0, <1>1, <1>2, <1>3, MovesOwn
<1>6. jn <= MaxDigits /\ (p = "lowered" => jn < MaxDigits /\ char # NUL) /\ OfNumber(char)
  BY <1>1, <1>2, Sizes
<1>7. NumberLocal(c)'
  BY <1>1, <1>2, <1>3, <1>5, <1>6 DEF NumberLocal, Building, Scanning, Copying
<1>8. Calm(c)'
  <2> SUFFICES ASSUME ~Races(id[c])'
               PROVE  /\ NumberAt(pc'[c], j'[c], ch'[c], id'[c], next'[c], Number(c)', Built(c)',
                                  numbuf'[Converter(c)'], tmp_buf')
                      /\ OwnLength(c)'
    BY CalmBy
  <2>1. OwnNumber(c) /\ OwnLength(c)
    BY <1>5
  <2>2. /\ tmp_buf[k] = NUL /\ j[c] <= k /\ Number(c).conv = "x"
        /\ \A m \in 0 .. MaxDigits : m < j[c] => tmp_buf[m] = Shown(id[c], next[c], Number(c), m)
        /\ \A m \in 0 .. MaxDigits :
              j[c] <= m /\ m < k => tmp_buf[m] = Digit(id[c], next[c], Number(c), m)
    BY <1>0, <2>1 DEF OwnNumber, NumberAt, k
  <2>3. j[c] < k => /\ tmp_buf[j[c]] = Digit(id[c], next[c], Number(c), j[c])
                    /\ tmp_buf[j[c]] # NUL
    BY <1>1, <2>2, DigitFacts
  <2>4. j[c] < k /\ tmp_buf[j[c]].form # "capital" =>
           tmp_buf[j[c]] = Shown(id[c], next[c], Number(c), j[c])
    BY <1>1, <2>2, <2>3, DigitFacts
  <2>5. tmp_buf[j[c]] # NUL => j[c] < k
    BY <1>1, <2>2
  <2>6. ASSUME NEW built, NEW nb
        PROVE  NumberAt(p, jn, char, id[c], next[c], Number(c), built, nb, tmp_buf)
    <3>1. CASE p = "measure"
      <4>1. j[c] = k
        BY <1>1, <1>2, <2>2, <2>3, <3>1
      <4> QED
        BY <1>1, <1>2, <2>2, <3>1, <4>1 DEF NumberAt, Building, Scanning, Copying, k
    <3>2. CASE p = "lowered"
      BY <1>1, <1>2, <2>2, <2>3, <2>5, <3>2 DEF NumberAt, Building, Scanning, Copying, k
    <3>3. CASE p = "lower"
      <4>1. jn <= k /\ j[c] < k /\ jn = j[c] + 1
        BY <1>1, <1>2, <2>5, <3>3
      <4>2. \A m \in 0 .. MaxDigits : m < jn => tmp_buf[m] = Shown(id[c], next[c], Number(c), m)
        BY <1>1, <1>2, <2>2, <2>4, <3>3, <4>1
      <4>3. \A m \in 0 .. MaxDigits :
              jn <= m /\ m < k => tmp_buf[m] = Digit(id[c], next[c], Number(c), m)
        BY <1>1, <2>2, <4>1
      <4> QED
        BY <2>2, <3>3, <4>1, <4>2, <4>3 DEF NumberAt, Building, Scanning, Copying, k
    <3> QED
      BY <3>1, <3>2, <3>3
  <2>7. OwnLength(c)'
    BY <1>0, <1>1, <1>3, <1>5, <2>1 DEF OwnLength, Busy, Scanning, Copying
  <2> QED
    BY <1>2, <1>5, <2>6, <2>7
<1> QED
  BY <1>5, <1>7, <1>8

LEMMA LowerStoreOwn ==
    ASSUME Inv, TypeOK', NEW c \in Callers, Frame(c), LowerStore(c)
    PROVE  Local(c)' /\ Calm(c)' /\ Own(c)' /\ Live(c)'
<1> DEFINE k == Number(c).len
           small == [ch[c] EXCEPT !.form = "small"]
<1>0. pc[c] = "lowered" /\ pc[c] \in Scanning /\ Step(c) /\ pc[c] # "format"
      /\ "lower" \in Working /\ "lower" # "format"
  BY DEF LowerStore, Scanning, Step, Convert, Working
<1>1. /\ TypeOK /\ NumberInv /\ Local(c) /\ NumberLocal(c) /\ Busy(c) /\ pc[c] \in Working
      /\ rest[c] # <<>> /\ Number(c).conv # "char" /\ o[c] < Room1 /\ tmp_buf[0] # NUL
      /\ j[c] \in Nat /\ j[c] \in 0 .. MaxDigits
      /\ k \in Nat /\ k \in 1 .. MaxDigits /\ id[c] \in Nat /\ next[c] \in Nat
  BY <1>0, ScanFacts
<1>2. /\ Moves(c, "lower", j[c] + 1, l[c], NUL) /\ numbuf' = numbuf /\ NumbersFrame(c)
      /\ j[c] < MaxDigits
      /\ \A m \in 0 .. MaxDigits : tmp_buf'[m] = IF m = j[c] THEN small ELSE tmp_buf[m]
  BY <1>1, LowerStoreMoves
<1> HIDE DEF k, small
<1>5. /\ pc'[c] = "lower" /\ j'[c] = j[c] + 1 /\ ch'[c] = NUL
      /\ o'[c] = o[c] /\ rest'[c] = rest[c] /\ next'[c] = next[c] /\ id'[c] = id[c]
      /\ Number(c)' = Number(c) /\ Converter(c)' = Converter(c)
      /\ NumberLocal(c)' => Local(c)'
      /\ Own(c)' /\ Live(c)'
      /\ ~Races(id[c])' => ~Races(id[c]) /\ OwnNumber(c) /\ OwnLength(c)
  <2>1. j[c] + 1 \in Nat
    BY <1>1
  <2> QED
    BY <1>0, <1>1, <1>2, <2>1, MovesOwn
<1>7. NumberLocal(c)'
  <2>1. tmp_buf'[0] # NUL
    BY <1>1, <1>2 DEF NumbersFrame
  <2>2. j[c] + 1 <= MaxDigits
    BY <1>1, <1>2, Sizes
  <2> QED
    BY <1>1, <1>5, <2>1, <2>2, NulChar DEF NumberLocal, Building, Scanning, Copying
<1>8. Calm(c)'
  <2> SUFFICES ASSUME ~Races(id[c])'
               PROVE  /\ NumberAt(pc'[c], j'[c], ch'[c], id'[c], next'[c], Number(c)', Built(c)',
                                  numbuf'[Converter(c)'], tmp_buf')
                      /\ OwnLength(c)'
    BY CalmBy
  <2>1. OwnNumber(c) /\ OwnLength(c)
    BY <1>5
  <2>2. /\ tmp_buf[k] = NUL /\ j[c] < k /\ Number(c).conv = "x"
        /\ \A m \in 0 .. MaxDigits : m < j[c] => tmp_buf[m] = Shown(id[c], next[c], Number(c), m)
        /\ \A m \in 0 .. MaxDigits :
              j[c] <= m /\ m < k => tmp_buf[m] = Digit(id[c], next[c], Number(c), m)
        /\ ch[c] = Digit(id[c], next[c], Number(c), j[c]) /\ ch[c].form = "capital"
    BY <1>0, <2>1 DEF OwnNumber, NumberAt, k
  <2>3. small = Shown(id[c], next[c], Number(c), j[c])
    BY <1>1, <2>2, DigitFacts DEF small
  <2>4. /\ tmp_buf'[k] = NUL /\ j[c] + 1 <= k
        /\ \A m \in 0 .. MaxDigits : m < j[c] + 1 => tmp_buf'[m] = Shown(id[c], next[c], Number(c), m)
        /\ \A m \in 0 .. MaxDigits :
              j[c] + 1 <= m /\ m < k => tmp_buf'[m] = Digit(id[c], next[c], Number(c), m)
    <3>1. tmp_buf'[k] = NUL /\ j[c] + 1 <= k
      BY <1>1, <1>2, <2>2, Sizes
    <3>2. \A m \in 0 .. MaxDigits : m < j[c] + 1 => tmp_buf'[m] = Shown(id[c], next[c], Number(c), m)
      BY <1>1, <1>2, <2>2, <2>3
    <3>3. \A m \in 0 .. MaxDigits :
              j[c] + 1 <= m /\ m < k => tmp_buf'[m] = Digit(id[c], next[c], Number(c), m)
      BY <1>1, <1>2, <2>2
    <3> QED
      BY <3>1, <3>2, <3>3
  <2>6. ASSUME NEW built, NEW nb
        PROVE  NumberAt("lower", j[c] + 1, NUL, id[c], next[c], Number(c), built, nb, tmp_buf')
    BY <2>2, <2>4 DEF NumberAt, Building, Scanning, Copying, k
  <2>7. OwnLength(c)'
    BY <1>0, <1>1, <1>5, <2>1 DEF OwnLength, Busy, Scanning, Copying
  <2> QED
    BY <1>5, <2>6, <2>7
<1> QED
  BY <1>5, <1>7, <1>8

LEMMA MeasureOwn ==
    ASSUME Inv, TypeOK', NEW c \in Callers, Frame(c), Measure(c)
    PROVE  Local(c)' /\ Calm(c)' /\ Own(c)' /\ Live(c)'
<1> DEFINE k == Number(c).len
           rem == Room1 - o[c]
<1>0. pc[c] = "measure" /\ pc[c] \in Scanning /\ Step(c) /\ pc[c] # "format"
      /\ "fetch" \in Working /\ "measure" \in Working /\ "fetch" \in Copying /\ "fetch" # "format"
  BY DEF Measure, Scanning, Step, Working, Copying
<1>1. /\ TypeOK /\ NumberInv /\ Local(c) /\ NumberLocal(c) /\ Busy(c) /\ pc[c] \in Working
      /\ rest[c] # <<>> /\ Number(c).conv # "char" /\ o[c] < Room1 /\ tmp_buf[0] # NUL
      /\ j[c] \in Nat /\ j[c] \in 0 .. MaxDigits /\ (tmp_buf[j[c]] # NUL => j[c] < MaxDigits)
      /\ OfNumber(ch[c])
      /\ k \in Nat /\ k \in 1 .. MaxDigits /\ id[c] \in Nat /\ next[c] \in Nat
  BY <1>0, ScanFacts
<1>2. o[c] \in Nat /\ rem \in Nat /\ rem > 0
  BY <1>1, CallTypes, Sizes
<1>3. numbuf' = numbuf /\ tmp_buf' = tmp_buf
  BY <1>1, MeasureMoves DEF Keeps
<1> HIDE DEF k, rem
<1>4. CASE tmp_buf[j[c]] # NUL
  <2>0. Moves(c, "measure", j[c] + 1, l[c], ch[c]) /\ j[c] + 1 \in Nat
    BY <1>1, <1>4, MeasureMoves
  <2>1. /\ pc'[c] = "measure" /\ j'[c] = j[c] + 1 /\ ch'[c] = ch[c]
        /\ o'[c] = o[c] /\ rest'[c] = rest[c] /\ next'[c] = next[c] /\ id'[c] = id[c]
        /\ Number(c)' = Number(c) /\ Converter(c)' = Converter(c)
        /\ NumberLocal(c)' => Local(c)'
        /\ Own(c)' /\ Live(c)'
        /\ ~Races(id[c])' => ~Races(id[c]) /\ OwnNumber(c) /\ OwnLength(c)
    BY <1>0, <1>1, <2>0, MovesOwn
  <2>2. NumberLocal(c)'
    BY <1>1, <1>3, <1>4, <2>1, Sizes DEF NumberLocal, Building, Scanning, Copying
  <2>3. Calm(c)'
    <3> SUFFICES ASSUME ~Races(id[c])'
                 PROVE  /\ NumberAt(pc'[c], j'[c], ch'[c], id'[c], next'[c], Number(c)', Built(c)',
                                    numbuf'[Converter(c)'], tmp_buf')
                        /\ OwnLength(c)'
      BY CalmBy
    <3>1. OwnNumber(c) /\ OwnLength(c)
      BY <2>1
    <3>2. /\ tmp_buf[k] = NUL /\ j[c] <= k
          /\ \A m \in 0 .. MaxDigits : m < k => tmp_buf[m] = Shown(id[c], next[c], Number(c), m)
      BY <1>0, <3>1 DEF OwnNumber, NumberAt, k
    <3>3. j[c] + 1 <= k
      BY <1>1, <1>4, <3>2
    <3>4. ASSUME NEW built, NEW nb
          PROVE  NumberAt("measure", j[c] + 1, ch[c], id[c], next[c], Number(c), built, nb, tmp_buf)
      BY <3>2, <3>3 DEF NumberAt, Building, Scanning, Copying, k
    <3>5. OwnLength(c)'
      BY <1>0, <1>1, <2>1, <3>1 DEF OwnLength, Busy, Scanning, Copying
    <3> QED
      BY <1>3, <2>1, <3>4, <3>5
  <2> QED
    BY <2>1, <2>2, <2>3
<1>5. CASE tmp_buf[j[c]] = NUL
  <2> DEFINE ln == IF j[c] > rem THEN rem ELSE j[c]
  <2>0. Moves(c, "fetch", 0, ln, ch[c])
    BY <1>1, <1>5, MeasureMoves DEF rem
  <2>1. ln \in Nat /\ ln > 0 /\ ln <= MaxDigits /\ o[c] + ln <= Room1
    <3>1. j[c] > 0
      BY <1>1, <1>5
    <3> QED
      BY <1>1, <1>2, <3>1, Sizes DEF rem
  <2> HIDE DEF ln
  <2>2. /\ pc'[c] = "fetch" /\ j'[c] = 0 /\ l'[c] = ln /\ ch'[c] = ch[c]
        /\ o'[c] = o[c] /\ rest'[c] = rest[c] /\ next'[c] = next[c] /\ id'[c] = id[c]
        /\ Number(c)' = Number(c) /\ Converter(c)' = Converter(c)
        /\ NumberLocal(c)' => Local(c)'
        /\ Own(c)' /\ Live(c)'
        /\ ~Races(id[c])' => ~Races(id[c]) /\ OwnNumber(c) /\ OwnLength(c)
    BY <1>0, <1>1, <2>0, MovesOwn, 0 \in Nat
  <2>3. NumberLocal(c)'
    <3>1. 0 < l'[c] /\ l'[c] <= MaxDigits /\ o'[c] + (l'[c] - 0) <= Room1
      BY <1>2, <2>1, <2>2
    <3> QED
      BY <1>1, <1>3, <2>2, <3>1 DEF NumberLocal, Building, Scanning, Copying
  <2>4. Calm(c)'
    <3> SUFFICES ASSUME ~Races(id[c])'
                 PROVE  /\ NumberAt(pc'[c], j'[c], ch'[c], id'[c], next'[c], Number(c)', Built(c)',
                                    numbuf'[Converter(c)'], tmp_buf')
                        /\ OwnLength(c)'
      BY CalmBy
    <3>1. OwnNumber(c) /\ OwnLength(c)
      BY <2>2
    <3>2. /\ tmp_buf[k] = NUL /\ j[c] <= k
          /\ \A m \in 0 .. MaxDigits : m < k => tmp_buf[m] = Shown(id[c], next[c], Number(c), m)
      BY <1>0, <3>1 DEF OwnNumber, NumberAt, k
    <3>3. j[c] = k
      BY <1>1, <1>5, <3>2, DigitFacts
    <3>4. ASSUME NEW built, NEW nb
          PROVE  NumberAt("fetch", 0, ch[c], id[c], next[c], Number(c), built, nb, tmp_buf)
      BY <3>2 DEF NumberAt, Building, Scanning, Copying, k
    <3>5. o[c] = next[c] - 1
      <4>1. o[c] = Cut(next[c] - 1)
        BY <1>0, <3>1 DEF OwnLength, Copying, Busy
      <4> QED
        BY <1>1, <1>2, <4>1, BuffersAssumption DEF Cut, Room1
    <3>6. OwnLength(c)'
      <4>1. ln = IF k > Room1 - (next[c] - 1) THEN Room1 - (next[c] - 1) ELSE k
        BY <3>3, <3>5 DEF ln, rem
      <4>2. o[c] = next[c] - 1 + 0
        BY <1>1, <3>5
      <4> QED
        BY <1>0, <2>2, <4>1, <4>2 DEF OwnLength, Copying, k
    <3> QED
      BY <1>3, <2>2, <3>4, <3>6
  <2> QED
    BY <2>2, <2>3, <2>4
<1> QED
  BY <1>4, <1>5

LEMMA FetchOwn ==
    ASSUME Inv, TypeOK', NEW c \in Callers, Frame(c), Fetch(c)
    PROVE  Local(c)' /\ Calm(c)' /\ Own(c)' /\ Live(c)'
<1> DEFINE k == Number(c).len
           char == tmp_buf[j[c]]
<1>0. TypeOK /\ NumberInv /\ Local(c) /\ NumberLocal(c)
  BY DEF Inv, Local
<1>1. /\ pc[c] = "fetch" /\ j[c] \in 0 .. MaxDigits /\ numbuf' = numbuf /\ tmp_buf' = tmp_buf
      /\ Moves(c, "put", j[c], l[c], char) /\ OfNumber(char)
  BY <1>0, FetchMoves DEF Keeps
<1>2. /\ pc[c] \in Copying /\ pc[c] \in Working /\ "put" \in Working /\ "put" # "format" /\ Step(c)
      /\ Busy(c) /\ Begun(c)
  BY <1>1 DEF Copying, Working, Step, Busy, Begun
<1>3. /\ rest[c] # <<>> /\ Number(c).conv # "char" /\ tmp_buf[0] # NUL
      /\ j[c] < l[c] /\ l[c] <= MaxDigits /\ o[c] + (l[c] - j[c]) <= Room1
  BY <1>0, <1>2 DEF NumberLocal
<1>4. /\ j[c] \in Nat /\ l[c] \in Nat /\ next[c] \in Nat /\ o[c] \in Nat
      /\ k \in Nat /\ k \in 1 .. MaxDigits
  BY <1>0, <1>3, CallTypes, NumberFacts, Sizes
<1> HIDE DEF k, char
<1>5. /\ pc'[c] = "put" /\ j'[c] = j[c] /\ l'[c] = l[c] /\ ch'[c] = char
      /\ o'[c] = o[c] /\ rest'[c] = rest[c] /\ next'[c] = next[c] /\ id'[c] = id[c]
      /\ Number(c)' = Number(c) /\ Converter(c)' = Converter(c)
      /\ NumberLocal(c)' => Local(c)'
      /\ Own(c)' /\ Live(c)'
      /\ ~Races(id[c])' => ~Races(id[c]) /\ OwnNumber(c) /\ OwnLength(c)
  BY <1>1, <1>2, <1>4, MovesOwn
<1>6. NumberLocal(c)'
  BY <1>1, <1>3, <1>5 DEF NumberLocal, Building, Scanning, Copying
<1>7. Calm(c)'
  <2> SUFFICES ASSUME ~Races(id[c])'
               PROVE  /\ NumberAt(pc'[c], j'[c], ch'[c], id'[c], next'[c], Number(c)', Built(c)',
                                  numbuf'[Converter(c)'], tmp_buf')
                      /\ OwnLength(c)'
    BY CalmBy
  <2>1. OwnNumber(c) /\ OwnLength(c)
    BY <1>5
  <2>2. /\ tmp_buf[k] = NUL
        /\ \A m \in 0 .. MaxDigits : m < k => tmp_buf[m] = Shown(id[c], next[c], Number(c), m)
    BY <1>1, <1>2, <2>1 DEF OwnNumber, NumberAt, k
  <2>3. l[c] <= k
    <3>1. l[c] = IF k > Room1 - (next[c] - 1) THEN Room1 - (next[c] - 1) ELSE k
      BY <1>2, <2>1 DEF OwnLength, k
    <3> QED
      BY <1>4, <3>1, Sizes
  <2>4. char = Shown(id[c], next[c], Number(c), j[c])
    BY <1>1, <1>3, <1>4, <2>2, <2>3 DEF char
  <2>5. ASSUME NEW built, NEW nb
        PROVE  NumberAt("put", j[c], char, id[c], next[c], Number(c), built, nb, tmp_buf)
    BY <2>2, <2>4 DEF NumberAt, Building, Scanning, Copying, k
  <2>6. OwnLength(c)'
    BY <1>2, <1>5, <2>1 DEF OwnLength, Busy, Copying
  <2> QED
    BY <1>1, <1>5, <2>5, <2>6
<1> QED
  BY <1>5, <1>6, <1>7

\* Calls that conflict with none do not race either; what a call puts in its kbuf is
\* what it may find there.
LEMMA AloneCalm ==
    ASSUME NEW n, Alone(n)
    PROVE  ~Races(n)
BY DEF Alone, Races, Conflict

LEMMA PutsFair ==
    ASSUME NEW n, NEW char, Puts(n, char)
    PROVE  FairIn(log, n, char)
BY DEF Puts, FairIn, Races

LEMMA PutOwn ==
    ASSUME Inv, TypeOK', NEW c \in Callers, Frame(c), Step(c), pc[c] \in {"format", "put"},
           pc'[c] \notin {"idle", "store"},
           NEW char \in Char, PutInKbuf(c, char), Puts(id[c], char), o'[c] = o[c] + 1,
           ~Races(id[c]) => Right(char, id[c], o[c] + 1)
    PROVE  Own(c)' /\ Live(c)'
<1>1. Active(c) /\ Active(c)' /\ TypeOK /\ Own(c) /\ Live(c)
  BY DEF Active, Inv
<1>2. /\ id'[c] = id[c] /\ fn'[c] = fn[c]
      /\ Alone(id[c])' => Alone(id[c])
      /\ \A m : FairIn(log, id[c], m) => FairIn(log', id[c], m)
  BY <1>1, StepSame
<1>3. o[c] \in Nat
  BY <1>1, CallTypes, Sizes
<1>4. \A k \in 0 .. o[c] : kbuf'[fn[c]][k] = IF k = o[c] THEN char ELSE kbuf[fn[c]][k]
  BY <1>1, OwnKbuf
<1>5. \A k \in 0 .. o[c] : k = o[c] \/ k \in 0 .. o[c] - 1
  BY <1>3
<1>6. 0 .. o'[c] - 1 = 0 .. o[c]
  BY <1>3
<1>7. Own(c)'
  <2> SUFFICES ASSUME Alone(id[c])' PROVE OwnText(c)'
    BY DEF Own
  <2>1. OwnText(c) /\ Right(char, id[c], o[c] + 1)
    BY <1>1, <1>2, AloneCalm DEF Own
  <2>2. \A k \in 0 .. o[c] : Right(kbuf'[fn[c]][k], id[c], k + 1)
    <3> SUFFICES ASSUME NEW k \in 0 .. o[c] PROVE Right(kbuf'[fn[c]][k], id[c], k + 1)
      OBVIOUS
    <3>1. CASE k = o[c]
      <4>1. kbuf'[fn[c]][k] = char
        BY <1>4, <3>1
      <4> QED
        BY <2>1, <3>1, <4>1
    <3>2. CASE k \in 0 .. o[c] - 1 /\ k # o[c]
      <4>1. kbuf'[fn[c]][k] = kbuf[fn[c]][k] /\ Right(kbuf[fn[c]][k], id[c], k + 1)
        BY <1>4, <2>1, <3>2 DEF OwnText
      <4> QED
        BY <4>1
    <3> QED
      BY <1>5, <3>1, <3>2
  <2>3. \A k \in 0 .. o'[c] - 1 : Right(kbuf'[fn'[c]][k], id'[c], k + 1)
    BY <1>2, <1>6, <2>2
  <2> QED
    BY <2>3 DEF OwnText, Right
<1>8. Live(c)'
  <2>1. FairIn(log, id[c], char) /\ LiveText(c)
    BY <1>1, PutsFair DEF Live
  <2>2. \A k \in 0 .. o[c] : FairIn(log', id[c], kbuf'[fn[c]][k])
    BY <1>2, <1>4, <1>5, <2>1 DEF LiveText
  <2>3. \A k \in 0 .. o'[c] - 1 : FairIn(log', id'[c], kbuf'[fn'[c]][k])
    BY <1>2, <1>6, <2>2
  <2> QED
    BY <2>3 DEF Live, LiveText
<1> QED
  BY <1>7, <1>8

LEMMA BeginOwn ==
    ASSUME Inv, TypeOK', NEW c \in Callers, NEW f \in Functions, NEW ps \in Seq(Piece),
           pc[c] = "idle", Begin(c, f, ps), Enters(f, ps)
    PROVE  Local(c)' /\ Calm(c)' /\ Own(c)' /\ Live(c)'
<1>1. /\ pc'[c] = "format" /\ id'[c] = Len(log) + 1 /\ rest'[c] = ps /\ next'[c] = 1 /\ o'[c] = 0
      /\ j'[c] = j[c] /\ i'[c] = i[c] /\ ch'[c] = ch[c]
  BY DEF Begin, Inv, TypeOK
<1>2. j[c] = 0 /\ i[c] = 0 /\ OfNumber(ch[c])
  <2>1. ~Busy(c) /\ Local(c)
    BY DEF Busy, Building, Scanning, Copying, Inv
  <2> QED
    BY <2>1 DEF Local, NumberLocal
<1>3. TextLen(ps) \in Nat
  BY TextLenType
<1>4. log'[id'[c]].total = next'[c] - 1 + TextLen(rest'[c]) /\ next'[c] > 0
  BY <1>1, <1>3 DEF Enters
<1>5. o'[c] = Cut(next'[c] - 1)
  BY <1>1, BuffersAssumption DEF Cut
<1>6. ~Busy(c)' /\ ~Begun(c)' /\ Built(c)' = 0
  BY <1>1, <1>2 DEF Busy, Begun, Built, Building, Scanning, Copying
<1>7. NumberLocal(c)'
  BY <1>1, <1>2, <1>6, Sizes DEF NumberLocal, Building, Scanning, Copying
<1>8. Local(c)'
  BY <1>1, <1>2, <1>4, <1>6, <1>7 DEF Local
<1>9. OwnText(c)' /\ LiveText(c)'
  BY <1>1 DEF OwnText, LiveText
<1>10. Calm(c)'
  <2>1. NumberAt(pc'[c], j'[c], ch'[c], id'[c], next'[c], Number(c)', Built(c)',
                 numbuf'[Converter(c)'], tmp_buf')
    BY <1>1, <1>6, IdleNumber DEF Building, Scanning, Copying
  <2>2. OwnLength(c)'
    BY <1>1, <1>5 DEF OwnLength, Copying
  <2> QED
    BY <2>1, <2>2, CalmBy
<1> QED
  BY <1>8, <1>9, <1>10 DEF Own, Live

LEMMA CopyCharOwn ==
    ASSUME Inv, TypeOK', NEW c \in Callers, Frame(c), CopyChar(c)
    PROVE  Local(c)' /\ Calm(c)' /\ Own(c)' /\ Live(c)'
<1> DEFINE char == [call |-> id[c], place |-> next[c], asked |-> "text", form |-> "text"]
<1>1. /\ pc[c] = "format" /\ rest[c] # <<>> /\ Number(c).conv = "char" /\ o[c] < Room1
      /\ Active(c) /\ TypeOK /\ Local(c) /\ Calm(c) /\ NumberLocal(c)
      /\ PutInKbuf(c, char) /\ Step(c)
  BY DEF CopyChar, Formatting, Room, Room1, Active, Inv, Local, Number, Step
<1>2. /\ pc'[c] = "format" /\ rest'[c] = Tail(rest[c]) /\ next'[c] = next[c] + 1
      /\ o'[c] = o[c] + 1 /\ j'[c] = j[c] /\ i'[c] = i[c] /\ ch'[c] = ch[c]
  BY <1>1 DEF CopyChar, Inv, TypeOK
<1>3. /\ Active(c)' /\ id'[c] = id[c] /\ log'[id[c]].total = log[id[c]].total
      /\ ~Races(id[c])' => ~Races(id[c])
  <2>1. Active(c)'
    BY <1>2 DEF Active
  <2> QED
    BY <1>1, <2>1, StepSame
<1>4. ~Busy(c) /\ j[c] = 0 /\ i[c] = 0 /\ OfNumber(ch[c])
  <2>1. ~Busy(c)
    BY <1>1 DEF NumberLocal
  <2> QED
    BY <1>1, <2>1 DEF Local, NumberLocal
<1>5. id[c] \in Nat /\ next[c] \in Nat /\ o[c] \in Nat /\ rest[c] \in Seq(Piece)
  BY <1>1, CallTypes, Sizes
<1>6. char \in Char /\ Puts(id[c], char) /\ Right(char, id[c], next[c])
  BY <1>5 DEF Char, Forms, Puts, Right
<1> HIDE DEF char
<1>7. ~Busy(c)' /\ ~Begun(c)' /\ Built(c)' = 0
  BY <1>2, <1>4 DEF Busy, Begun, Built, Building, Scanning, Copying
<1>8. NumberLocal(c)'
  BY <1>2, <1>4, <1>7, Sizes DEF NumberLocal, Building, Scanning, Copying
<1>9. Local(c)'
  <2>1. TextLen(rest[c]) = 1 + TextLen(Tail(rest[c])) /\ TextLen(Tail(rest[c])) \in Nat
    <3>1. Head(rest[c]).len = 1
      BY <1>1, RestType, PieceFacts DEF Number
    <3> QED
      BY <1>1, <1>5, <3>1, TextLenHead
  <2>2. next'[c] > 0 /\ log'[id'[c]].total = next'[c] - 1 + TextLen(rest'[c])
    <3>1. next[c] > 0 /\ log[id[c]].total = next[c] - 1 + TextLen(rest[c])
      BY <1>1 DEF Local
    <3>2. TextLen(rest'[c]) = TextLen(Tail(rest[c]))
      BY <1>2
    <3>3. log'[id'[c]].total = next[c] - 1 + (1 + TextLen(Tail(rest[c])))
      BY <1>3, <2>1, <3>1
    <3>4. next[c] - 1 + (1 + TextLen(Tail(rest[c]))) = next'[c] - 1 + TextLen(rest'[c])
      <4>1. next'[c] = next[c] + 1
        BY <1>2
      <4>2. \A t \in Nat : next[c] - 1 + (1 + t) = (next[c] + 1) - 1 + t
        BY <1>5
      <4> QED
        BY <2>1, <3>2, <4>1, <4>2
    <3> QED
      BY <1>2, <1>5, <3>3, <3>4
  <2> QED
    BY <1>2, <1>4, <1>7, <1>8, <2>2 DEF Local
<1>10. ~Races(id[c]) => o[c] = Cut(next[c] - 1) /\ o[c] = next[c] - 1
  <2> SUFFICES ASSUME ~Races(id[c]) PROVE o[c] = Cut(next[c] - 1) /\ o[c] = next[c] - 1
    OBVIOUS
  <2>1. o[c] = Cut(next[c] - 1)
    BY <1>1 DEF Calm, OwnLength, Copying
  <2> QED
    BY <1>1, <1>5, <2>1, BuffersAssumption DEF Cut, Room1
<1>11. Own(c)' /\ Live(c)'
  <2>1. ~Races(id[c]) => Right(char, id[c], o[c] + 1)
    <3>1. ~Races(id[c]) => o[c] + 1 = next[c]
      BY <1>5, <1>10
    <3> QED
      BY <1>6, <3>1
  <2>2. pc[c] \in {"format", "put"} /\ pc'[c] \notin {"idle", "store"}
    BY <1>1, <1>2
  <2> QED
    BY <1>1, <1>2, <1>6, <2>1, <2>2, PutOwn
<1>12. Calm(c)'
  <2>1. NumberAt(pc'[c], j'[c], ch'[c], id'[c], next'[c], Number(c)', Built(c)',
                 numbuf'[Converter(c)'], tmp_buf')
    BY <1>2, <1>7, IdleNumber DEF Building, Scanning, Copying
  <2>2. ~Races(id[c])' => OwnLength(c)'
    <3> SUFFICES ASSUME ~Races(id[c])' PROVE OwnLength(c)'
      OBVIOUS
    <3>1. o'[c] = Cut(next'[c] - 1)
      BY <1>1, <1>2, <1>3, <1>5, <1>10, BuffersAssumption DEF Cut, Room1
    <3> QED
      BY <1>2, <3>1 DEF OwnLength, Copying
  <2> QED
    BY <2>1, <2>2, CalmBy
<1> QED
  BY <1>9, <1>11, <1>12

LEMMA PutDigitOwn ==
    ASSUME Inv, TypeOK', NEW c \in Callers, Frame(c), PutDigit(c)
    PROVE  Local(c)' /\ Calm(c)' /\ Own(c)' /\ Live(c)'
<1> DEFINE k == Number(c).len
           more == j[c] + 1 < l[c]
<1>1. /\ pc[c] = "put" /\ Active(c) /\ rest[c] # <<>> /\ Number(c).conv # "char"
      /\ Number(c) \in Piece /\ k \in 1 .. MaxDigits /\ k \in Nat
      /\ j[c] \in Nat /\ l[c] \in Nat /\ o[c] \in Nat /\ next[c] \in Nat
      /\ j[c] < l[c] /\ o[c] + (l[c] - j[c]) <= Room1
      /\ ch[c] \in Char /\ Puts(id[c], ch[c]) /\ PutInKbuf(c, ch[c])
  BY PutDigitAt
<1>2. /\ TypeOK /\ Local(c) /\ Calm(c) /\ NumberLocal(c) /\ Step(c)
      /\ Busy(c) /\ Begun(c) /\ pc[c] \in Copying
  BY <1>1 DEF Inv, Local, Step, Busy, Begun, Copying
<1>3. /\ tmp_buf[0] # NUL /\ l[c] <= MaxDigits /\ i[c] = 0 /\ next[c] > 0
      /\ log[id[c]].total = next[c] - 1 + TextLen(rest[c])
  BY <1>1, <1>2 DEF Local, NumberLocal
<1>4. /\ o'[c] = o[c] + 1 /\ i'[c] = i[c] /\ tmp_buf' = tmp_buf /\ numbuf' = numbuf /\ ch'[c] = NUL
  BY <1>1, SMTT(20) DEF PutDigit, Inv, TypeOK
<1>5. /\ more => /\ pc'[c] = "fetch" /\ j'[c] = j[c] + 1 /\ l'[c] = l[c] /\ next'[c] = next[c]
                 /\ rest'[c] = rest[c]
      /\ ~more => /\ pc'[c] = "format" /\ j'[c] = 0 /\ next'[c] = next[c] + k
                  /\ rest'[c] = Tail(rest[c])
  <2>1. CASE more
    <3>1. /\ j' = [j EXCEPT ![c] = j[c] + 1] /\ pc' = [pc EXCEPT ![c] = "fetch"]
          /\ UNCHANGED <<next, rest, l>>
      BY <2>1 DEF PutDigit
    <3> QED
      BY <2>1, <3>1 DEF Inv, TypeOK
  <2>2. CASE ~more
    <3>1. /\ j' = [j EXCEPT ![c] = 0] /\ next' = [next EXCEPT ![c] = next[c] + k]
          /\ rest' = [rest EXCEPT ![c] = Tail(rest[c])] /\ pc' = [pc EXCEPT ![c] = "format"]
      BY <2>2 DEF PutDigit
    <3> QED
      BY <2>2, <3>1 DEF Inv, TypeOK
  <2> QED
    BY <2>1, <2>2
<1>6. /\ Active(c)' /\ id'[c] = id[c] /\ log'[id[c]].total = log[id[c]].total
      /\ ~Races(id[c])' => ~Races(id[c])
  <2>1. Active(c)'
    BY <1>5 DEF Active
  <2> QED
    BY <1>2, <2>1, StepSame
<1>7. /\ rest[c] \in Seq(Piece) /\ TextLen(rest[c]) = k + TextLen(Tail(rest[c]))
      /\ TextLen(Tail(rest[c])) \in Nat
  <2>1. rest[c] \in Seq(Piece)
    BY <1>2, CallTypes
  <2> QED
    BY <1>1, <2>1, TextLenHead DEF Number
<1>8. id[c] \in Nat
  BY <1>2, CallTypes
<1> HIDE DEF k
<1>9. ~Races(id[c]) =>
        /\ tmp_buf[k] = NUL
        /\ \A m \in 0 .. MaxDigits : m < k => tmp_buf[m] = Shown(id[c], next[c], Number(c), m)
        /\ ch[c] = Shown(id[c], next[c], Number(c), j[c])
        /\ o[c] = next[c] - 1 + j[c]
        /\ l[c] = IF k > Room1 - (next[c] - 1) THEN Room1 - (next[c] - 1) ELSE k
  <2> SUFFICES ASSUME ~Races(id[c])
               PROVE
        /\ tmp_buf[k] = NUL
        /\ \A m \in 0 .. MaxDigits : m < k => tmp_buf[m] = Shown(id[c], next[c], Number(c), m)
        /\ ch[c] = Shown(id[c], next[c], Number(c), j[c])
        /\ o[c] = next[c] - 1 + j[c]
        /\ l[c] = IF k > Room1 - (next[c] - 1) THEN Room1 - (next[c] - 1) ELSE k
    OBVIOUS
  <2>1. OwnNumber(c) /\ OwnLength(c)
    BY <1>1, <1>2 DEF Calm
  <2>2. /\ tmp_buf[k] = NUL
        /\ \A m \in 0 .. MaxDigits : m < k => tmp_buf[m] = Shown(id[c], next[c], Number(c), m)
        /\ ch[c] = Shown(id[c], next[c], Number(c), j[c])
    BY <1>1, <1>2, <2>1 DEF OwnNumber, NumberAt, k
  <2>3. /\ o[c] = next[c] - 1 + j[c]
        /\ l[c] = IF k > Room1 - (next[c] - 1) THEN Room1 - (next[c] - 1) ELSE k
    BY <1>2, <2>1 DEF OwnLength, k
  <2> QED
    BY <2>2, <2>3
<1>10. Own(c)' /\ Live(c)'
  <2>1. ~Races(id[c]) => Right(ch[c], id[c], o[c] + 1)
    <3> SUFFICES ASSUME ~Races(id[c]) PROVE Right(ch[c], id[c], o[c] + 1)
      OBVIOUS
    <3>1. next[c] + j[c] = o[c] + 1
      BY <1>1, <1>9
    <3>2. Right(Shown(id[c], next[c], Number(c), j[c]), id[c], next[c] + j[c])
      BY <1>1, <1>8, DigitFacts
    <3> QED
      BY <1>9, <3>1, <3>2
  <2>2. pc[c] \in {"format", "put"} /\ pc'[c] \notin {"idle", "store"}
    BY <1>1, <1>5
  <2> QED
    BY <1>1, <1>2, <1>4, <2>1, <2>2, PutOwn
<1>11. CASE more
  <2>1. /\ pc'[c] = "fetch" /\ j'[c] = j[c] + 1 /\ l'[c] = l[c] /\ next'[c] = next[c]
        /\ rest'[c] = rest[c] /\ Number(c)' = Number(c)
    BY <1>5, <1>11 DEF Number
  <2>2. NumberLocal(c)'
    <3>1. j'[c] < l'[c] /\ o'[c] + (l'[c] - j'[c]) <= Room1
      <4>1. /\ o[c] \in Nat /\ l[c] \in Nat /\ j[c] \in Nat
            /\ o[c] + (l[c] - j[c]) <= Room1 /\ j[c] + 1 < l[c]
        BY <1>1, <1>11
      <4>2. (o[c] + 1) + (l[c] - (j[c] + 1)) = o[c] + (l[c] - j[c])
        BY <4>1
      <4> QED
        BY <1>4, <2>1, <4>1, <4>2
    <3> QED
      BY <1>1, <1>3, <1>4, <2>1, <3>1, NulChar DEF NumberLocal, Building, Scanning, Copying
  <2>3. Local(c)'
    <3>1. Busy(c)'
      BY <2>1 DEF Busy, Copying
    <3>2. log'[id'[c]].total = next'[c] - 1 + TextLen(rest'[c])
      BY <1>3, <1>6, <2>1
    <3> QED
      BY <1>3, <1>4, <2>1, <2>2, <3>1, <3>2 DEF Local
  <2>4. Calm(c)'
    <3> SUFFICES ASSUME ~Races(id[c])'
                 PROVE  /\ NumberAt(pc'[c], j'[c], ch'[c], id'[c], next'[c], Number(c)', Built(c)',
                                    numbuf'[Converter(c)'], tmp_buf')
                        /\ OwnLength(c)'
      BY CalmBy
    <3>1. ASSUME NEW built, NEW nb
          PROVE  NumberAt("fetch", j[c] + 1, NUL, id[c], next[c], Number(c), built, nb, tmp_buf)
      BY <1>6, <1>9 DEF NumberAt, Building, Scanning, Copying, k
    <3>2. OwnLength(c)'
      <4>1. o'[c] = next'[c] - 1 + j'[c]
        <5>1. next[c] \in Nat /\ j[c] \in Nat
          BY <1>1
        <5>2. o[c] = next[c] - 1 + j[c]
          BY <1>6, <1>9
        <5>3. (next[c] - 1 + j[c]) + 1 = next[c] - 1 + (j[c] + 1)
          BY <5>1
        <5> QED
          BY <1>4, <2>1, <5>2, <5>3
      <4>2. l'[c] = IF k > Room1 - (next'[c] - 1) THEN Room1 - (next'[c] - 1) ELSE k
        BY <1>6, <1>9, <2>1
      <4> QED
        BY <2>1, <4>1, <4>2 DEF OwnLength, Copying, k
    <3> QED
      BY <1>4, <1>6, <2>1, <3>1, <3>2
  <2> QED
    BY <1>10, <2>3, <2>4
<1>12. CASE ~more
  <2>1. /\ pc'[c] = "format" /\ j'[c] = 0 /\ next'[c] = next[c] + k /\ rest'[c] = Tail(rest[c])
    BY <1>5, <1>12
  <2>2. ~Busy(c)' /\ ~Begun(c)' /\ Built(c)' = 0
    BY <2>1 DEF Busy, Begun, Built, Building, Scanning, Copying
  <2>3. NumberLocal(c)'
    BY <1>4, <2>1, <2>2, Sizes, NulChar DEF NumberLocal, Building, Scanning, Copying
  <2>4. Local(c)'
    <3>1. log'[id'[c]].total = next[c] - 1 + (k + TextLen(Tail(rest[c])))
      BY <1>3, <1>6, <1>7
    <3>2. TextLen(rest'[c]) = TextLen(Tail(rest[c]))
      BY <2>1
    <3>3. next[c] - 1 + (k + TextLen(Tail(rest[c]))) = next'[c] - 1 + TextLen(rest'[c])
      BY <1>1, <1>7, <2>1, <3>2
    <3>4. next'[c] > 0
      BY <1>1, <1>3, <2>1
    <3> QED
      BY <1>3, <1>4, <2>1, <2>2, <2>3, <3>1, <3>3, <3>4 DEF Local
  <2>5. Calm(c)'
    <3>1. NumberAt(pc'[c], j'[c], ch'[c], id'[c], next'[c], Number(c)', Built(c)',
                   numbuf'[Converter(c)'], tmp_buf')
      BY <2>1, <2>2, IdleNumber DEF Building, Scanning, Copying
    <3>2. ~Races(id[c])' => OwnLength(c)'
      <4> SUFFICES ASSUME ~Races(id[c])' PROVE OwnLength(c)'
        OBVIOUS
      <4>1. j[c] + 1 = l[c]
        BY <1>1, <1>12
      <4>2. o[c] = next[c] - 1 + j[c] /\ o[c] + 1 <= Room1
        BY <1>1, <1>6, <1>9, <4>1
      <4>3. l[c] = k \/ (l[c] = Room1 - (next[c] - 1) /\ k > l[c])
        BY <1>6, <1>9
      <4>4. o'[c] = Cut(next'[c] - 1)
        <5>0. o'[c] = next[c] - 1 + l[c] /\ next'[c] - 1 = next[c] - 1 + k
          <6>1. next[c] \in Nat /\ j[c] \in Nat /\ k \in Nat
            BY <1>1
          <6>2. o'[c] = (next[c] - 1 + j[c]) + 1
            BY <1>4, <4>2
          <6>3. (next[c] - 1 + j[c]) + 1 = next[c] - 1 + (j[c] + 1)
            BY <6>1
          <6>4. next'[c] - 1 = next[c] - 1 + k
            BY <2>1, <6>1
          <6> QED
            BY <4>1, <6>2, <6>3, <6>4
        <5>1. CASE l[c] = k
          <6>1. o'[c] = next'[c] - 1 /\ next'[c] - 1 <= Room1
            BY <1>1, <1>4, <4>2, <5>0, <5>1
          <6> QED
            BY <1>1, <1>4, <6>1, BuffersAssumption DEF Cut, Room1
        <5>2. CASE l[c] = Room1 - (next[c] - 1) /\ k > l[c]
          <6>1. o'[c] = Room1
            BY <1>1, <5>0, <5>2, Sizes
          <6>2. next'[c] - 1 > Room1
            BY <1>1, <5>0, <5>2, Sizes
          <6>3. ~(next'[c] - 1 < KbufSize)
            BY <1>1, <5>0, <6>2, BuffersAssumption DEF Room1
          <6> QED
            BY <6>1, <6>3 DEF Cut, Room1
        <5> QED
          BY <4>3, <5>1, <5>2
      <4> QED
        BY <2>1, <4>4 DEF OwnLength, Copying
    <3> QED
      BY <3>1, <3>2, CalmBy
  <2> QED
    BY <1>10, <2>4, <2>5
<1> QED
  BY <1>11, <1>12

\* Nothing is known of a number when none is under way.
LEMMA NoNumber ==
    ASSUME NEW c \in Callers, pc'[c] \in {"idle", "acquire", "store"}
    PROVE  /\ ~Busy(c)' /\ ~Begun(c)'
           /\ OfNumber(ch'[c]) => NumberLocal(c)'
           /\ NumberAt(pc'[c], j'[c], ch'[c], id'[c], next'[c], Number(c)', Built(c)',
                       numbuf'[Converter(c)'], tmp_buf')
<1>1. ~Busy(c)' /\ ~Begun(c)'
  BY DEF Busy, Begun, Building, Scanning, Copying
<1>2. OfNumber(ch'[c]) => NumberLocal(c)'
  BY <1>1 DEF NumberLocal, Building, Scanning, Copying
<1>3. NumberAt(pc'[c], j'[c], ch'[c], id'[c], next'[c], Number(c)', Built(c)',
               numbuf'[Converter(c)'], tmp_buf')
  BY IdleNumber DEF Building, Scanning, Copying
<1> QED
  BY <1>1, <1>2, <1>3

LEMMA LeaveOwn ==
    ASSUME TypeOK, NEW c \in Callers, Leave(c)
    PROVE  Local(c)' /\ Calm(c)' /\ Own(c)' /\ Live(c)' /\ ~Active(c)'
<1>1. pc'[c] = "idle" /\ i'[c] = 0 /\ j'[c] = 0 /\ ch'[c] = NUL
  BY DEF Leave, TypeOK
<1>2. ~Active(c)' /\ ~Busy(c)' /\ NumberLocal(c)'
  BY <1>1, NoNumber, NulChar DEF Active
<1> QED
  BY <1>1, <1>2 DEF Local, Calm, Own, Live

LEMMA TerminateOwn ==
    ASSUME Inv, TypeOK', NEW c \in Callers, Frame(c), Terminate(c)
    PROVE  Local(c)' /\ Calm(c)' /\ Own(c)' /\ Live(c)'
<1>1. /\ pc[c] = "format" /\ Active(c) /\ Local(c) /\ Calm(c) /\ Own(c) /\ Live(c) /\ i[c] = 0
      /\ rest[c] = <<>> \/ ~(o[c] < Room1)
      /\ TypeOK /\ NumberLocal(c) /\ Step(c)
  BY DEF Terminate, Active, Inv, Local, Room, Room1, Step
<1>2. CASE o[c] = 0
  <2>1. Leave(c)
    BY <1>2 DEF Terminate
  <2> QED
    BY <1>1, <2>1, LeaveOwn
<1>3. CASE o[c] # 0
  <2>1. pc'[c] = "acquire" /\ UNCHANGED <<fn, id, o, l, j, ch, i>>
    BY <1>3 DEF Terminate, Inv, TypeOK
  <2>2. /\ Active(c)' /\ Entry(c) /\ log'[id[c]].total = log[id[c]].total
        /\ Alone(id[c])' => Alone(id[c])
        /\ ~Races(id[c])' => ~Races(id[c])
        /\ \A m : FairIn(log, id[c], m) => FairIn(log', id[c], m)
    <3>1. Active(c)'
      BY <2>1 DEF Active
    <3> QED
      BY <1>1, <3>1, StepSame
  <2>3. o[c] \in Nat /\ o[c] \in 0 .. Room1 /\ next[c] \in Nat /\ rest[c] \in Seq(Piece)
    BY <1>1, CallTypes, Sizes
  <2>4. \A k \in 0 .. o[c] - 1 : kbuf'[fn[c]][k] = kbuf[fn[c]][k]
    <3>1. \A k \in 0 .. o[c] : kbuf'[fn[c]][k] = IF k = o[c] THEN NUL ELSE kbuf[fn[c]][k]
      BY OwnKbuf, NulChar DEF Inv, Terminate
    <3> QED
      BY <2>3, <3>1
  <2>5. ~Busy(c) /\ j[c] = 0 /\ OfNumber(ch[c])
    <3>1. ~Busy(c)
      <4>1. o[c] = Room1 \/ rest[c] = <<>>
        BY <1>1, <2>3, Sizes
      <4> QED
        BY <1>1, <4>1 DEF NumberLocal, Copying
    <3> QED
      BY <1>1, <3>1 DEF Local, NumberLocal
  <2>6. Local(c)'
    <3>1. ~Busy(c)' /\ NumberLocal(c)'
      BY <2>1, <2>5, NoNumber
    <3>2. o'[c] > 0 /\ i'[c] = 0 /\ j'[c] = 0
      BY <1>1, <1>3, <2>1, <2>3, <2>5
    <3> QED
      BY <2>1, <3>1, <3>2 DEF Local
  <2>7. Calm(c)'
    <3> SUFFICES ASSUME ~Races(id[c])'
                 PROVE  /\ NumberAt(pc'[c], j'[c], ch'[c], id'[c], next'[c], Number(c)', Built(c)',
                                    numbuf'[Converter(c)'], tmp_buf')
                        /\ OwnLength(c)'
      BY CalmBy
    <3>1. o[c] = Cut(next[c] - 1)
      BY <1>1, <2>2 DEF Calm, OwnLength, Copying
    <3>2. log[id[c]].total = next[c] - 1 + TextLen(rest[c]) /\ TextLen(rest[c]) \in Nat /\ next[c] > 0
      BY <1>1, <2>3, TextLenType DEF Local
    <3>3. o[c] = Cut(log[id[c]].total)
      <4>1. CASE rest[c] = <<>>
        <5>1. TextLen(rest[c]) = 0
          BY <4>1, TextLenEmpty
        <5>2. log[id[c]].total = next[c] - 1
          BY <2>3, <3>2, <5>1
        <5> QED
          BY <3>1, <5>2
      <4>2. CASE ~(o[c] < Room1)
        <5>1. o[c] = Room1 /\ Room1 = KbufSize - 1 /\ KbufSize \in Nat
          BY <2>3, <4>2, Sizes, BuffersAssumption DEF Room1
        <5>2. ~(next[c] - 1 < KbufSize - 1)
          <6>1. next[c] - 1 < KbufSize - 1 => Cut(next[c] - 1) = next[c] - 1
            BY <2>3, <5>1 DEF Cut
          <6> QED
            BY <3>1, <5>1, <6>1
        <5>3. ~(log[id[c]].total < KbufSize - 1)
          BY <2>3, <3>2, <5>1, <5>2
        <5>4. log[id[c]].total \in Int
          BY <2>3, <3>2
        <5>5. Cut(log[id[c]].total) = KbufSize - 1
          BY <5>1, <5>3, <5>4 DEF Cut
        <5> QED
          BY <5>1, <5>5
      <4> QED
        BY <1>1, <4>1, <4>2
    <3>4. ~Busy(c)'
      BY <2>1, NoNumber
    <3>5. OwnLength(c)'
      BY <2>1, <2>2, <3>3, <3>4 DEF OwnLength, Copying
    <3> QED
      BY <2>1, <3>5, NoNumber
  <2>8. Own(c)'
    <3> SUFFICES ASSUME Alone(id[c])' PROVE OwnText(c)'
      BY DEF Own
    <3>1. OwnText(c)
      BY <1>1, <2>2 DEF Own
    <3> QED
      BY <2>1, <2>4, <3>1 DEF OwnText, Right
  <2>9. Live(c)'
    <3>1. LiveText(c)
      BY <1>1 DEF Live
    <3>2. \A k \in 0 .. o'[c] - 1 : FairIn(log', id'[c], kbuf'[fn'[c]][k])
      BY <2>1, <2>2, <2>4, <3>1 DEF LiveText
    <3> QED
      BY <2>1, <3>2 DEF Live, LiveText
  <2> QED
    BY <2>6, <2>7, <2>8, <2>9
<1> QED
  BY <1>2, <1>3

LEMMA AcquireOwn ==
    ASSUME Inv, TypeOK', NEW c \in Callers, Frame(c), Acquire(c)
    PROVE  /\ Local(c)' /\ Calm(c)' /\ Own(c)' /\ Live(c)'
           /\ log'[id[c]].from = Len(stream)
<1>1. /\ pc[c] = "acquire" /\ Active(c) /\ Local(c) /\ Calm(c) /\ Own(c) /\ Live(c) /\ i[c] = 0
      /\ o[c] > 0 /\ TypeOK /\ NumberLocal(c) /\ Step(c)
  BY DEF Acquire, Active, Inv, Local, Step
<1>2. /\ pc'[c] = "store"
      /\ UNCHANGED <<kbuf, numbuf, tmp_buf, fn, id, rest, next, o, l, j, ch, i, stream>>
      /\ log' = [log EXCEPT ![id[c]].from = Len(stream)]
  BY DEF Acquire, locals, buffers, Inv, TypeOK
<1>3. /\ Active(c)' /\ Entry(c) /\ log'[id[c]].total = log[id[c]].total
      /\ Alone(id[c])' => Alone(id[c])
      /\ ~Races(id[c])' => ~Races(id[c])
      /\ \A m : FairIn(log, id[c], m) => FairIn(log', id[c], m)
  <2>1. Active(c)'
    BY <1>2 DEF Active
  <2> QED
    BY <1>1, <2>1, StepSame
<1>4. log'[id[c]].from = Len(stream)
  <2>1. log \in Seq(LogEntry) /\ id[c] \in DOMAIN log
    BY <1>3 DEF Inv, TypeOK, Entry
  <2>2. log'[id[c]] = [log[id[c]] EXCEPT !.from = Len(stream)] /\ log[id[c]] \in LogEntry
    BY <1>2, <2>1
  <2> QED
    BY <2>2 DEF LogEntry
<1>5. o[c] \in Nat /\ Len(stream) \in Nat
  <2>1. stream \in Seq(Char)
    BY <1>1 DEF TypeOK
  <2> QED
    BY <1>1, <2>1, CallTypes, Sizes
<1>6. ~Busy(c) /\ ~Busy(c)' /\ j[c] = 0 /\ NumberLocal(c)'
  <2>1. ~Busy(c) /\ OfNumber(ch[c])
    BY <1>1 DEF Busy, Building, Scanning, Copying, NumberLocal
  <2>2. ~Busy(c)' /\ NumberLocal(c)'
    BY <1>2, <2>1, NoNumber
  <2> QED
    BY <1>1, <2>1, <2>2 DEF Local
<1>7. Local(c)'
  BY <1>1, <1>2, <1>5, <1>6 DEF Local
<1>8. Own(c)'
  <2> SUFFICES ASSUME Alone(id[c])' PROVE OwnText(c)'
    BY DEF Own
  <2>1. OwnText(c)
    BY <1>1, <1>3 DEF Own
  <2> QED
    BY <1>1, <1>2, <2>1 DEF OwnText, Right
<1>9. Live(c)'
  <2>1. \A k \in 0 .. o'[c] - 1 : FairIn(log', id'[c], kbuf'[fn'[c]][k])
    BY <1>1, <1>2, <1>3 DEF Live, LiveText
  <2>2. log'[id'[c]].from + 1 .. Len(stream') = {}
    BY <1>2, <1>4, <1>5
  <2> QED
    BY <2>1, <2>2 DEF Live, LiveText
<1>10. Calm(c)'
  <2>1. ~Races(id[c])' => OwnLength(c)'
    <3> SUFFICES ASSUME ~Races(id[c])' PROVE OwnLength(c)'
      OBVIOUS
    <3>1. o'[c] = Cut(log'[id'[c]].total)
      BY <1>1, <1>2, <1>3 DEF Calm, OwnLength
    <3> QED
      BY <1>2, <1>6, <3>1 DEF OwnLength, Copying
  <2> QED
    BY <1>2, <2>1, CalmBy, NoNumber
<1> QED
  BY <1>4, <1>7, <1>8, <1>9, <1>10

LEMMA StoreOwn ==
    ASSUME Inv, TypeOK', NEW c \in Callers, Frame(c), Store(c)
    PROVE  Local(c)' /\ Calm(c)' /\ Own(c)' /\ Live(c)'
<1> DEFINE char == kbuf[fn[c]][i[c]]
           from == log[id[c]].from
<1>1. /\ pc[c] = "store" /\ i[c] < o[c] /\ Active(c) /\ Local(c) /\ Calm(c) /\ Own(c) /\ Live(c)
      /\ TypeOK /\ NumberLocal(c) /\ Step(c)
  BY DEF Store, Active, Inv, Local, Step
<1>2. /\ pc'[c] = "store" /\ i'[c] = i[c] + 1 /\ stream' = Append(stream, char)
      /\ UNCHANGED <<kbuf, numbuf, tmp_buf, fn, id, rest, next, o, l, j, ch, log>>
  BY <1>1 DEF Store, buffers, Inv, TypeOK
<1>3. /\ Active(c)' /\ Entry(c)
      /\ Alone(id[c])' => Alone(id[c])
      /\ ~Races(id[c])' => ~Races(id[c])
  <2>1. Active(c)'
    BY <1>2 DEF Active
  <2> QED
    BY <1>1, <2>1, StepSame
<1>4. /\ o[c] \in Nat /\ i[c] \in Nat /\ stream \in Seq(Char) /\ Len(stream) \in Nat
      /\ from \in Nat /\ from + i[c] = Len(stream)
  <2>1. o[c] \in Nat /\ i[c] \in Nat /\ stream \in Seq(Char) /\ log \in Seq(LogEntry)
    BY <1>1, CallTypes, Sizes DEF TypeOK
  <2>2. log[id[c]] \in LogEntry
    BY <1>3, <2>1 DEF Entry
  <2>3. from \in Nat
    BY <2>2 DEF LogEntry
  <2> QED
    BY <1>1, <2>1, <2>3 DEF Inv, LockInv
<1>5. /\ Len(stream') = Len(stream) + 1 /\ stream'[Len(stream) + 1] = char
      /\ \A k \in 1 .. Len(stream) : stream'[k] = stream[k]
  <2>1. char \in Char
    BY StoreFrame DEF Inv
  <2> HIDE DEF char
  <2> QED
    BY <1>2, <1>4, <2>1, AppendProperties
<1> HIDE DEF char, from
<1>6. ~Busy(c) /\ ~Busy(c)' /\ j[c] = 0 /\ NumberLocal(c)'
  <2>1. ~Busy(c) /\ OfNumber(ch[c])
    BY <1>1 DEF Busy, Building, Scanning, Copying, NumberLocal
  <2>2. ~Busy(c)' /\ NumberLocal(c)'
    BY <1>2, <2>1, NoNumber
  <2> QED
    BY <1>1, <2>1, <2>2 DEF Local
<1>7. Local(c)'
  BY <1>1, <1>2, <1>4, <1>6 DEF Local
<1>8. Own(c)'
  <2> SUFFICES ASSUME Alone(id[c])' PROVE OwnText(c)'
    BY DEF Own
  <2>1. OwnText(c)
    BY <1>1, <1>3 DEF Own
  <2>2. Right(char, id[c], i[c] + 1)
    BY <1>1, <1>4, <2>1 DEF OwnText, char
  <2>3. \A k \in 1 .. i[c] : Right(stream[from + k], id[c], k)
    BY <1>1, <2>1 DEF OwnText, from
  <2>4. ASSUME NEW k \in 1 .. i[c] + 1 PROVE Right(stream'[from + k], id[c], k)
    <3>1. CASE k = i[c] + 1
      <4>1. from + k = Len(stream) + 1
        BY <1>4, <3>1, SMTT(20)
      <4> QED
        BY <1>5, <2>2, <3>1, <4>1
    <3>2. CASE k \in 1 .. i[c]
      <4>1. from + k \in 1 .. Len(stream)
        BY <1>4, <3>2
      <4> QED
        BY <1>5, <2>3, <3>2, <4>1
    <3> QED
      BY <1>4, <3>1, <3>2
  <2>5. \A k \in 1 .. i'[c] : Right(stream'[log'[id'[c]].from + k], id'[c], k)
    BY <1>2, <2>4 DEF from
  <2>6. \A k \in 0 .. o'[c] - 1 : Right(kbuf'[fn'[c]][k], id'[c], k + 1)
    BY <1>2, <2>1 DEF OwnText
  <2> QED
    BY <2>5, <2>6 DEF OwnText, Right
<1>9. Live(c)'
  <2>0. LiveText(c)
    BY <1>1 DEF Live
  <2>1. FairIn(log, id[c], char)
    BY <1>1, <1>4, <2>0 DEF LiveText, char
  <2>2. \A k \in from + 1 .. Len(stream) : FairIn(log, id[c], stream[k])
    BY <1>1, <2>0 DEF LiveText, from
  <2>3. ASSUME NEW k \in from + 1 .. Len(stream) + 1 PROVE FairIn(log, id[c], stream'[k])
    <3>1. CASE k = Len(stream) + 1
      BY <1>5, <2>1, <3>1
    <3>2. CASE k \in from + 1 .. Len(stream)
      BY <1>4, <1>5, <2>2, <3>2
    <3> QED
      BY <1>4, <3>1, <3>2
  <2>4. \A k \in log'[id'[c]].from + 1 .. Len(stream') : FairIn(log', id'[c], stream'[k])
    BY <1>2, <1>5, <2>3 DEF from
  <2>5. \A k \in 0 .. o'[c] - 1 : FairIn(log', id'[c], kbuf'[fn'[c]][k])
    BY <1>2, <2>0 DEF LiveText
  <2> QED
    BY <2>4, <2>5 DEF Live, LiveText
<1>10. Calm(c)'
  <2>1. ~Races(id[c])' => OwnLength(c)'
    <3> SUFFICES ASSUME ~Races(id[c])' PROVE OwnLength(c)'
      OBVIOUS
    <3>1. o'[c] = Cut(log'[id'[c]].total)
      BY <1>1, <1>2, <1>3 DEF Calm, OwnLength
    <3> QED
      BY <1>2, <1>6, <3>1 DEF OwnLength, Copying
  <2> QED
    BY <1>2, <2>1, CalmBy, NoNumber
<1> QED
  BY <1>7, <1>8, <1>9, <1>10

LEMMA ReleaseOwn ==
    ASSUME Inv, NEW c \in Callers, Release(c)
    PROVE  Local(c)' /\ Calm(c)' /\ Own(c)' /\ Live(c)'
BY LeaveOwn DEF Release, Inv

-----------------------------------------------------------------------------
\* The stream only grows.
LEMMA StreamGrows ==
    ASSUME TypeOK, TypeOK', NEW c \in Callers, StreamFrame(c)
    PROVE  /\ Len(stream) \in Nat /\ Len(stream') \in Nat /\ Len(stream) <= Len(stream')
           /\ \A k \in 1 .. Len(stream) : stream'[k] = stream[k]
<1>1. stream \in Seq(Char) /\ Len(stream) \in Nat
  BY DEF TypeOK
<1>2. CASE stream' = stream
  BY <1>1, <1>2
<1>3. CASE i[c] < o[c] /\ stream' = Append(stream, kbuf[fn[c]][i[c]])
  <2>1. kbuf[fn[c]][i[c]] \in Char
    <3>1. fn[c] \in Functions /\ i[c] \in 0 .. Room1
      <4>1. fn[c] \in Functions /\ i[c] \in Nat /\ o[c] \in 0 .. Room1
        BY CallTypes
      <4> QED
        BY <1>3, <4>1, Sizes
    <3>2. kbuf[fn[c]] \in [0 .. Room1 -> Char]
      BY <3>1 DEF TypeOK
    <3> QED
      BY <3>1, <3>2
  <2> QED
    BY <1>1, <1>3, <2>1, AppendProperties
<1> QED
  BY <1>2, <1>3 DEF StreamFrame

\* A call is finished by its release of the lock, and by nothing else.
LEMMA FinishedBy ==
    ASSUME Inv, TypeOK', NEW c \in Callers, Frame(c),
           Step(c) \/ pc[c] = "idle",
           NEW n \in DOMAIN log', log'[n].upto > 0
    PROVE  /\ n \in DOMAIN log /\ log'[n].from = log[n].from /\ log'[n].total = log[n].total
           /\ \/ log[n].upto > 0 /\ log'[n].upto = log[n].upto
              \/ Release(c) /\ n = id[c] /\ log'[n].upto = Len(stream)
<1>1. n \in DOMAIN log
  BY DEF Frame, LogFrame
<1>2. log'[n].total = log[n].total
  BY <1>1 DEF Frame, LogFrame
<1>3. CASE ~(Active(c) /\ n = id[c])
  BY <1>1, <1>2, <1>3 DEF Frame, LogFrame
<1>4. CASE Active(c) /\ n = id[c]
  <2>1. Step(c) /\ Entry(c) /\ log[n].upto = 0
    BY <1>4 DEF Active, Inv, CallInv, Entry
  <2>2. CASE Release(c)
    <3>1. log \in Seq(LogEntry) /\ log[n] \in LogEntry
      BY <1>1, LogTypes DEF Inv
    <3>2. log' = [log EXCEPT ![n].upto = Len(stream)]
      BY <1>4, <2>2 DEF Release
    <3>3. log'[n] = [log[n] EXCEPT !.upto = Len(stream)]
      BY <1>1, <3>1, <3>2
    <3>4. log'[n].from = log[n].from /\ log'[n].upto = Len(stream)
      BY <3>1, <3>3 DEF LogEntry
    <3> QED
      BY <1>1, <1>2, <1>4, <2>2, <3>4
  <2>3. CASE ~Release(c)
    <3>1. log'[id[c]].upto = log[id[c]].upto
      <4>1. CASE Active(c)'
        BY <2>1, <4>1, StepKeeps
      <4>2. CASE ~Active(c)'
        <5>1. CASE Acquire(c)
          <6>1. pc'[c] = "store"
            BY <5>1 DEF Acquire, Inv, TypeOK
          <6> QED
            BY <4>2, <6>1 DEF Active
        <5>2. CASE ~Acquire(c)
          <6>1. log' = log
            BY <2>1, <2>3, <5>2 DEF Step, CopyChar, Convert, Divide, TurnLoad, TurnStore, EndNumber,
                                    LowerLoad, LowerStore, Measure, Fetch, PutDigit, Terminate, Store
          <6> QED
            BY <6>1
        <5> QED
          BY <5>1, <5>2
      <4> QED
        BY <4>1, <4>2
    <3> QED
      BY <1>4, <2>1, <3>1
  <2> QED
    BY <2>2, <2>3
<1> QED
  BY <1>3, <1>4

LEMMA LockKept ==
    ASSUME Inv, TypeOK', NEW c \in Callers, Frame(c), Step(c) \/ (pc[c] = "idle" /\ pc'[c] = "format")
    PROVE  LockInv'
<1>1. \A d \in Callers : d # c => pc'[d] = pc[d] /\ i'[d] = i[d] /\ id'[d] = id[d]
  BY DEF Frame, Others
<1>2. tty_lock \in {0, 1} /\ tty_lock' \in {0, 1}
  BY DEF Inv, TypeOK
<1>3. pc'[c] = "store" => \/ pc[c] = "store" /\ tty_lock' = tty_lock /\ Store(c)
                          \/ tty_lock = 0 /\ tty_lock' = 1 /\ Acquire(c)
  <2> SUFFICES ASSUME pc'[c] = "store", Step(c)
               PROVE  \/ pc[c] = "store" /\ tty_lock' = tty_lock /\ Store(c)
                      \/ tty_lock = 0 /\ tty_lock' = 1 /\ Acquire(c)
    OBVIOUS
  <2>0. TypeOK /\ NumberInv /\ Local(c)
    BY DEF Inv
  <2>1. pc \in [Callers -> PCs]
    BY <2>0 DEF TypeOK
  <2>2. ~CopyChar(c) /\ ~Measure(c) /\ ~Fetch(c)
    BY <2>1 DEF CopyChar, Measure, Fetch, Formatting
  <2>3. ~PutDigit(c) /\ ~Release(c) /\ ~Convert(c)
    <3>1. ~PutDigit(c) /\ ~Release(c)
      BY <2>1 DEF PutDigit, Release, Leave
    <3>2. ~Divide(c) /\ ~TurnLoad(c) /\ ~TurnStore(c)
      BY <2>1 DEF Divide, TurnLoad, TurnStore, Formatting
    <3>3. ~EndNumber(c) /\ ~LowerLoad(c) /\ ~LowerStore(c)
      BY <2>1 DEF EndNumber, LowerLoad, LowerStore
    <3> QED
      BY <3>1, <3>2, <3>3 DEF Convert
  <2>4. ~Terminate(c)
    BY <2>1 DEF Terminate, Leave
  <2>5. Acquire(c) => tty_lock = 0 /\ tty_lock' = 1
    BY DEF Acquire
  <2>6. Store(c) => pc[c] = "store" /\ tty_lock' = tty_lock
    BY DEF Store, buffers
  <2> QED
    BY <2>2, <2>3, <2>4, <2>5, <2>6 DEF Step
<1>4. /\ tty_lock' = 0 => \A d \in Callers : pc'[d] # "store"
      /\ \A d, e \in Callers : pc'[d] = "store" /\ pc'[e] = "store" => d = e
  <2>1. CASE pc'[c] = "store"
    BY <1>1, <1>3, <2>1 DEF Inv, LockInv
  <2>2. CASE pc'[c] # "store"
    BY <1>1, <2>2 DEF Inv, LockInv, Frame
  <2> QED
    BY <2>1, <2>2
<1>5. /\ Len(stream) \in Nat /\ Len(stream') \in Nat /\ Len(stream) <= Len(stream')
  BY StreamGrows DEF Inv, Frame
<1>6. ASSUME NEW d \in Callers, pc'[d] = "store" PROVE log'[id'[d]].from + i'[d] = Len(stream')
  <2>1. CASE d # c
    <3>1. stream' = stream /\ pc[d] = "store"
      BY <1>1, <1>6, <2>1 DEF Frame, StreamFrame, Inv, LockInv
    <3>2. log'[id[d]].from = log[id[d]].from
      BY <1>6, <2>1, EntryKept DEF Active
    <3> QED
      BY <1>1, <2>1, <3>1, <3>2 DEF Inv, LockInv
  <2>2. CASE d = c /\ Store(c)
    <3>1. log[id[c]].from + i[c] = Len(stream) /\ i'[c] = i[c] + 1 /\ log' = log /\ id' = id
      BY <2>2 DEF Store, Inv, LockInv, TypeOK
    <3>2. Len(stream') = Len(stream) + 1
      <4>1. stream' = Append(stream, kbuf[fn[c]][i[c]]) /\ kbuf[fn[c]][i[c]] \in Char
        BY <2>2, StoreFrame DEF Store, Inv
      <4> QED
        BY <4>1, AppendProperties DEF Inv, TypeOK
    <3>3. log[id[c]].from \in Nat /\ i[c] \in Nat
      <4>1. id[c] \in DOMAIN log /\ log \in Seq(LogEntry) /\ i[c] \in Nat
        BY <2>2 DEF Store, Active, Inv, CallInv, Entry, TypeOK
      <4>2. log[id[c]] \in LogEntry
        BY <4>1
      <4> QED
        BY <4>1, <4>2 DEF LogEntry
    <3> QED
      BY <1>5, <2>2, <3>1, <3>2, <3>3
  <2>3. CASE d = c /\ Acquire(c)
    <3>1. log'[id[c]].from = Len(stream)
      BY <2>3, AcquireOwn
    <3>2. i'[c] = 0 /\ id' = id /\ stream' = stream
      BY <2>3 DEF Acquire, locals, Inv, Local
    <3> QED
      BY <1>5, <2>3, <3>1, <3>2
  <2> QED
    BY <1>3, <1>6, <2>1, <2>2, <2>3
<1>7. ASSUME NEW n \in DOMAIN log', log'[n].upto > 0
      PROVE  log'[n].from <= log'[n].upto /\ log'[n].upto <= Len(stream')
  <2>1. log' \in Seq(LogEntry) /\ log'[n] \in LogEntry
    BY DEF TypeOK
  <2>2. log'[n].from \in Nat /\ log'[n].upto \in Nat
    BY <2>1 DEF LogEntry
  <2>3. CASE n \in DOMAIN log /\ log'[n].from = log[n].from /\ log[n].upto > 0 /\ log'[n].upto = log[n].upto
    <3>1. log[n].from <= log[n].upto /\ log[n].upto <= Len(stream)
      BY <2>3 DEF Inv, LockInv
    <3> QED
      BY <1>5, <2>2, <2>3, <3>1
  <2>4. CASE Release(c) /\ n = id[c] /\ log'[n].from = log[n].from /\ log'[n].upto = Len(stream)
    <3>1. log[n].from + i[c] = Len(stream) /\ i[c] \in Nat
      BY <2>4 DEF Inv, LockInv, Release, TypeOK
    <3> QED
      BY <1>5, <2>2, <2>4, <3>1
  <2> QED
    BY <1>7, <2>3, <2>4, FinishedBy
<1> QED
  BY <1>4, <1>6, <1>7 DEF LockInv

LEMMA DoneKept ==
    ASSUME Inv, TypeOK', NEW c \in Callers, Frame(c), Step(c) \/ pc[c] = "idle"
    PROVE  OwnDone' /\ LiveDone'
<1>1. /\ Len(stream) \in Nat /\ Len(stream') \in Nat /\ Len(stream) <= Len(stream')
      /\ \A k \in 1 .. Len(stream) : stream'[k] = stream[k]
  BY StreamGrows DEF Inv, Frame
<1>2. ASSUME NEW n \in DOMAIN log', log'[n].upto > 0
      PROVE  /\ Alone(n)' =>
                  /\ log'[n].upto = log'[n].from + Cut(log'[n].total)
                  /\ \A k \in 1 .. Cut(log'[n].total) : Right(stream'[log'[n].from + k], n, k)
             /\ \A k \in log'[n].from + 1 .. log'[n].upto : FairIn(log', n, stream'[k])
  <2> DEFINE from == log[n].from
             cut == Cut(log[n].total)
  <2>1. n \in DOMAIN log /\ log'[n].from = from /\ log'[n].total = log[n].total
    BY <1>2, FinishedBy
  <2>2. /\ Alone(n)' => Alone(n)
        /\ \A char : FairIn(log, n, char) => FairIn(log', n, char)
    BY <2>1, Grows DEF Inv, Frame
  <2>3. from \in Nat /\ cut \in Nat
    <3>1. log[n] \in LogEntry
      BY <2>1, LogTypes DEF Inv
    <3>2. from \in Nat /\ log[n].total \in Nat
      BY <3>1 DEF LogEntry
    <3> QED
      BY <3>2, BuffersAssumption DEF Cut
  <2>4. CASE log[n].upto > 0 /\ log'[n].upto = log[n].upto
    <3>1. log[n].upto <= Len(stream) /\ log[n].upto \in Nat
      <4>1. log[n] \in LogEntry
        BY <2>1, LogTypes DEF Inv
      <4> QED
        BY <2>1, <2>4, <4>1 DEF Inv, LockInv, LogEntry
    <3>2. Alone(n) =>
            /\ log[n].upto = from + cut
            /\ \A k \in 1 .. cut : Right(stream[from + k], n, k)
      BY <2>1, <2>4 DEF Inv, OwnDone
    <3>3. \A k \in from + 1 .. log[n].upto : FairIn(log, n, stream[k])
      BY <2>1, <2>4 DEF Inv, LiveDone
    <3> HIDE DEF from, cut
    <3>4. Alone(n)' => \A k \in 1 .. cut : Right(stream'[from + k], n, k)
      <4> SUFFICES ASSUME Alone(n)', NEW k \in 1 .. cut PROVE Right(stream'[from + k], n, k)
        OBVIOUS
      <4>1. from + k \in 1 .. Len(stream)
        BY <1>1, <2>2, <2>3, <3>1, <3>2
      <4> QED
        BY <1>1, <2>2, <3>2, <4>1
    <3>5. \A k \in from + 1 .. log[n].upto : FairIn(log', n, stream'[k])
      <4> SUFFICES ASSUME NEW k \in from + 1 .. log[n].upto PROVE FairIn(log', n, stream'[k])
        OBVIOUS
      <4>1. k \in 1 .. Len(stream)
        BY <1>1, <2>3, <3>1
      <4> QED
        BY <1>1, <2>2, <3>3, <4>1
    <3>6. Alone(n)' => log'[n].upto = from + cut
      BY <2>2, <2>4, <3>2
    <3>7. log'[n].from = from /\ Cut(log'[n].total) = cut
      BY <2>1 DEF from, cut
    <3> QED
      BY <2>4, <3>4, <3>5, <3>6, <3>7
  <2>5. CASE Release(c) /\ n = id[c] /\ log'[n].upto = Len(stream)
    <3>1. /\ pc[c] = "store" /\ i[c] = o[c] /\ stream' = stream /\ Active(c)
      BY <2>5 DEF Release, Active
    <3>2. from + i[c] = Len(stream)
      BY <2>5, <3>1 DEF Inv, LockInv
    <3>3. Alone(n) => o[c] = cut /\ \A k \in 1 .. i[c] : Right(stream[from + k], n, k)
      <4>1. Own(c) /\ Calm(c)
        BY DEF Inv
      <4> QED
        BY <2>5, <3>1, <4>1, AloneCalm DEF Own, OwnText, Calm, OwnLength
    <3>4. \A k \in from + 1 .. Len(stream) : FairIn(log, n, stream[k])
      <4>1. LiveText(c)
        BY <3>1 DEF Inv, Live
      <4> QED
        BY <2>5, <3>1, <4>1 DEF LiveText
    <3> HIDE DEF from, cut
    <3>5. Alone(n)' => /\ log'[n].upto = from + cut
                       /\ \A k \in 1 .. cut : Right(stream'[from + k], n, k)
      BY <2>2, <2>5, <3>1, <3>2, <3>3
    <3>6. log'[n].from = from /\ Cut(log'[n].total) = cut
      BY <2>1 DEF from, cut
    <3>7. \A k \in from + 1 .. log'[n].upto : FairIn(log', n, stream'[k])
      BY <2>2, <2>5, <3>1, <3>4
    <3> QED
      BY <3>5, <3>6, <3>7
  <2> QED
    BY <1>2, <2>4, <2>5, FinishedBy
<1>3. OwnDone'
  <2>1. ASSUME NEW n \in DOMAIN log', log'[n].upto > 0, Alone(n)'
        PROVE  /\ log'[n].upto = log'[n].from + Cut(log'[n].total)
               /\ \A k \in 1 .. Cut(log'[n].total) : Right(stream'[log'[n].from + k], n, k)
    BY <1>2, <2>1
  <2> QED
    BY <2>1 DEF OwnDone, Right
<1>4. LiveDone'
  BY <1>2 DEF LiveDone
<1> QED
  BY <1>3, <1>4

-----------------------------------------------------------------------------
LEMMA InitInv == Init => Inv
<1> SUFFICES ASSUME Init PROVE Inv
  OBVIOUS
<1>1. NUL \in Char /\ OfNumber(NUL) /\ <<>> \in Seq(LogEntry) /\ <<>> \in Seq(Char) /\ <<>> \in Seq(Piece)
      /\ 0 \in 0 .. Room1 /\ 0 \in 0 .. MaxDigits /\ MaxDigits \in 0 .. MaxDigits
      /\ "printk" \in Functions /\ "idle" \in PCs /\ 0 \in Nat
  BY Sizes, NulChar DEF Functions, PCs
<1>2. TypeOK
  BY <1>1 DEF Init, TypeOK, Room1
<1>3. ASSUME NEW c \in Callers PROVE ~Active(c) /\ Local(c) /\ Calm(c) /\ Own(c) /\ Live(c)
  <2>1. pc[c] = "idle" /\ j[c] = 0 /\ i[c] = 0 /\ ch[c] = NUL
    BY DEF Init
  <2>2. ~Active(c) /\ ~Busy(c) /\ ~Begun(c)
    BY <2>1 DEF Active, Busy, Begun, Building, Scanning, Copying
  <2>3. NumberLocal(c)
    BY <1>1, <2>1, <2>2 DEF NumberLocal, Building, Scanning, Copying
  <2> QED
    BY <2>1, <2>2, <2>3 DEF Local, Calm, Own, Live
<1>4. CallInv /\ LockInv /\ OwnDone /\ LiveDone
  BY <1>3 DEF Init, CallInv, LockInv, OwnDone, LiveDone, Active
<1>5. NumberInv
  BY <1>1 DEF Init, NumberInv
<1> QED
  BY <1>2, <1>3, <1>4, <1>5 DEF Inv

\* A step that changes nothing.
LEMMA InvStays ==
    ASSUME Inv, UNCHANGED vars
    PROVE  Inv'
<1>1. UNCHANGED <<tty_lock, kbuf, numbuf, tmp_buf, pc, fn, id, rest, next, o, l, j, ch, i, stream, log>>
  BY DEF vars, buffers, locals
<1>2. TypeOK' /\ NumberInv' /\ LockInv'
  BY <1>1 DEF Inv, TypeOK, NumberInv, LockInv
<1>3. CallInv'
  BY <1>1 DEF Inv, CallInv, Entry, Knows, Active
<1>4. OwnDone'
  BY <1>1 DEF Inv, OwnDone, Alone, Conflict, Right
<1>5. LiveDone'
  BY <1>1 DEF Inv, LiveDone
<1>6. ASSUME NEW c \in Callers PROVE Local(c)' /\ Calm(c)' /\ Own(c)' /\ Live(c)'
  <2>1. Local(c) /\ Calm(c) /\ Own(c) /\ Live(c)
    BY DEF Inv
  <2>2. /\ Number(c)' = Number(c) /\ Converter(c)' = Converter(c) /\ Built(c)' = Built(c)
        /\ Busy(c)' = Busy(c) /\ Begun(c)' = Begun(c)
    <3>1. Number(c)' = Number(c) /\ Converter(c)' = Converter(c)
      BY <1>1 DEF Number, Converter
    <3> QED
      BY <1>1, <3>1 DEF Built, Busy, Begun
  <2>3. NumberLocal(c)'
    <3>1. NumberLocal(c)
      BY <2>1 DEF Local
    <3> QED
      BY <1>1, <2>2, <3>1 DEF NumberLocal
  <2>4. Local(c)'
    BY <1>1, <2>1, <2>2, <2>3 DEF Local
  <2>5. Calm(c)'
    <3>1. ~Races(id[c])' => ~Races(id[c])
      BY <1>1 DEF Races
    <3>2. CASE ~Active(c)
      BY <1>1, <3>2 DEF Calm, Active
    <3>3. CASE Active(c) /\ Races(id[c])'
      BY <3>3 DEF Calm
    <3>4. CASE Active(c) /\ ~Races(id[c])
      <4>1. NumberAt(pc[c], j[c], ch[c], id[c], next[c], Number(c), Built(c), numbuf[Converter(c)], tmp_buf)
        BY <2>1, <3>4 DEF Calm, OwnNumber
      <4>2. NumberAt(pc'[c], j'[c], ch'[c], id'[c], next'[c], Number(c)', Built(c)',
                     numbuf'[Converter(c)'], tmp_buf')
        BY <1>1, <2>2, <4>1
      <4>3. OwnLength(c)'
        BY <1>1, <2>1, <2>2, <3>4 DEF Calm, OwnLength
      <4> QED
        BY <4>2, <4>3, CalmBy
    <3> QED
      BY <3>1, <3>2, <3>3, <3>4
  <2>6. Own(c)'
    BY <1>1, <2>1 DEF Own, OwnText, Active, Alone, Conflict, Right
  <2>7. Live(c)'
    BY <1>1, <2>1 DEF Live, LiveText, Active
  <2> QED
    BY <2>4, <2>5, <2>6, <2>7
<1> QED
  BY <1>2, <1>3, <1>4, <1>5, <1>6 DEF Inv

LEMMA InvKept ==
    ASSUME Inv, [Next]_vars
    PROVE  Inv'
<1>1. CASE UNCHANGED vars
  BY <1>1, InvStays
<1>2. ASSUME NEW c \in Callers, Call(c) \/ Step(c), ~UNCHANGED vars PROVE Inv'
  <2>1. TypeOK' /\ Frame(c)
    BY <1>2, StepFrame
  <2>2. \A d \in Callers : d # c => Local(d)' /\ Calm(d)' /\ Own(d)' /\ Live(d)'
    BY <2>1, OtherLocal, OtherCalm, OtherOwn, OtherLive
  <2>3. NumberInv'
    BY <2>1, NumberInvKept
  <2>4. CASE Step(c)
    <3>1. CallInv' /\ LockInv' /\ OwnDone' /\ LiveDone'
      BY <2>1, <2>4, CallInvKept, LockKept, DoneKept
    <3>2. Local(c)' /\ Calm(c)' /\ Own(c)' /\ Live(c)'
      <4>1. CASE Convert(c)
        BY <2>1, <4>1, DivideOwn, TurnLoadOwn, TurnStoreOwn, EndNumberOwn, LowerLoadOwn,
           LowerStoreOwn DEF Convert
      <4>2. CASE ~Convert(c)
        BY <2>1, <2>4, <4>2, CopyCharOwn, MeasureOwn, FetchOwn, PutDigitOwn, TerminateOwn,
           AcquireOwn, StoreOwn, ReleaseOwn DEF Step
      <4> QED
        BY <4>1, <4>2
    <3> QED
      BY <2>1, <2>2, <2>3, <3>1, <3>2 DEF Inv
  <2>5. CASE Call(c)
    <3>1. PICK f \in Functions, ps \in Seq(Piece) : pc[c] = "idle" /\ Begin(c, f, ps)
      BY <1>2, <2>5, CallBegins DEF Inv
    <3>2. Enters(f, ps)
      BY <3>1, BeginFrame DEF Inv
    <3>3. pc'[c] = "format"
      BY <3>1 DEF Begin, Inv, TypeOK
    <3>4. CallInv' /\ LockInv' /\ OwnDone' /\ LiveDone'
      BY <2>1, <3>1, <3>2, <3>3, CallInvKept, LockKept, DoneKept
    <3>5. Local(c)' /\ Calm(c)' /\ Own(c)' /\ Live(c)'
      BY <2>1, <3>1, <3>2, BeginOwn
    <3> QED
      BY <2>1, <2>2, <2>3, <3>4, <3>5 DEF Inv
  <2> QED
    BY <1>2, <2>4, <2>5
<1> QED
  BY <1>1, <1>2 DEF Next, Halted

-----------------------------------------------------------------------------
\* The inductive invariant holds of every behaviour: where each call stands, which calls
\* know of one another, that tmp_buf ends in a terminator whoever writes it, and what the
\* buffers and the stream hold of each call.
THEOREM PrintkInvariant == Spec => []Inv
BY InitInv, InvKept, PTL DEF Spec

\* The text of a finished call is a stretch of the stream.
LEMMA TextIs ==
    ASSUME Inv, NEW n \in DOMAIN log, log[n].upto > 0
    PROVE  /\ log[n].from \in Nat /\ log[n].upto \in Nat
           /\ Len(Text(n)) = log[n].upto - log[n].from
           /\ \A k \in DOMAIN Text(n) :
                 /\ k \in 1 .. log[n].upto - log[n].from
                 /\ Text(n)[k] = stream[log[n].from + k]
                 /\ log[n].from + k \in log[n].from + 1 .. log[n].upto
<1> DEFINE from == log[n].from
           upto == log[n].upto
<1>1. from \in Nat /\ upto \in Nat /\ from <= upto /\ upto <= Len(stream)
  <2>1. log[n] \in LogEntry
    BY DEF Inv, TypeOK
  <2> QED
    BY <2>1 DEF LogEntry, Inv, LockInv
<1>2. stream \in Seq(Char)
  BY DEF Inv, TypeOK
<1>3. Text(n) = SubSeq(stream, from + 1, upto)
  BY DEF Text
<1> HIDE DEF from, upto
<1>4. \A m \in from + 1 .. upto : stream[m] \in Char
  BY <1>1, <1>2
<1>5. /\ Text(n) \in Seq(Char) /\ Len(Text(n)) = IF from + 1 <= upto THEN upto - (from + 1) + 1 ELSE 0
      /\ \A m \in 1 .. upto - (from + 1) + 1 : Text(n)[m] = stream[(from + 1) + m - 1]
  BY <1>1, <1>3, <1>4, SubSeqProperties
<1>6. DOMAIN Text(n) = 1 .. Len(Text(n)) /\ Len(Text(n)) = upto - from
  BY <1>1, <1>5
<1>7. ASSUME NEW k \in DOMAIN Text(n)
      PROVE  k \in 1 .. upto - from /\ Text(n)[k] = stream[from + k] /\ from + k \in from + 1 .. upto
  BY <1>1, <1>5, <1>6
<1> QED
  BY <1>1, <1>6, <1>7 DEF from, upto

\* A call that overlaps no call it shares a buffer with appears on the stream as it was
\* formatted, letters included, cut to the buffer, for any number of calls and of CPUs.
THEOREM UndisturbedShown == Spec => []UndisturbedIsShown
<1>1. Inv => UndisturbedIsShown
  <2> SUFFICES ASSUME Inv, NEW n \in DOMAIN log, log[n].upto > 0, Alone(n)
               PROVE  /\ Len(Text(n)) = Cut(log[n].total)
                      /\ \A k \in DOMAIN Text(n) : Right(Text(n)[k], n, k)
    BY DEF UndisturbedIsShown, Finished, Alone
  <2> DEFINE from == log[n].from
             cut == Cut(log[n].total)
  <2>1. log[n].upto = from + cut /\ \A k \in 1 .. cut : Right(stream[from + k], n, k)
    BY DEF Inv, OwnDone
  <2>2. from \in Nat /\ cut \in Nat
    <3>1. log[n] \in LogEntry
      BY DEF Inv, TypeOK
    <3>2. from \in Nat /\ log[n].total \in Nat
      BY <3>1 DEF LogEntry
    <3> QED
      BY <3>2, BuffersAssumption DEF Cut
  <2>3. log[n].upto - from = cut
    <3> HIDE DEF from, cut
    <3> QED
      BY <2>1, <2>2
  <2> QED
    BY <2>1, <2>3, TextIs
<1> QED
  BY <1>1, PrintkInvariant, PTL

\* What a call prints that is neither its own nor of a call that wrote its kbuf meanwhile
\* comes of two conversions that met: no other text that is left over in the buffers
\* reaches the stream.
THEOREM StaleByRaceOnly == Spec => []StaleOnlyByRace
<1>1. Inv => StaleOnlyByRace
  <2> SUFFICES ASSUME Inv, NEW n \in DOMAIN log, log[n].upto > 0, NEW k \in DOMAIN Text(n)
               PROVE  \/ Text(n)[k] = NUL
                      \/ Text(n)[k].call \in Sharers(n)
                      \/ Text(n)[k].asked # "text" /\ \E m \in Sharers(n) : Races(m)
    BY DEF StaleOnlyByRace, Finished
  <2>1. FairIn(log, n, Text(n)[k])
    <3>1. \A m \in log[n].from + 1 .. log[n].upto : FairIn(log, n, stream[m])
      BY DEF Inv, LiveDone
    <3> QED
      BY <3>1, TextIs
  <2> QED
    BY <2>1 DEF FairIn, Sharers, Races
<1> QED
  BY <1>1, PrintkInvariant, PTL

\* Whoever overwrites what, a conversion's loops end inside tmp_buf and its copy fits.
THEOREM ConversionsInside == Spec => []ConversionsStayInside
<1>1. Inv => ConversionsStayInside
  <2> SUFFICES ASSUME Inv, NEW c \in Callers
               PROVE  /\ pc[c] \in {"lower", "lowered", "measure"} => j[c] <= MaxDigits
                      /\ pc[c] \in {"fetch", "put"} => 1 <= l[c] /\ o[c] + (l[c] - j[c]) < KbufSize
    BY DEF ConversionsStayInside
  <2>1. NumberLocal(c) /\ j[c] \in Nat /\ l[c] \in Nat /\ o[c] \in Nat
    BY CallTypes, Sizes DEF Inv, Local
  <2>2. pc[c] \in Scanning => j[c] <= MaxDigits
    BY <2>1 DEF NumberLocal
  <2>3. pc[c] \in Copying => j[c] < l[c] /\ o[c] + (l[c] - j[c]) <= Room1
    BY <2>1 DEF NumberLocal
  <2>4. pc[c] \in Copying => 1 <= l[c] /\ o[c] + (l[c] - j[c]) < KbufSize
    BY <2>1, <2>3, BuffersAssumption DEF Room1
  <2> QED
    BY <2>2, <2>4 DEF Scanning, Copying
<1> QED
  BY <1>1, PrintkInvariant, PTL
=============================================================================
