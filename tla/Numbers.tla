------------------------------ MODULE Numbers ------------------------------
(***************************************************************************)
(* Calls of the conversions of Stdlib, one after the other, and what they  *)
(* must give, said without their loops and limits.                         *)
(*                                                                         *)
(* The text a caller passes to atoi or strtol is built from its parts, so  *)
(* that what it stands for is known and need not be found again.           *)
(***************************************************************************)
EXTENDS Stdlib

CONSTANTS
    Spaces,     \* the white space a text may begin with
    Digits,     \* sequences of the values of digits
    Tails,      \* what may follow the number
    Bases       \* the bases of itoa and uitoa

ASSUME BasesAssumption == Bases \subseteq Nat
ASSUME SpacesAssumption ==
    \A sp \in Spaces : sp \in Seq(STRING) /\ \A k \in DOMAIN sp : IsSpace(sp[k])
ASSUME DigitsAssumption == \A ds \in Digits : ds \in Seq(0 .. 35)
ASSUME TailsAssumption == \A tl \in Tails : tl \in Seq(STRING)

VARIABLES
    called,         \* the function called last, or "none"
    base,       \* the base of the number
    parts,      \* what the text passed to atoi or strtol was built from
    text,       \* the text that was passed or printed
    number,     \* the number that was returned or passed
    read        \* strtol: the characters before *endptr

calls == <<called, base, parts, text, number, read>>

NoParts == [space |-> <<>>, sign |-> <<>>, prefix |-> <<>>, digits |-> <<>>, tail |-> <<>>]

NumbersInit ==
    /\ called = "none" /\ base = 10
    /\ parts = NoParts /\ text = <<>>
    /\ number = 0 /\ read = 0

AsText(digits) == [k \in DOMAIN digits |-> Lower[digits[k] + 1]]

UpToTail(p) == p.space \o p.sign \o p.prefix \o AsText(p.digits)

\* A number of base b and what is around it.  The part after the sign may be
\* anything a number does not begin with.
Build(b, prefix) ==
    \E space \in Spaces, sign \in {<<>>, <<"+">>, <<"-">>}, digits \in Digits, tail \in Tails :
        /\ \A k \in DOMAIN digits : digits[k] < b
        /\ DigitValue(At(tail, 0)) >= b
        /\ sign \o prefix \o digits = <<>> => At(tail, 0) \notin {"+", "-"} /\ ~IsSpace(At(tail, 0))
        /\ parts' = [space |-> space, sign |-> sign, prefix |-> prefix,
                     digits |-> digits, tail |-> tail]
        /\ base' = b

CallAtoi ==
    /\ called = "none"
    /\ Build(10, <<>>)
    /\ text' = UpToTail(parts') \o parts'.tail
    /\ number' = Atoi(text')
    /\ called' = "atoi"
    /\ UNCHANGED read

Gives(result) == number' \in result.values /\ read' \in result.read

\* strtol with the base of the number, or with base 0 and a number that tells its base.
CallStrtol ==
    /\ called = "none"
    /\ \/ \E b \in Bases \cap 2 .. 36 :
             /\ Build(b, <<>>)
             /\ text' = UpToTail(parts') \o parts'.tail
             /\ Gives(Strtol(text', b))
       \/ \E known \in {<<8, <<"0">>>>, <<10, <<>>>>, <<16, <<"0", "x">>>>} :
             /\ Build(known[1], known[2])
             /\ text' = UpToTail(parts') \o parts'.tail
             /\ known[1] = 10 => \A k \in DOMAIN parts'.digits : parts'.digits[1] # 0
             /\ known[1] = 8 /\ parts'.digits = <<>> => At(parts'.tail, 0) \notin {"x", "X"}
             /\ Gives(Strtol(text', 0))
    /\ called' = "strtol"

CallItoa ==
    /\ called = "none"
    /\ \E value \in LongMin .. LongMax, b \in Bases :
          number' = value /\ base' = b /\ text' = Itoa(value, b)
    /\ called' = "itoa"
    /\ UNCHANGED <<parts, read>>

CallUitoa ==
    /\ called = "none"
    /\ \E value \in 0 .. 2 ^ LongBits - 1, b \in Bases :
          number' = value /\ base' = b /\ text' = Uitoa(value, b)
    /\ called' = "uitoa"
    /\ UNCHANGED <<parts, read>>

\* The result is used and the next call may come.
Used ==
    /\ called # "none"
    /\ called' = "none" /\ base' = 10
    /\ parts' = NoParts /\ text' = <<>>
    /\ number' = 0 /\ read' = 0

NumbersNext == CallAtoi \/ CallStrtol \/ CallItoa \/ CallUitoa \/ Used

NumbersSpec == NumbersInit /\ [][NumbersNext]_calls

-----------------------------------------------------------------------------
Power(b, e) ==
    LET power[k \in 0 .. e] == IF k = 0 THEN 1 ELSE power[k - 1] * b
    IN  power[e]

\* The number a sequence of digit values stands for.
Sum(digits, b) ==
    LET sum[k \in 0 .. Len(digits)] ==
            IF k = 0 THEN 0 ELSE sum[k - 1] + digits[k] * Power(b, Len(digits) - k)
    IN  sum[Len(digits)]

Exact == IF parts.sign = <<"-">> THEN -Sum(parts.digits, base) ELSE Sum(parts.digits, base)

Nearest(n, low, high) == IF n < low THEN low ELSE IF n > high THEN high ELSE n

\* Digits that have the magnitude of the least long: strtol's sum overflows there.
Overflows ==
    /\ parts.sign = <<"-">>
    /\ \E k \in DOMAIN parts.digits : Sum(SubSeq(parts.digits, 1, k), base) = LongMax + 1

\* atoi and strtol return the number written in the text, or the nearest one of
\* their type; *endptr is where the number ends, and the whole text if it was too
\* large (stdlib.c:38-48, string.c:665-704).  The least long, on its own or at the
\* beginning of more digits, is promised nothing: the sum overflows on the way.
ParsesValue ==
    /\ called = "atoi" => number = Nearest(Exact, IntMin, IntMax)
    /\ called = "strtol" /\ ~Overflows =>
          /\ number = Nearest(Exact, LongMin, LongMax)
          /\ read = IF number = Exact THEN Len(UpToTail(parts)) ELSE 0

\* What itoa and uitoa write is the number and nothing else, with no leading zero;
\* it fits the static buffer of LongBits + 4 characters (stdlib.c:58-100, 111-136).
PrintsValue ==
    called \in {"itoa", "uitoa"} /\ base \in 2 .. 36 =>
        LET sign == number < 0 /\ base = 10
            prefix == IF sign THEN <<"-">> ELSE BasePrefix(base)
            rest == SubSeq(text, Len(prefix) + 1, Len(text))
        IN
        /\ Len(text) <= LongBits + 4
        /\ SubSeq(text, 1, Len(prefix)) = prefix
        /\ rest # <<>>
        /\ rest[1] = "0" => rest = <<"0">>
        /\ Sum([k \in DOMAIN rest |-> DigitValue(rest[k])], base) =
               IF sign THEN -number ELSE number % 2 ^ LongBits
=============================================================================
