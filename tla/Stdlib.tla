------------------------------- MODULE Stdlib -------------------------------
(***************************************************************************)
(* The number conversions of libs/libc: itoa and uitoa, which print every  *)
(* number of the kernel's messages, and atoi and strtol.                   *)
(*                                                                         *)
(* They are pure, so they are operators.  A character is a string of one   *)
(* letter, a text the sequence of its characters without the NUL.  int has *)
(* IntBits bits, long and int64_t have LongBits.                           *)
(***************************************************************************)
EXTENDS Integers, Sequences

CONSTANTS IntBits, LongBits

ASSUME WidthsAssumption ==
    /\ IntBits \in Nat \ {0} /\ LongBits \in Nat /\ IntBits <= LongBits

IntMax == 2 ^ (IntBits - 1) - 1
IntMin == -IntMax - 1
LongMax == 2 ^ (LongBits - 1) - 1
LongMin == -LongMax - 1

Upper == <<"0", "1", "2", "3", "4", "5", "6", "7", "8", "9", "A", "B", "C", "D", "E", "F",
           "G", "H", "I", "J", "K", "L", "M", "N", "O", "P", "Q", "R", "S", "T", "U", "V",
           "W", "X", "Y", "Z">>
Lower == <<"0", "1", "2", "3", "4", "5", "6", "7", "8", "9", "a", "b", "c", "d", "e", "f",
           "g", "h", "i", "j", "k", "l", "m", "n", "o", "p", "q", "r", "s", "t", "u", "v",
           "w", "x", "y", "z">>

\* The digits of u >= 0, most significant first: the division loop and its reversal.
DigitsOf(u, base) ==
    LET text[n \in Nat] ==
            IF n < base THEN <<Upper[n + 1]>> ELSE Append(text[n \div base], Upper[(n % base) + 1])
    IN  text[u]

BasePrefix(base) ==
    IF base = 16 THEN <<"0", "x">> ELSE IF base = 8 THEN <<"0">> ELSE <<>>

ForgetsMinBug(value, base) ==
    IF base \notin 2 .. 36 THEN <<>>
    ELSE IF value < 0 /\ base = 10
         THEN <<"-">> \o DigitsOf(IF value = LongMin THEN LongMax ELSE -value, base)
         ELSE BasePrefix(base) \o DigitsOf(value % 2 ^ LongBits, base)

\* itoa: a sign in base 10 only; in another base a negative value is read as a
\* uint64_t.  A base it does not know gives the empty text.
Itoa(value, base) ==
    IF base \notin 2 .. 36 THEN <<>>
    ELSE IF value < 0 /\ base = 10 THEN <<"-">> \o DigitsOf(-value, base)
    ELSE BasePrefix(base) \o DigitsOf(value % 2 ^ LongBits, base)

\* uitoa
Uitoa(value, base) ==
    IF base \notin 2 .. 36 THEN <<>> ELSE BasePrefix(base) \o DigitsOf(value, base)

-----------------------------------------------------------------------------
\* The character after the first n ones; NUL, the end of the text, is "".
At(str, n) == IF n < Len(str) THEN str[n + 1] ELSE ""

\* White space; the vertical tab, which TLA+ strings lack, is left out.
IsSpace(ch) == ch \in {" ", "\t", "\n", "\r", "\f"}

\* Where the number begins, behind white space and a sign, and the sign.
Lead(str) ==
    LET spaces == CHOOSE n \in 0 .. Len(str) :
                      ~IsSpace(At(str, n)) /\ \A m \in 0 .. n - 1 : IsSpace(At(str, m))
    IN  [at |-> spaces + (IF At(str, spaces) \in {"-", "+"} THEN 1 ELSE 0),
         sign |-> IF At(str, spaces) = "-" THEN -1 ELSE 1]

DigitValue(ch) ==
    IF \E d \in 1 .. 36 : ch \in {Upper[d], Lower[d]}
    THEN (CHOOSE d \in 1 .. 36 : ch \in {Upper[d], Lower[d]}) - 1
    ELSE 36

\* The values of the digits of a base from a place on, up to the first other character.
Run(str, at, base) ==
    LET n == CHOOSE k \in 0 .. Len(str) - at :
                 /\ DigitValue(At(str, at + k)) >= base
                 /\ \A m \in 0 .. k - 1 : DigitValue(At(str, at + m)) < base
    IN  [k \in 1 .. n |-> DigitValue(str[at + k])]

\* The two things that can become of the sum of the digits.
Saturated == -1
Undefined == -2

AtoiLimit(result, d) ==
    result > IntMax \div 10 \/ (result = IntMax \div 10 /\ d > IntMax % 10)

\* atoi
Atoi(str) ==
    LET lead == Lead(str)
        ds == Run(str, lead.at, 10)
        result[k \in 0 .. Len(ds)] ==
            IF k = 0 THEN 0
            ELSE IF result[k - 1] = Saturated \/ AtoiLimit(result[k - 1], ds[k]) THEN Saturated
            ELSE result[k - 1] * 10 + ds[k]
    IN  IF result[Len(ds)] = Saturated
        THEN IF lead.sign = 1 THEN IntMax ELSE IntMin
        ELSE lead.sign * result[Len(ds)]

\* The base of a number that is to tell its base, and where its digits begin.
Detected(str, at) ==
    IF At(str, at) # "0" THEN [base |-> 10, at |-> at]
    ELSE IF At(str, at + 1) \in {"x", "X"} THEN [base |-> 16, at |-> at + 2]
    ELSE [base |-> 8, at |-> at + 1]

\* cutoff and cutlim: the greatest magnitude, LongMax or -LongMin, divided by the base.
Magnitude(sign) == IF sign = 1 THEN LongMax ELSE LongMax + 1

IgnoresLastDigitBug(result, d, base, sign) == result > Magnitude(sign) \div base

StrtolLimit(result, d, base, sign) ==
    \/ result > Magnitude(sign) \div base
    \/ result = Magnitude(sign) \div base /\ d > Magnitude(sign) % base

\* strtol: the values it may return, and how many characters it read.  The sum is
\* a long, so that the magnitude of LongMin, which the limit lets through, overflows.
Strtol(str, base) ==
    LET lead == Lead(str)
        num == IF base = 0 THEN Detected(str, lead.at) ELSE [base |-> base, at |-> lead.at]
        ds == Run(str, num.at, num.base)
        result[k \in 0 .. Len(ds)] ==
            IF k = 0 THEN 0
            ELSE LET r == result[k - 1]
                     next == r * num.base + ds[k]
                 IN  IF r < 0 THEN r
                     ELSE IF StrtolLimit(r, ds[k], num.base, lead.sign) THEN Saturated
                     ELSE IF next > LongMax THEN Undefined
                     ELSE next
        final == result[Len(ds)]
    IN  [values |-> CASE final = Undefined -> LongMin .. LongMax
                      [] final = Saturated -> {IF lead.sign = 1 THEN LongMax ELSE LongMin}
                      [] OTHER -> {lead.sign * final},
         read |-> IF final = Saturated THEN {0}
                  ELSE IF final = Undefined THEN {0, num.at + Len(ds)}
                  ELSE {num.at + Len(ds)}]
=============================================================================
