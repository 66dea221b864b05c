---------------------------- MODULE MCVsnprintk ----------------------------
(* Formats of up to two pieces, in buffers from none to more than enough, for TLC. *)
EXTENDS Vsnprintk

Conv(ch, longs) == [conversion |-> TRUE, longs |-> longs, ch |-> ch]
Copy(ch) == [conversion |-> FALSE, longs |-> 0, ch |-> ch]

Whole ==
    {Copy("a")}
    \cup {Conv(ch, 0) : ch \in Numeric \cup {"s", "c", "%", "?"}}
    \cup {Conv(ch, 1) : ch \in {"d", "x", "?"}}
    \cup {Conv(ch, 2) : ch \in {"i", "u", "X"}}

\* The last piece may lack its letter.
Open == {Conv("", longs) : longs \in 0 .. 2}

MCFormats ==
    {<<>>} \cup {<<a>> : a \in Whole \cup Open} \cup {<<a, b>> : a \in Whole, b \in Whole \cup Open}

\* Every letter of the formats and the arguments is among them.
MCChars ==
    {Upper[d] : d \in 1 .. 36} \cup {Lower[d] : d \in 1 .. 36} \cup {"", "%", "-", "(", ")", "?"}

Arg1(string, null, bits) == [string |-> string, null |-> null, ch |-> "c", bits |-> bits]

\* A string, none, and the empty one; 0, a number that is negative as an int, one that is
\* negative as a long, and the least long.
MCArguments ==
    LET A == {Arg1(<<"b", "d">>, FALSE, 13), Arg1(<<>>, TRUE, 0),
              Arg1(<<>>, FALSE, 16), Arg1(<<"b">>, FALSE, 27)}
    IN  {<<a, b>> : a \in A, b \in A}

MCBeyond == <<"z", "y">>
=============================================================================
