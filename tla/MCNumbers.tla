----------------------------- MODULE MCNumbers -----------------------------
(* Words of 5 and 7 bits, and numbers around their limits, for TLC. *)
EXTENDS Numbers

MCSpaces == {<<>>, <<"\t", " ">>}

\* Up to three digits: the limits of 16, 15, 64, 63 and of twice as much are among them.
MCDigits ==
    LET Few == {0, 1, 3, 4, 5, 6, 7, 15, 35}
    IN  {<<>>} \cup {<<a>> : a \in Few} \cup {<<a, b>> : a \in Few, b \in Few}
        \cup {<<a, b, c>> : a \in {0, 1, 6}, b \in {0, 6}, c \in {0, 4}}

MCTails == {<<>>, <<"?">>, <<" ", "1">>, <<"-", "1">>, <<"9">>, <<"x", "1">>}

MCBases == {0, 1, 2, 8, 10, 16, 36, 37}
=============================================================================
