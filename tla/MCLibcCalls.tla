---------------------------- MODULE MCLibcCalls ----------------------------
(* Words of 4 bytes, bytes of 2 bits, for TLC. *)
EXTENDS LibcCalls

SeqsUpTo(S, k) == UNION {[1 .. j -> S] : j \in 0 .. k}

\* Strings that end in the first word, in the second, and at the boundary between them.
MCStrings == SeqsUpTo({1, 3}, 6)

\* Strings of one character but for one place, so that two of them share a beginning.
MCPairs == {w \in SeqsUpTo({1, 3}, 5) : Cardinality({k \in DOMAIN w : w[k] = 3}) <= 1}

MCSizes == {0, 1, 3, 4, 5, 7, 9}
MCSetSizes == 0 .. 130
=============================================================================
