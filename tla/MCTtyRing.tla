----------------------------- MODULE MCTtyRing -----------------------------
(* Small instances of TtyRing for TLC. *)
EXTENDS TtyRing

CONSTANTS c1, c2    \* callers
CONSTANTS a, b      \* printable characters

MCChar == {a, b, NL, NUL}

\* A message that fills the ring, lines, a line that ends inside a message, a NUL.
MCMessages == {<<a, b>>, <<b, NL, a>>, <<a, NUL, b, a>>}
=============================================================================
