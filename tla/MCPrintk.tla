------------------------------ MODULE MCPrintk ------------------------------
(* Two callers of printk and logk for TLC: two calls, or three of fewer formats. *)
EXTENDS Printk, TLC

CONSTANTS c1, c2    \* callers

\* Nothing; two digits, which together with the tag of logk fill the buffer; %x of 0xA
\* behind a character, which does not fit; and a negative number of two characters.
MCFormats ==
    {<<>>,
     <<[conv |-> "u", len |-> 1, letters |-> {}], [conv |-> "d", len |-> 1, letters |-> {}]>>,
     <<[conv |-> "char", len |-> 1, letters |-> {}], [conv |-> "x", len |-> 3, letters |-> {3}]>>,
     <<[conv |-> "d", len |-> 2, letters |-> {}]>>,
     <<[conv |-> "X", len |-> 3, letters |-> {3}]>>}

\* For three calls: a digit, and 0xA.
ShortFormats ==
    {<<[conv |-> "d", len |-> 1, letters |-> {}]>>,
     <<[conv |-> "X", len |-> 3, letters |-> {3}]>>}

\* No prefix, a level that is dropped, a prefix without digits, and one that overflows.
MCPrefixes ==
    {[open |-> FALSE, digits |-> <<>>, closed |-> FALSE],
     [open |-> TRUE, digits |-> <<7>>, closed |-> TRUE],
     [open |-> TRUE, digits |-> <<>>, closed |-> TRUE],
     [open |-> TRUE, digits |-> <<1, 6>>, closed |-> TRUE]}

Callers2 == Permutations({c1, c2})
=============================================================================
