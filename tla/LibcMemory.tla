----------------------------- MODULE LibcMemory -----------------------------
(***************************************************************************)
(* memcpy and memmove of libs/libc/string.c, step by step.                 *)
(*                                                                         *)
(* Both copy bytes until the destination is aligned, then words, if the    *)
(* source is aligned there too, then the bytes that are left.  memmove     *)
(* goes the way the regions overlap, and copies short ones by bytes.       *)
(* What a byte holds is the address it was at when the call began.         *)
(***************************************************************************)
EXTENDS Integers

CONSTANTS
    WordSize,       \* sizeof(uint64_t)
    Top             \* BOUND: the addresses are those below it

ASSUME WordSizeAssumption == WordSize \in Nat /\ WordSize > 1
ASSUME TopAssumption == Top \in Nat

VARIABLES
    mem,                \* the memory
    fn,                 \* the function
    dest, src, size,    \* its arguments
    d, s,               \* its pointers; going down, they are one above
    n,                  \* the bytes left
    down,               \* it goes down
    pc

call == <<fn, dest, src, size, down>>
vars == <<mem, call, d, s, n, pc>>

Address == 0 .. Top - 1

Aligned(a) == a % WordSize = 0

\* memmove copies less than this by bytes.
Short == 2 * WordSize

Disjoint(a, b, len) == a + len <= b \/ b + len <= a

\* Nothing has been called yet.  memcpy is not for regions that overlap, but for
\* one copied to itself.
Init ==
    /\ mem = [a \in Address |-> a]
    /\ fn \in {"memcpy", "memmove"}
    /\ size \in 0 .. Top
    /\ dest \in 0 .. Top - size /\ src \in 0 .. Top - size
    /\ fn = "memcpy" => Disjoint(dest, src, size) \/ dest = src
    /\ down = FALSE
    /\ d = dest /\ s = src /\ n = size
    /\ pc = "call"

Nothing == n = 0 \/ dest = src

ReturnAtOnce ==
    /\ pc = "call"
    /\ Nothing
    /\ pc' = "done"
    /\ UNCHANGED <<mem, call, d, s, n>>

\* memcpy, and memmove to a lower address, which go up.
GoUp ==
    /\ pc = "call"
    /\ ~Nothing
    /\ fn = "memcpy" \/ dest < src
    /\ pc' = IF fn = "memmove" /\ n < Short THEN "tail" ELSE "head"
    /\ UNCHANGED <<mem, call, d, s, n>>

AlwaysUpBug ==
    /\ pc = "call"
    /\ ~Nothing
    /\ fn = "memmove" /\ dest > src
    /\ pc' = IF n < Short THEN "tail" ELSE "head"
    /\ UNCHANGED <<mem, call, d, s, n>>

\* memmove to a higher address, from the end.
GoDown ==
    /\ pc = "call"
    /\ ~Nothing
    /\ fn = "memmove" /\ dest > src
    /\ down' = TRUE
    /\ d' = d + n /\ s' = s + n
    /\ pc' = IF n < Short THEN "tail" ELSE "head"
    /\ UNCHANGED <<mem, fn, dest, src, size, n>>

\* k bytes are read, written and left behind.
Copy(k) ==
    LET to == IF down THEN d - k ELSE d
        from == IF down THEN s - k ELSE s
    IN
    /\ mem' = [a \in Address |-> IF a >= to /\ a < to + k THEN mem[from + (a - to)] ELSE mem[a]]
    /\ d' = IF down THEN d - k ELSE d + k
    /\ s' = IF down THEN s - k ELSE s + k
    /\ n' = n - k

HeadByte ==
    /\ pc = "head"
    /\ n > 0 /\ ~Aligned(d)
    /\ Copy(1)
    /\ UNCHANGED <<call, pc>>

\* Words if the source is aligned as well.
HeadDone ==
    /\ pc = "head"
    /\ n = 0 \/ Aligned(d)
    /\ pc' = IF Aligned(s) THEN "words" ELSE "tail"
    /\ UNCHANGED <<mem, call, d, s, n>>

Word ==
    /\ pc = "words"
    /\ n >= WordSize
    /\ Copy(WordSize)
    /\ UNCHANGED <<call, pc>>

DropsTailBug ==
    /\ pc = "words"
    /\ n < WordSize
    /\ pc' = IF fn = "memmove" THEN "done" ELSE "tail"
    /\ UNCHANGED <<mem, call, d, s, n>>

WordsDone ==
    /\ pc = "words"
    /\ n < WordSize
    /\ pc' = "tail"
    /\ UNCHANGED <<mem, call, d, s, n>>

TailByte ==
    /\ pc = "tail"
    /\ n > 0
    /\ Copy(1)
    /\ UNCHANGED <<call, pc>>

Return ==
    /\ pc = "tail"
    /\ n = 0
    /\ pc' = "done"
    /\ UNCHANGED <<mem, call, d, s, n>>

Returned == pc = "done" /\ UNCHANGED vars

Next ==
    \/ ReturnAtOnce \/ GoUp \/ GoDown
    \/ HeadByte \/ HeadDone \/ Word \/ WordsDone \/ TailByte
    \/ Return \/ Returned

Spec == Init /\ [][Next]_vars

-----------------------------------------------------------------------------
TypeOK ==
    /\ mem \in [Address -> Address]
    /\ fn \in {"memcpy", "memmove"} /\ down \in BOOLEAN
    /\ size \in 0 .. Top /\ n \in 0 .. size
    /\ dest \in 0 .. Top - size /\ src \in 0 .. Top - size
    /\ d \in 0 .. Top /\ s \in 0 .. Top
    /\ pc \in {"call", "head", "words", "tail", "done"}

\* What the call copies to an address.
Wanted(a) == IF a >= dest /\ a < dest + size THEN src + (a - dest) ELSE a

\* When the call returns, the destination holds what the source held when it began,
\* however the two overlap, and no other byte has changed (string.c:36-66, 132-200).
CopyIsExact == pc = "done" => \A a \in Address : mem[a] = Wanted(a)

\* No byte is overwritten before it was read: the part of the source that is left
\* still holds what it held, whether bytes or words are copied and whichever way
\* (string.c:139-141, 168-170, 183-190).
SourceIsIntact ==
    pc \in {"head", "words", "tail"} =>
        \A k \in 0 .. n - 1 : LET a == IF down THEN s - 1 - k ELSE s + k IN mem[a] = a

\* A word is read and written at aligned addresses only (string.c:43-59, 152-154,
\* 183-185).
WordsAreAligned == [][Word => Aligned(d) /\ Aligned(s)]_vars
=============================================================================
