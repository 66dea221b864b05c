----------------------------- MODULE LibcString -----------------------------
(***************************************************************************)
(* The string functions of libs/libc/string.c as operators on memory.      *)
(*                                                                         *)
(* Most of them go by words: bytes until a pointer is aligned, then words  *)
(* until one holds what is looked for, which a trick of bits finds out     *)
(* without a loop, then the bytes of that word.  Memory m maps addresses   *)
(* to bytes; a pointer is an address, and -1 is NULL.  A byte has ByteBits *)
(* bits and a word WordSize bytes, the one with the lowest address least.  *)
(***************************************************************************)
EXTENDS Integers, Sequences, FiniteSets, Bitwise

CONSTANTS ByteBits, WordSize

ASSUME WordAssumption == ByteBits \in Nat \ {0} /\ WordSize \in Nat /\ WordSize > 1

NULL == -1
Base == 2 ^ ByteBits

\* The number a word has of which every byte is b.
Every(b) ==
    LET sum[k \in 0 .. WordSize] == IF k = 0 THEN 0 ELSE sum[k - 1] * Base + b IN sum[WordSize]

Ones == Every(1)
Highs == Every(Base \div 2)
WordMax == Every(Base - 1)

MissesTopBug(w) ==
    (((w - Ones) % (WordMax + 1)) & (WordMax - w)) & (Highs \div Base) # 0

\* Some byte of a word is 0.
HasZero(w) == (((w - Ones) % (WordMax + 1)) & (WordMax - w)) & Highs # 0

WordAt(m, a) ==
    LET sum[k \in 0 .. WordSize] == IF k = 0 THEN 0 ELSE sum[k - 1] * Base + m[a + WordSize - k]
    IN  sum[WordSize]

Aligned(a) == a % WordSize = 0

\* The least number from low on that a loop stops at.
First(low, Stop(_)) ==
    CHOOSE k \in low .. low + 100 : Stop(k) /\ \A j \in low .. k - 1 : ~Stop(j)

\* The first aligned word from a on that the bits say holds a byte c or a NUL.
WordWith(m, a, c) ==
    First(a, LAMBDA j : Aligned(j - a) /\ (HasZero(WordAt(m, j)) \/ HasZero(WordAt(m, j) ^^ Every(c))))

-----------------------------------------------------------------------------
strlen(m, s) ==
    LET p == First(s, LAMBDA k : Aligned(k) \/ m[k] = 0) IN
    IF ~Aligned(p) THEN p - s
    ELSE LET word == First(p, LAMBDA j : Aligned(j) /\ HasZero(WordAt(m, j)))
         IN  First(word, LAMBDA k : m[k] = 0) - s

strchr(m, s, c) ==
    LET p == First(s, LAMBDA k : Aligned(k) \/ m[k] \in {c, 0})
        at == IF ~Aligned(p) THEN p
              ELSE First(WordWith(m, p, c), LAMBDA k : m[k] \in {c, 0})
    IN  IF m[at] = c THEN at ELSE NULL

Last(S) == IF S = {} THEN NULL ELSE CHOOSE k \in S : \A j \in S : j <= k

\* In a word without NUL every match counts, in the last one those before the NUL;
\* the terminator itself is never found.
strrchr(m, s, c) ==
    LET p == First(s, LAMBDA k : Aligned(k) \/ m[k] = 0)
        word == First(p, LAMBDA j : Aligned(j) /\ HasZero(WordAt(m, j)))
        end == IF ~Aligned(p) THEN p ELSE First(word, LAMBDA k : m[k] = 0)
    IN  Last({k \in s .. end - 1 :
                 /\ m[k] = c
                 /\ k < p \/ k >= word \/ HasZero(WordAt(m, k - (k % WordSize)) ^^ Every(c))})

\* The last n bytes of size, looked at one by one.
ByteIn(m, s, n, c) ==
    LET k == First(s, LAMBDA a : a = s + n \/ m[a] = c) IN IF k = s + n THEN NULL ELSE k

memchr(m, s, c, n) ==
    IF n < WordSize THEN ByteIn(m, s, n, c)
    ELSE LET p == First(s, LAMBDA k : Aligned(k) \/ k = s + n \/ m[k] = c)
             left == n - (p - s)
             word == First(p, LAMBDA j : Aligned(j - p)
                                         /\ (n - (j - s) < WordSize \/ HasZero(WordAt(m, j) ^^ Every(c))))
         IN  IF ~Aligned(p) THEN ByteIn(m, p, left, c)
             ELSE ByteIn(m, word, n - (word - s), c)

\* The loop over the haystack; a needle of one character is left to strchr.
strstr(m, h, needle) ==
    IF m[needle] = 0 THEN h
    ELSE IF m[needle + 1] = 0 THEN strchr(m, h, m[needle])
    ELSE LET Common(a) == First(0, LAMBDA k : m[a + k] = 0 \/ m[needle + k] = 0 \/ m[a + k] # m[needle + k])
             at == First(h, LAMBDA a : m[a] = 0 \/ m[needle + Common(a)] = 0)
         IN  IF m[at] = 0 THEN NULL ELSE at

-----------------------------------------------------------------------------
\* Where the bytes of a pair of words differ, or where the first of them ends.
Differ(m, a, b) == First(0, LAMBDA i : i = WordSize \/ m[a + i] # m[b + i])
DifferOrEnd(m, a, b) == First(0, LAMBDA i : i = WordSize \/ m[a + i] # m[b + i] \/ m[a + i] = 0)

strcmp(m, s1, s2) ==
    LET h == First(0, LAMBDA k : Aligned(s1 + k) \/ m[s1 + k] = 0 \/ m[s2 + k] = 0 \/ m[s1 + k] # m[s2 + k])
        a == s1 + h
        b == s2 + h
        j == First(0, LAMBDA k : Aligned(k) /\ (WordAt(m, a + k) # WordAt(m, b + k) \/ HasZero(WordAt(m, a + k))))
        i == j + DifferOrEnd(m, a + j, b + j)
    IN  IF m[a] = 0 \/ m[b] = 0 THEN m[a] - m[b]
        ELSE IF WordAt(m, a + j) = WordAt(m, b + j) THEN 0
        ELSE m[a + i] - m[b + i]

\* Words that differ are compared byte by byte with no look at the terminator.
strncmp(m, s1, s2, n) ==
    LET h == First(0, LAMBDA k : Aligned(s1 + k) \/ k = n
                                 \/ m[s1 + k] = 0 \/ m[s2 + k] = 0 \/ m[s1 + k] # m[s2 + k])
        a == s1 + h
        b == s2 + h
        left == n - h
        j == First(0, LAMBDA k : Aligned(k) /\ (left - k < WordSize
                                                \/ WordAt(m, a + k) # WordAt(m, b + k)
                                                \/ HasZero(WordAt(m, a + k))))
        i == First(j, LAMBDA k : k = left \/ m[a + k] # m[b + k] \/ m[a + k] = 0)
    IN  IF n = 0 \/ left = 0 THEN 0
        ELSE IF m[a] = 0 \/ m[b] = 0 THEN m[a] - m[b]
        ELSE IF left - j < WordSize THEN IF i = left THEN 0 ELSE m[a + i] - m[b + i]
        ELSE IF WordAt(m, a + j) = WordAt(m, b + j) THEN 0
        ELSE LET x == j + Differ(m, a + j, b + j) IN m[a + x] - m[b + x]

memcmp(m, s1, s2, n) ==
    LET h == First(0, LAMBDA k : k = n \/ Aligned(s1 + k) \/ Aligned(s2 + k) \/ m[s1 + k] # m[s2 + k])
        left == n - h
        j == IF Aligned(s1 + h) /\ Aligned(s2 + h)
             THEN First(0, LAMBDA k : Aligned(k) /\ (left - k < WordSize
                                                     \/ WordAt(m, s1 + h + k) # WordAt(m, s2 + h + k)))
             ELSE 0
        i == First(h + j, LAMBDA k : k = n \/ m[s1 + k] # m[s2 + k])
    IN  IF i = n THEN 0 ELSE IF m[s1 + i] < m[s2 + i] THEN -1 ELSE 1

-----------------------------------------------------------------------------
\* Memory after len bytes were copied from s to d.
Moved(m, d, s, len) ==
    [a \in DOMAIN m |-> IF a >= d /\ a < d + len THEN m[s + (a - d)] ELSE m[a]]

\* Whole words are copied, the one with the terminator and what is behind it too.
strcpy(m, d, s) ==
    LET h == First(0, LAMBDA k : Aligned(d + k) \/ m[s + k] = 0)
        j == First(0, LAMBDA k : Aligned(k) /\ HasZero(WordAt(m, s + h + k)))
    IN  IF m[s + h] = 0 THEN [Moved(m, d, s, h) EXCEPT ![d + h] = 0]
        ELSE Moved(m, d, s, h + j + WordSize)

strcat(m, d, s) == strcpy(m, First(d, LAMBDA k : m[k] = 0), s)

NoPaddingBug(m, d, s, n) ==
    LET len == First(0, LAMBDA k : k = n \/ m[s + k] = 0) IN Moved(m, d, s, len)

strncpy(m, d, s, n) ==
    LET len == First(0, LAMBDA k : k = n \/ m[s + k] = 0)
        moved == Moved(m, d, s, len)
    IN  [a \in DOMAIN m |-> IF a >= d + len /\ a < d + n THEN 0 ELSE moved[a]]

Span(from, len) == from .. from + len - 1

\* The offsets memset writes: the ends byte by byte, then words of 4 from an aligned
\* address on, which overlap the ends and one another, then words of 8.
MemsetWrites(s, n) ==
    LET k == (-s) % 4
        m == (n - k) - ((n - k) % 4)
        k2 == 24 + ((s + k) % 8)
        rest == m - k2
        Ends(e) == Span(0, e) \cup Span(n - e, e)
    IN  IF n = 0 THEN {}
        ELSE IF n <= 2 THEN Ends(1)
        ELSE IF n <= 6 THEN Ends(3)
        ELSE IF n <= 8 THEN Ends(4)
        ELSE Ends(4) \cup Span(k, 4) \cup Span(k + m - 4, 4)
             \cup (IF m <= 8 THEN {} ELSE Span(k + 4, 8) \cup Span(k + m - 12, 8))
             \cup (IF m <= 24 THEN {}
                   ELSE Span(k + 12, 16) \cup Span(k + m - 28, 16)
                        \cup Span(k + k2, rest - (rest % 32)))

-----------------------------------------------------------------------------
KeepsDelimiterBug(m, str, delims) ==
    LET token == First(str, LAMBDA k : m[k] \notin delims)
        end == First(token, LAMBDA k : m[k] \in delims \cup {0})
    IN  IF str = NULL \/ m[token] = 0
        THEN [token |-> NULL, save |-> NULL, m |-> m]
        ELSE [token |-> token, save |-> IF m[end] = 0 THEN NULL ELSE end + 1, m |-> m]

\* One call of strtok: the token, or NULL, and what *saveptr is then.  A delimiter
\* that ends the token becomes NUL.
strtok(m, str, delims) ==
    LET token == First(str, LAMBDA k : m[k] \notin delims)
        end == First(token, LAMBDA k : m[k] \in delims \cup {0})
    IN  IF str = NULL \/ m[token] = 0
        THEN [token |-> NULL, save |-> NULL, m |-> m]
        ELSE [token |-> token,
              save |-> IF m[end] = 0 THEN NULL ELSE end + 1,
              m |-> [m EXCEPT ![end] = 0]]
=============================================================================
