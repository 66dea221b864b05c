----------------------------- MODULE LibcCalls -----------------------------
(***************************************************************************)
(* Calls of the functions of LibcString, one at a time, on every placing   *)
(* of two strings in memory, and what the functions must do, said without  *)
(* words and alignment.                                                    *)
(***************************************************************************)
EXTENDS LibcString

CONSTANTS
    Strings,        \* strings for the functions that take one
    Pairs,          \* strings for the functions that take two
    Sizes,          \* the sizes for strncmp, strncpy, memchr and memcmp
    SetSizes,       \* the sizes for memset
    Region          \* the second string is in the second region of this size

ASSUME StringsAssumption == Strings \cup Pairs \subseteq Seq(1 .. Base - 1)
ASSUME SizesAssumption == Sizes \cup SetSizes \subseteq Nat /\ Region \in Nat
ASSUME RegionAssumption == Aligned(Region) /\ 2 * Region < 100

VARIABLES
    fn,             \* the function called last, or "none"
    m,              \* memory before the call
    s, t,           \* where the two strings are
    c, n,           \* a character, a size
    result,         \* what was returned
    after,          \* memory after the call
    save, tokens    \* strtok: *saveptr, and the tokens it has returned

memory == <<m, s, t, after>>
vars == <<fn, memory, c, n, result, save, tokens>>

\* Around the strings lie other bytes, which are not 0.
Memory(one, a, two, b) ==
    [k \in 0 .. 2 * Region - 1 |->
        IF k - a + 1 \in DOMAIN one THEN one[k - a + 1]
        ELSE IF k - b + 1 \in DOMAIN two THEN two[k - b + 1]
        ELSE IF k \in {a + Len(one), b + Len(two)} THEN 0
        ELSE 1 + (k % (Base - 1))]

Init ==
    /\ fn = "none"
    /\ m = [k \in 0 .. 2 * Region - 1 |-> 0] /\ after = m
    /\ s = 0 /\ t = Region /\ c = 0 /\ n = 0
    /\ result = 0
    /\ save = NULL /\ tokens = <<>>

Place(one, two) ==
    \E a \in 0 .. WordSize - 1, b \in 0 .. WordSize - 1 :
        /\ s' = a
        /\ t' = Region + b
        /\ m' = Memory(one, a, two, Region + b)

CallScan ==
    /\ fn = "none"
    /\ \E one \in Strings, a \in 0 .. WordSize - 1, ch \in 0 .. Base - 1 :
          /\ m' = Memory(one, a, <<>>, Region)
          /\ s' = a /\ t' = Region
          /\ c' = ch
          /\ after' = m'
          /\ \/ fn' = "strlen" /\ ch = 0 /\ result' = strlen(m', a) /\ UNCHANGED n
             \/ fn' = "strchr" /\ result' = strchr(m', a, ch) /\ UNCHANGED n
             \/ fn' = "strrchr" /\ result' = strrchr(m', a, ch) /\ UNCHANGED n
             \/ \E size \in Sizes :
                   fn' = "memchr" /\ n' = size /\ result' = memchr(m', a, ch, size)
          /\ UNCHANGED <<save, tokens>>

CallCompare ==
    /\ fn = "none"
    /\ \E one \in Pairs, two \in Pairs :
          /\ Place(one, two)
          /\ after' = m'
          /\ \/ fn' = "strcmp" /\ result' = strcmp(m', s', t') /\ UNCHANGED n
             \/ fn' = "strstr" /\ result' = strstr(m', s', t') /\ UNCHANGED n
             \/ \E size \in Sizes :
                   \/ fn' = "strncmp" /\ n' = size /\ result' = strncmp(m', s', t', size)
                   \/ fn' = "memcmp" /\ n' = size /\ result' = memcmp(m', s', t', size)
          /\ UNCHANGED <<c, save, tokens>>

\* The first string is copied to the second, or behind it.
CallCopy ==
    /\ fn = "none"
    /\ \E one \in Pairs, two \in Pairs :
          /\ Place(one, two)
          /\ \/ fn' = "strcpy" /\ after' = strcpy(m', t', s') /\ UNCHANGED n
             \/ fn' = "strcat" /\ after' = strcat(m', t', s') /\ UNCHANGED n
             \/ \E size \in Sizes :
                   fn' = "strncpy" /\ n' = size /\ after' = strncpy(m', t', s', size)
          /\ UNCHANGED <<c, result, save, tokens>>

CallMemset ==
    /\ fn = "none" /\ fn' = "memset"
    /\ s' \in 0 .. 7 /\ n' \in SetSizes
    /\ UNCHANGED <<m, t, c, result, after, save, tokens>>

Delims == {1, 2}

\* strtok with a string, and then with NULL until it returns NULL.
Strtok(mem, str) ==
    LET r == strtok(mem, str, Delims) IN
    /\ after' = r.m
    /\ save' = r.save
    /\ result' = r.token
    /\ tokens' = IF r.token = NULL THEN tokens ELSE Append(tokens, r.token)

CallStrtok ==
    /\ fn = "none" /\ fn' = "strtok"
    /\ \E one \in Strings, a \in 0 .. WordSize - 1 :
          /\ m' = Memory(one, a, <<>>, Region)
          /\ s' = a /\ t' = Region
          /\ Strtok(m', a)
    /\ UNCHANGED <<c, n>>

CallStrtokAgain ==
    /\ fn = "strtok" /\ result # NULL
    /\ Strtok(after, save)
    /\ UNCHANGED <<fn, m, s, t, c, n>>

\* The next call may come.
Used ==
    /\ fn # "none"
    /\ fn = "strtok" => result = NULL
    /\ fn' = "none"
    /\ m' = [k \in DOMAIN m |-> 0] /\ after' = m'
    /\ s' = 0 /\ t' = Region /\ c' = 0 /\ n' = 0
    /\ result' = 0
    /\ save' = NULL /\ tokens' = <<>>

Next ==
    \/ CallScan \/ CallCompare \/ CallCopy \/ CallMemset
    \/ CallStrtok \/ CallStrtokAgain \/ Used

Spec == Init /\ [][Next]_vars

-----------------------------------------------------------------------------
\* Where the string at an address ends, byte by byte.
End(mem, a) == CHOOSE k \in a .. a + Region : mem[k] = 0 /\ \A j \in a .. k - 1 : mem[j] # 0

Least(S) == IF S = {} THEN NULL ELSE CHOOSE k \in S : \A j \in S : k <= j
Greatest(S) == IF S = {} THEN NULL ELSE CHOOSE k \in S : \A j \in S : j <= k

\* The first place at which two strings, or n bytes of them, differ.
Difference(upto) == Least({k \in 0 .. upto : m[s + k] # m[t + k]})

ShorterEnd == LET x == End(m, s) - s
                  y == End(m, t) - t
              IN  IF x < y THEN x ELSE y

Sign(x) == IF x < 0 THEN -1 ELSE IF x > 0 THEN 1 ELSE 0

DiffersAt(k) == IF k = NULL THEN 0 ELSE m[s + k] - m[t + k]

Occurs(a) == \A k \in 0 .. End(m, t) - t - 1 : a + k < End(m, s) /\ m[a + k] = m[t + k]

\* Functions that only read return what their definition says, wherever in memory
\* the strings are (string.c:202-314, 345-471, 502-595).  Two differ from the C
\* standard and are stated as they are: strrchr never finds the terminator, and of
\* strncmp nothing is said where a word lies behind the end of two equal strings.
ReadsAgree ==
    /\ fn = "strlen" => result = End(m, s) - s
    /\ fn = "strchr" => result = Least({k \in s .. End(m, s) : m[k] = c})
    /\ fn = "strrchr" => result = Greatest({k \in s .. End(m, s) - 1 : m[k] = c})
    /\ fn = "memchr" => result = Least({k \in s .. s + n - 1 : m[k] = c})
    /\ fn = "strstr" => result = Least({a \in s .. End(m, s) : Occurs(a) /\ (End(m, t) > t => m[a] # 0)})
    /\ fn = "strcmp" => result = DiffersAt(Difference(ShorterEnd))
    /\ fn = "memcmp" => result = Sign(DiffersAt(Difference(n - 1)))
    /\ fn = "strncmp" =>
          LET upto == IF n - 1 < ShorterEnd THEN n - 1 ELSE ShorterEnd IN
          Difference(upto) # NULL \/ n < WordSize => result = DiffersAt(Difference(upto))

\* Functions that write give the destination what their definition says and change
\* nothing else, but that strcpy and strcat may overwrite what is left of a word
\* behind the terminator; memset writes every byte it should and no other
\* (string.c:68-130, 316-343, 473-500).
WritesAgree ==
    LET at == IF fn = "strcat" THEN End(m, t) ELSE t
        len == End(m, s) - s
        padded == [k \in 0 .. n - 1 |-> IF k < len THEN m[s + k] ELSE 0]
    IN
    /\ fn \in {"strcpy", "strcat"} =>
          /\ \A k \in 0 .. len : after[at + k] = m[s + k]
          /\ \A k \in DOMAIN m \ (at .. at + len + WordSize - 1) : after[k] = m[k]
    /\ fn = "strncpy" =>
          /\ \A k \in 0 .. n - 1 : after[t + k] = padded[k]
          /\ \A k \in DOMAIN m \ (t .. t + n - 1) : after[k] = m[k]
    /\ fn = "memset" => MemsetWrites(s, n) = 0 .. n - 1

\* Over its calls strtok returns the runs of characters that are no delimiters, each
\* once and in order, each ended by a NUL (string.c:707-748).
TokensAreRuns ==
    fn = "strtok" /\ result = NULL =>
        LET end == End(m, s)
            begins == {k \in s .. end - 1 :
                           m[k] \notin Delims /\ (k = s \/ m[k - 1] \in Delims)}
        IN
        /\ {tokens[k] : k \in DOMAIN tokens} = begins
        /\ \A k \in 1 .. Len(tokens) - 1 : tokens[k] < tokens[k + 1]
        /\ \A k \in begins : \A j \in k .. End(after, k) - 1 : m[j] \notin Delims /\ after[j] = m[j]
=============================================================================
