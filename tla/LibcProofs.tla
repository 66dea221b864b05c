----------------------------- MODULE LibcProofs -----------------------------
(***************************************************************************)
(* memcpy and memmove copy exactly, for every word size, memory, pair of   *)
(* regions and alignment; atoi, strtol, itoa and uitoa read and write the  *)
(* number a text stands for, for every width, text, number and base.       *)
(*                                                                         *)
(* Copying: the part copied so far is the beginning of the destination, or *)
(* its end when the copy goes down; there memory holds what is wanted,     *)
(* everywhere else what it held.  The direction was chosen so that the     *)
(* part of the source that is left does not meet that part, so that what   *)
(* is read next is what was there.                                         *)
(*                                                                         *)
(* Reading: the parts a text was built from are found where they are, and  *)
(* the loop over the digits keeps the number the first of them stand for,  *)
(* until it is larger than the limit and can only grow.  Writing: the      *)
(* digits of a number are those of its quotient by the base and one more.  *)
(***************************************************************************)
EXTENDS LibcMemory, Numbers, Induction, SequenceTheorems, FiniteSetTheorems, FunctionTheorems, TLAPS

Active == {"head", "words", "tail"}

\* The part of the destination that is copied.
Copied(a) == IF down THEN a >= d /\ a < dest + size ELSE a >= dest /\ a < d

Contents == \A a \in Address : mem[a] = IF Copied(a) THEN src + (a - dest) ELSE a

Progress ==
    IF down THEN d = dest + n /\ s = src + n
    ELSE d = dest + (size - n) /\ s = src + (size - n)

\* The copy does not run into its own source.
RightWay == IF down THEN dest > src ELSE dest < src \/ Disjoint(dest, src, size)

ExactCopy == \A a \in Address : mem[a] = Wanted(a)

Inv ==
    /\ TypeOK
    /\ pc # "done" => Progress /\ Contents
    /\ pc \in Active => RightWay
    /\ pc = "call" => ~down /\ n = size /\ (fn = "memcpy" => Disjoint(dest, src, size) \/ dest = src)
    /\ pc = "done" => ExactCopy

\* The numbers of TypeOK.
LEMMA TypedNumbers ==
    ASSUME TypeOK
    PROVE  /\ Top \in Nat /\ size \in Nat /\ n \in Nat /\ dest \in Nat /\ src \in Nat
           /\ d \in Nat /\ s \in Nat
           /\ n <= size /\ dest + size <= Top /\ src + size <= Top /\ d <= Top /\ s <= Top
  BY TopAssumption DEF TypeOK

\* The part of the source that is left is not part of what was copied: what it holds
\* is what it held when the call began.
LEMMA SourceLeft ==
    ASSUME TypeOK, Progress, Contents, RightWay,
           NEW x \in Int,
           IF down THEN x >= src /\ x < s ELSE x >= s /\ x < s + n
    PROVE  x \in Address /\ mem[x] = x
<1>1. x \in Address
  BY TypedNumbers, TopAssumption DEF Progress, Address
<1>2. ~Copied(x)
  BY TypedNumbers DEF Progress, RightWay, Disjoint, Copied
<1> QED
  BY <1>1, <1>2 DEF Contents

\* A step that copies k bytes keeps the invariant.
LEMMA CopyKeeps ==
    ASSUME TypeOK, Progress, Contents, RightWay,
           NEW k \in Nat, k > 0, k <= n,
           Copy(k), UNCHANGED <<call, pc>>
    PROVE  TypeOK' /\ Progress' /\ Contents' /\ RightWay'
<1> DEFINE to == IF down THEN d - k ELSE d
           from == IF down THEN s - k ELSE s
<1> USE DEF call
<1>1. /\ mem' = [a \in Address |->
                    IF a >= to /\ a < to + k THEN mem[from + (a - to)] ELSE mem[a]]
      /\ d' = IF down THEN d - k ELSE d + k
      /\ s' = IF down THEN s - k ELSE s + k
      /\ n' = n - k
  BY DEF Copy
<1>2. /\ d' \in Nat /\ s' \in Nat /\ n' \in Nat
      /\ d' <= Top /\ s' <= Top /\ n' <= size
  BY <1>1, TypedNumbers DEF Progress
<1>3. Progress'
  BY <1>1, TypedNumbers DEF Progress
<1>4. RightWay'
  BY DEF RightWay, Disjoint
<1>5. ASSUME NEW a \in Address
      PROVE  mem'[a] \in Address /\ mem'[a] = IF Copied(a)' THEN src + (a - dest) ELSE a
  <2>0. a \in Int
    BY TopAssumption DEF Address
  <2>1. CASE a >= to /\ a < to + k
    <3>1. from + (a - to) \in Int
          /\ IF down THEN from + (a - to) >= src /\ from + (a - to) < s
             ELSE from + (a - to) >= s /\ from + (a - to) < s + n
      BY <2>0, <2>1, TypedNumbers DEF Progress
    <3>2. from + (a - to) \in Address /\ mem[from + (a - to)] = from + (a - to)
      BY <3>1, SourceLeft
    <3>3. mem'[a] = from + (a - to)
      BY <1>1, <2>1, <3>2
    <3>4. Copied(a)' /\ from + (a - to) = src + (a - dest)
      BY <1>1, <2>0, <2>1, TypedNumbers DEF Progress, Copied
    <3> QED
      BY <3>2, <3>3, <3>4
  <2>2. CASE ~(a >= to /\ a < to + k)
    <3>1. mem'[a] = mem[a]
      BY <1>1, <2>2
    <3>2. Copied(a)' = Copied(a)
      BY <1>1, <2>0, <2>2, TypedNumbers DEF Progress, Copied
    <3>3. mem[a] \in Address
      BY DEF TypeOK
    <3> QED
      BY <3>1, <3>2, <3>3 DEF Contents
  <2> QED
    BY <2>1, <2>2
<1>6. Contents'
  BY <1>5 DEF Contents
<1>7. mem' \in [Address -> Address]
  BY <1>1, <1>5
<1>8. TypeOK'
  BY <1>2, <1>7, TopAssumption, TypedNumbers DEF TypeOK
<1> QED
  BY <1>3, <1>4, <1>6, <1>8

LEMMA InitInv == Init => Inv
<1> SUFFICES ASSUME Init PROVE Inv
  OBVIOUS
<1>1. mem = [a \in Address |-> a] /\ ~down /\ pc = "call"
      /\ d = dest /\ s = src /\ n = size
  BY DEF Init
<1>2. TypeOK
  <2>1. mem \in [Address -> Address]
    BY <1>1
  <2>2. /\ size \in 0 .. Top /\ n \in 0 .. size
        /\ dest \in 0 .. Top - size /\ src \in 0 .. Top - size
        /\ d \in 0 .. Top /\ s \in 0 .. Top
    BY TopAssumption DEF Init
  <2> QED
    BY <2>1, <2>2 DEF Init, TypeOK
<1>3. Progress
  BY <1>1, <1>2, TypedNumbers DEF Progress
<1>4. Contents
  BY <1>1, <1>2, TypedNumbers, TopAssumption DEF Contents, Copied, Address
<1> QED
  BY <1>1, <1>2, <1>3, <1>4 DEF Inv, Init, Active

LEMMA NextInv == Inv /\ [Next]_vars => Inv'
<1> SUFFICES ASSUME Inv, [Next]_vars PROVE Inv'
  OBVIOUS
<1> USE DEF call, Active
<1>0. TypeOK
  BY DEF Inv
<1>1. CASE ReturnAtOnce
  <2>1. pc = "call" /\ pc' = "done" /\ UNCHANGED <<mem, call, d, s, n>>
    BY <1>1 DEF ReturnAtOnce
  <2>2. ExactCopy
    BY <1>0, <1>1, <2>1, TypedNumbers, TopAssumption
       DEF Inv, ReturnAtOnce, Nothing, Progress, Contents, Copied, ExactCopy, Wanted, Address
  <2>3. TypeOK' /\ ExactCopy'
    BY <1>0, <2>1, <2>2 DEF TypeOK, ExactCopy, Wanted
  <2> QED
    BY <2>1, <2>3 DEF Inv
<1>2. CASE GoUp
  <2>1. /\ pc = "call" /\ pc' \in Active
        /\ UNCHANGED <<mem, call, d, s, n>>
    BY <1>2 DEF GoUp
  <2>2. TypeOK' /\ Progress' /\ Contents'
    BY <1>0, <2>1 DEF Inv, TypeOK, Progress, Contents, Copied
  <2>3. RightWay'
    BY <1>0, <1>2, <2>1 DEF Inv, GoUp, Nothing, RightWay, Disjoint
  <2> QED
    BY <2>1, <2>2, <2>3 DEF Inv
<1>3. CASE GoDown
  <2>1. /\ pc = "call" /\ pc' \in Active /\ ~down /\ down' = TRUE
        /\ n = size /\ d' = d + n /\ s' = s + n /\ dest > src
        /\ UNCHANGED <<mem, fn, dest, src, size, n>>
    BY <1>3 DEF GoDown, Inv
  <2>2. d = dest /\ s = src
    BY <1>0, <2>1, TypedNumbers DEF Inv, Progress
  <2>3. TypeOK'
    BY <1>0, <2>1, <2>2, TypedNumbers DEF TypeOK
  <2>4. Progress' /\ RightWay'
    BY <1>0, <2>1, <2>2, TypedNumbers DEF Progress, RightWay
  <2>5. \A a \in Address : ~Copied(a) /\ ~Copied(a)'
    BY <1>0, <2>1, <2>2, TypedNumbers, TopAssumption DEF Copied, Address
  <2>6. Contents'
    BY <2>1, <2>5 DEF Inv, Contents
  <2> QED
    BY <2>1, <2>3, <2>4, <2>6 DEF Inv
<1>4. CASE HeadByte
  <2>1. pc \in Active /\ n > 0 /\ Copy(1) /\ UNCHANGED <<call, pc>>
    BY <1>4 DEF HeadByte
  <2> QED
    BY <1>0, <2>1, CopyKeeps, TypedNumbers DEF Inv
<1>5. CASE HeadDone
  <2>1. pc \in Active /\ pc' \in Active /\ UNCHANGED <<mem, call, d, s, n>>
    BY <1>5 DEF HeadDone
  <2> QED
    BY <1>0, <2>1 DEF Inv, TypeOK, Progress, Contents, Copied, RightWay, Disjoint
<1>6. CASE Word
  <2>1. pc \in Active /\ n >= WordSize /\ Copy(WordSize) /\ UNCHANGED <<call, pc>>
    BY <1>6 DEF Word
  <2> QED
    BY <1>0, <2>1, CopyKeeps, TypedNumbers, WordSizeAssumption DEF Inv
<1>7. CASE WordsDone
  <2>1. pc \in Active /\ pc' \in Active /\ UNCHANGED <<mem, call, d, s, n>>
    BY <1>7 DEF WordsDone
  <2> QED
    BY <1>0, <2>1 DEF Inv, TypeOK, Progress, Contents, Copied, RightWay, Disjoint
<1>8. CASE TailByte
  <2>1. pc \in Active /\ n > 0 /\ Copy(1) /\ UNCHANGED <<call, pc>>
    BY <1>8 DEF TailByte
  <2> QED
    BY <1>0, <2>1, CopyKeeps, TypedNumbers DEF Inv
<1>9. CASE Return
  <2>1. pc = "tail" /\ n = 0 /\ pc' = "done" /\ UNCHANGED <<mem, call, d, s, n>>
    BY <1>9 DEF Return
  <2>2. ExactCopy
    BY <1>0, <2>1, TypedNumbers, TopAssumption
       DEF Inv, Progress, Contents, Copied, ExactCopy, Wanted, Address
  <2>3. TypeOK' /\ ExactCopy'
    BY <1>0, <2>1, <2>2 DEF TypeOK, ExactCopy, Wanted
  <2> QED
    BY <2>1, <2>3 DEF Inv
<1>10. CASE UNCHANGED vars
  BY <1>0, <1>10 DEF Inv, vars, TypeOK, Progress, Contents, Copied, RightWay, Disjoint, ExactCopy, Wanted
<1>11. CASE Returned
  BY <1>10, <1>11 DEF Returned
<1> QED
  BY <1>1, <1>2, <1>3, <1>4, <1>5, <1>6, <1>7, <1>8, <1>9, <1>10, <1>11 DEF Next

LEMMA Invariance == Spec => []Inv
  BY InitInv, NextInv, PTL DEF Spec

\* The pointers stay in the memory and the count in the size, for every call
\* (string.c:36-66, 132-200).
THEOREM TypeCorrect == Spec => []TypeOK
<1>1. Inv => TypeOK
  BY DEF Inv
<1> QED
  BY <1>1, Invariance, PTL

\* memcpy and memmove return with the destination holding what the source held, and
\* nothing else changed (string.c:36-66, 132-200).
THEOREM Copies == Spec => []CopyIsExact
<1>1. Inv => CopyIsExact
  BY DEF Inv, CopyIsExact, ExactCopy
<1> QED
  BY <1>1, Invariance, PTL

\* Neither ever overwrites a byte it has still to read (string.c:139-198).
THEOREM SourceSurvives == Spec => []SourceIsIntact
<1>1. Inv => SourceIsIntact
  <2> SUFFICES ASSUME Inv, pc \in Active, NEW k \in 0 .. n - 1
               PROVE  LET a == IF down THEN s - 1 - k ELSE s + k IN mem[a] = a
    BY DEF SourceIsIntact, Active
  <2>1. TypeOK /\ Progress /\ Contents /\ RightWay
    BY DEF Inv, Active
  <2> DEFINE a == IF down THEN s - 1 - k ELSE s + k
  <2>2. a \in Int /\ IF down THEN a >= src /\ a < s ELSE a >= s /\ a < s + n
    BY <2>1, TypedNumbers DEF Progress
  <2> HIDE DEF a
  <2>3. mem[a] = a
    BY <2>1, <2>2, SourceLeft
  <2> QED
    BY <2>3 DEF a
<1> QED
  BY <1>1, Invariance, PTL
\* A word more or less leaves an aligned address aligned.
LEMMA Multiple == ASSUME NEW q \in Nat PROVE Aligned(WordSize * q)
  BY WordSizeAssumption DEF Aligned

LEMMA WordStep ==
    ASSUME NEW a \in Nat, Aligned(a)
    PROVE  Aligned(a + WordSize) /\ (a >= WordSize => Aligned(a - WordSize))
<1> DEFINE q == a \div WordSize
<1>1. q \in Nat /\ a = WordSize * q
  BY WordSizeAssumption DEF Aligned
<1> HIDE DEF q
<1>2. a + WordSize = WordSize * (q + 1)
  BY <1>1, WordSizeAssumption
<1>3. ASSUME a >= WordSize PROVE q - 1 \in Nat /\ a - WordSize = WordSize * (q - 1)
  BY <1>1, <1>3, WordSizeAssumption
<1> QED
  BY <1>1, <1>2, <1>3, Multiple

\* Where words are copied, both pointers are aligned unless nothing is left.
AtWords == pc = "words" => Aligned(s) /\ (n = 0 \/ Aligned(d))

LEMMA AtWordsInvariance == Spec => []AtWords
<1>1. Init => AtWords
  BY DEF Init, AtWords
<1>2. Inv /\ AtWords /\ [Next]_vars => AtWords'
  <2> SUFFICES ASSUME Inv, AtWords, [Next]_vars PROVE AtWords'
    OBVIOUS
  <2>1. CASE Word
    <3>1. /\ d' = IF down THEN d - WordSize ELSE d + WordSize
          /\ s' = IF down THEN s - WordSize ELSE s + WordSize
          /\ pc = "words" /\ n >= WordSize
      BY <2>1 DEF Word, Copy
    <3>2. /\ d \in Nat /\ s \in Nat /\ Aligned(d) /\ Aligned(s)
          /\ down => d >= WordSize /\ s >= WordSize
      BY <3>1, TypedNumbers, WordSizeAssumption DEF Inv, AtWords, Progress
    <3> QED
      BY <3>1, <3>2, WordStep DEF AtWords
  <2>2. CASE ~Word
    BY <2>2 DEF Next, vars, ReturnAtOnce, GoUp, GoDown, HeadByte, HeadDone, WordsDone,
                TailByte, Return, Returned, AtWords, Aligned, call
  <2> QED
    BY <2>1, <2>2
<1> QED
  BY <1>1, <1>2, Invariance, PTL DEF Spec

\* Words are read and written at aligned addresses only (string.c:43-59, 152-162,
\* 183-193).
THEOREM AlignedWords == Spec => WordsAreAligned
<1>1. AtWords /\ Inv /\ [Next]_vars => [Word => Aligned(d) /\ Aligned(s)]_vars
  BY TypedNumbers, WordSizeAssumption DEF AtWords, Inv, Word
<1> QED
  BY <1>1, AtWordsInvariance, Invariance, PTL DEF Spec, WordsAreAligned

-----------------------------------------------------------------------------
(* Numbers: division, powers, and the number a sequence of digits stands for. *)

\* Two sequences of values that begin alike and go on alike are alike.
LEMMA Agreement ==
    ASSUME NEW f, NEW g, NEW N \in Nat, f[0] = g[0],
           \A k \in 1 .. N : f[k - 1] = g[k - 1] => f[k] = g[k]
    PROVE  \A k \in 0 .. N : f[k] = g[k]
<1> DEFINE P == {k \in Nat : k <= N => f[k] = g[k]}
<1>1. 0 \in P
  OBVIOUS
<1>2. ASSUME NEW k \in Nat, k \in P PROVE k + 1 \in P
  <2> SUFFICES ASSUME k + 1 <= N PROVE f[k + 1] = g[k + 1]
    OBVIOUS
  <2>1. k + 1 \in 1 .. N /\ (k + 1) - 1 = k /\ f[k] = g[k]
    BY <1>2
  <2> QED
    BY <2>1
<1> HIDE DEF P
<1>3. \A k \in Nat : k \in P
  BY <1>1, <1>2, Induct
<1> QED
  BY <1>3 DEF P

LEMMA Quotient ==
    ASSUME NEW u \in Nat, NEW b \in Nat, b > 0
    PROVE  /\ u \div b \in Nat /\ u % b \in 0 .. b - 1
           /\ u = (u \div b) * b + (u % b)
OBVIOUS

\* The loops stop: a digit too many is one whose number is above the greatest.
LEMMA LimitMeans ==
    ASSUME NEW M \in Nat, NEW b \in Nat, b > 0, NEW r \in Nat, NEW x \in 0 .. b - 1
    PROVE  r > M \div b \/ (r = M \div b /\ x > M % b) <=> r * b + x > M
<1> DEFINE q == M \div b
           m == M % b
<1>1. q \in Nat /\ m \in 0 .. b - 1 /\ M = q * b + m
  BY Quotient
<1> HIDE DEF q, m
<1>2. CASE r = q
  BY <1>1, <1>2
<1>3. CASE r > q
  <2>1. PICK j \in Nat : r = q + 1 + j
    <3>1. r - (q + 1) \in Nat /\ r = q + 1 + (r - (q + 1))
      BY <1>1, <1>3
    <3> QED
      BY <3>1
  <2>2. r * b = q * b + b + j * b /\ j * b \in Nat /\ q * b \in Nat
    BY <1>1, <2>1
  <2>3. r * b + x > M
    BY <1>1, <2>2
  <2> QED
    BY <1>3, <2>3 DEF q
<1>4. CASE r < q
  <2>1. PICK j \in Nat : q = r + 1 + j
    <3>1. q - (r + 1) \in Nat /\ q = r + 1 + (q - (r + 1))
      BY <1>1, <1>4
    <3> QED
      BY <3>1
  <2>2. q * b = r * b + b + j * b /\ j * b \in Nat /\ r * b \in Nat
    BY <1>1, <2>1
  <2>3. ~(r * b + x > M)
    BY <1>1, <2>2
  <2> QED
    BY <1>1, <1>4, <2>3 DEF q, m
<1> QED
  BY <1>1, <1>2, <1>3, <1>4 DEF q, m

\* Power is what its recursion says.
LEMMA Powers ==
    ASSUME NEW b \in Nat
    PROVE  /\ Power(b, 0) = 1
           /\ \A e \in Nat : Power(b, e) \in Nat /\ Power(b, e + 1) = Power(b, e) * b
<1> DEFINE Eq(e, f) == f = [k \in 0 .. e |-> IF k = 0 THEN 1 ELSE f[k - 1] * b]
           p(e) == CHOOSE f : Eq(e, f)
           G(e) == [kv \in (1 .. e) \X Nat |-> kv[2] * b]
<1>1. ASSUME NEW e \in Nat PROVE \E f \in [0 .. e -> Nat] : Eq(e, f)
  <2>1. \A k \in 1 .. e, v \in Nat : G(e)[<<k, v>>] = v * b /\ v * b \in Nat
    OBVIOUS
  <2> DEFINE H == G(e)
             N == e
             one == 1
  <2> HIDE DEF G
  <2>2. Loop(N, Nat, one, H)
    BY <2>1 DEF Loop
  <2> HIDE DEF H, N, one
  <2>3. PICK f \in [0 .. N -> Nat] : f[0] = one /\ \A k \in 1 .. N : f[k] = H[<<k, f[k - 1]>>]
    BY <2>2, Iteration
  <2> USE DEF N, one
  <2>4. ASSUME NEW k \in 0 .. e PROVE f[k] = IF k = 0 THEN 1 ELSE f[k - 1] * b
    <3> SUFFICES ASSUME k # 0 PROVE f[k] = f[k - 1] * b
      BY <2>3
    <3>1. k \in 1 .. e /\ k - 1 \in 0 .. e
      OBVIOUS
    <3>2. f[k - 1] \in Nat
      BY <2>3, <3>1
    <3> QED
      BY <2>1, <2>3, <3>1, <3>2 DEF H
  <2>5. f = [k \in 0 .. e |-> f[k]]
    BY <2>3
  <2> QED
    BY <2>3, <2>4, <2>5
<1>2. ASSUME NEW e \in Nat PROVE Eq(e, p(e)) /\ Power(b, e) = p(e)[e]
  <2>1. Power(b, e) = p(e)[e]
    BY DEF Power
  <2>2. Eq(e, p(e))
    <3> HIDE DEF Eq
    <3> QED
      BY <1>1
  <2> QED
    BY <2>1, <2>2
<1> HIDE DEF p
<1>3. ASSUME NEW e \in Nat
      PROVE  p(e)[0] = 1 /\ \A k \in 1 .. e : p(e)[k] = p(e)[k - 1] * b
  <2>1. \A k \in 0 .. e : p(e)[k] = IF k = 0 THEN 1 ELSE p(e)[k - 1] * b
    BY <1>2
  <2> QED
    BY <2>1
<1>4. Power(b, 0) = 1
  BY <1>2, <1>3
<1>5. ASSUME NEW e \in Nat PROVE Power(b, e + 1) = Power(b, e) * b
  <2> DEFINE f == p(e)
             g == p(e + 1)
  <2>1. /\ f[0] = 1 /\ \A k \in 1 .. e : f[k] = f[k - 1] * b
        /\ g[0] = 1 /\ \A k \in 1 .. e + 1 : g[k] = g[k - 1] * b
    BY <1>3
  <2>2. Power(b, e) = f[e] /\ Power(b, e + 1) = g[e + 1]
    BY <1>2
  <2> HIDE DEF f, g
  <2>3. \A k \in 0 .. e : f[k] = g[k]
    <3>1. \A k \in 1 .. e : f[k - 1] = g[k - 1] => f[k] = g[k]
      BY <2>1
    <3> QED
      BY <2>1, <3>1, Agreement
  <2>4. f[e] = g[e] /\ g[e + 1] = g[e] * b
    BY <2>1, <2>3
  <2> QED
    BY <2>2, <2>4
<1>6. \A e \in Nat : Power(b, e) \in Nat
  <2> DEFINE P == {e \in Nat : Power(b, e) \in Nat}
  <2>1. 0 \in P
    BY <1>4
  <2>2. ASSUME NEW e \in Nat, e \in P PROVE e + 1 \in P
    BY <1>5, <2>2
  <2> HIDE DEF P
  <2>3. \A e \in Nat : e \in P
    BY <2>1, <2>2, Induct
  <2> QED
    BY <2>3 DEF P
<1> QED
  BY <1>4, <1>5, <1>6

\* The sums of the first digits.
SumsTo(f, ds, b) ==
    f[0] = 0 /\ \A k \in 1 .. Len(ds) : f[k] = f[k - 1] + ds[k] * Power(b, Len(ds) - k)

LEMMA SumOf ==
    ASSUME NEW b \in Nat, NEW ds, ds \in Seq(Nat)
    PROVE  \E f \in [0 .. Len(ds) -> Nat] : SumsTo(f, ds, b) /\ Sum(ds, b) = f[Len(ds)]
<1> DEFINE N == Len(ds)
           G == [kv \in (1 .. N) \X Nat |-> kv[2] + ds[kv[1]] * Power(b, N - kv[1])]
           Eq(f) == f = [k \in 0 .. N |-> IF k = 0 THEN 0 ELSE f[k - 1] + ds[k] * Power(b, N - k)]
           sum == CHOOSE f : Eq(f)
<1>1. N \in Nat /\ \A k \in 1 .. N : ds[k] \in Nat
  OBVIOUS
<1>2. ASSUME NEW k \in 1 .. N, NEW v \in Nat
      PROVE  G[<<k, v>>] = v + ds[k] * Power(b, N - k) /\ G[<<k, v>>] \in Nat
  <2> DEFINE x == ds[k]
             p == Power(b, N - k)
  <2>1. N - k \in Nat
    BY <1>1
  <2>2. x \in Nat /\ p \in Nat
    BY <1>1, <2>1, Powers
  <2>3. G[<<k, v>>] = v + x * p
    OBVIOUS
  <2> HIDE DEF G, x, p
  <2>4. v + x * p \in Nat
    BY <2>2
  <2> QED
    BY <2>3, <2>4 DEF x, p
<1>3. Sum(ds, b) = sum[N]
  BY DEF Sum
<1> HIDE DEF N, G
<1>4. PICK f \in [0 .. N -> Nat] : f[0] = 0 /\ \A k \in 1 .. N : f[k] = G[<<k, f[k - 1]>>]
  <2>1. Loop(N, Nat, 0, G)
    BY <1>1, <1>2 DEF Loop
  <2> QED
    BY <2>1, Iteration
<1>5. ASSUME NEW k \in 0 .. N
      PROVE  f[k] = IF k = 0 THEN 0 ELSE f[k - 1] + ds[k] * Power(b, N - k)
  <2> SUFFICES ASSUME k # 0 PROVE f[k] = f[k - 1] + ds[k] * Power(b, N - k)
    BY <1>4
  <2>1. k \in 1 .. N /\ k - 1 \in 0 .. N
    BY <1>1
  <2>2. f[k - 1] \in Nat
    BY <1>4, <2>1
  <2> QED
    BY <1>2, <1>4, <2>1, <2>2
<1>6. Eq(f)
  <2>1. f = [k \in 0 .. N |-> f[k]]
    BY <1>4
  <2> QED
    BY <1>5, <2>1
<1>7. Eq(sum)
  <2> HIDE DEF Eq
  <2> QED
    BY <1>6
<1> HIDE DEF sum
<1>8. \A k \in 0 .. N : sum[k] = IF k = 0 THEN 0 ELSE sum[k - 1] + ds[k] * Power(b, N - k)
  BY <1>7
<1>9. \A k \in 0 .. N : f[k] = sum[k]
  <2> DEFINE P == {k \in Nat : k <= N => f[k] = sum[k]}
  <2>1. 0 \in P
    BY <1>1, <1>5, <1>8
  <2>2. ASSUME NEW k \in Nat, k \in P PROVE k + 1 \in P
    <3> SUFFICES ASSUME k + 1 <= N PROVE f[k + 1] = sum[k + 1]
      OBVIOUS
    <3>1. k + 1 \in 0 .. N /\ k + 1 # 0 /\ (k + 1) - 1 = k /\ f[k] = sum[k]
      BY <1>1, <2>2
    <3> QED
      BY <1>5, <1>8, <3>1
  <2> HIDE DEF P
  <2>3. \A k \in Nat : k \in P
    BY <2>1, <2>2, Induct
  <2> QED
    BY <1>1, <2>3 DEF P
<1>10. SumsTo(f, ds, b)
  <2>1. \A k \in 1 .. N : f[k] = f[k - 1] + ds[k] * Power(b, N - k)
    <3> SUFFICES ASSUME NEW k \in 1 .. N PROVE f[k] = f[k - 1] + ds[k] * Power(b, N - k)
      OBVIOUS
    <3>1. k \in 0 .. N /\ k # 0
      BY <1>1
    <3> QED
      BY <1>5, <3>1
  <2> QED
    BY <1>4, <2>1 DEF SumsTo, N
<1>11. Sum(ds, b) = f[N]
  BY <1>1, <1>3, <1>9
<1> QED
  BY <1>10, <1>11 DEF N

\* One more digit.
LEMMA SumOfAppend ==
    ASSUME NEW b \in Nat, NEW ds, ds \in Seq(Nat), NEW x \in Nat
    PROVE  Sum(Append(ds, x), b) = Sum(ds, b) * b + x
<1> DEFINE es == Append(ds, x)
           N == Len(ds)
<1>1. /\ es \in Seq(Nat) /\ N \in Nat /\ Len(es) = N + 1
      /\ \A k \in 1 .. N : es[k] = ds[k] /\ ds[k] \in Nat
      /\ es[N + 1] = x
  OBVIOUS
<1>2. PICK f \in [0 .. N -> Nat] : SumsTo(f, ds, b) /\ Sum(ds, b) = f[N]
  BY SumOf
<1>3. PICK g \in [0 .. N + 1 -> Nat] : SumsTo(g, es, b) /\ Sum(es, b) = g[N + 1]
  <2>1. \E g \in [0 .. Len(es) -> Nat] : SumsTo(g, es, b) /\ Sum(es, b) = g[Len(es)]
    <3> HIDE DEF es, N
    <3> QED
      BY <1>1, SumOf
  <2> QED
    BY <1>1, <2>1
<1> HIDE DEF es, N
<1>4. /\ f[0] = 0 /\ \A k \in 1 .. N : f[k] = f[k - 1] + ds[k] * Power(b, N - k)
      /\ g[0] = 0 /\ \A k \in 1 .. N + 1 : g[k] = g[k - 1] + es[k] * Power(b, N + 1 - k)
  BY <1>1, <1>2, <1>3 DEF SumsTo, N
<1>5. \A k \in 0 .. N : g[k] = f[k] * b
  <2> DEFINE P == {k \in Nat : k <= N => g[k] = f[k] * b}
  <2>1. 0 \in P
    BY <1>1, <1>4
  <2>2. ASSUME NEW j \in Nat, j \in P PROVE j + 1 \in P
    <3> SUFFICES ASSUME NEW k \in 1 .. N, k = j + 1 PROVE g[k] = f[k] * b
      BY <1>1
    <3>1. k \in 0 .. N /\ k - 1 \in 0 .. N /\ k \in 1 .. N + 1 /\ N - k \in Nat /\ N + 1 - k = (N - k) + 1
      BY <1>1
    <3>2. g[k - 1] = f[k - 1] * b
      BY <1>1, <2>2
    <3> HIDE DEF P
    <3> DEFINE p == Power(b, N - k)
               q == Power(b, N + 1 - k)
    <3>3. q = p * b /\ p \in Nat
      BY <3>1, Powers
    <3>4. g[k] = g[k - 1] + ds[k] * q /\ f[k] = f[k - 1] + ds[k] * p
      BY <1>1, <1>4, <3>1
    <3>5. f[k - 1] \in Nat /\ ds[k] \in Nat
      BY <1>1, <1>2, <3>1
    <3> HIDE DEF p, q
    <3>6. (f[k - 1] + ds[k] * p) * b = f[k - 1] * b + ds[k] * (p * b)
      BY <3>3, <3>5
    <3> QED
      BY <3>2, <3>3, <3>4, <3>6
  <2> HIDE DEF P
  <2>3. \A k \in Nat : k \in P
    BY <2>1, <2>2, Induct
  <2> QED
    BY <1>1, <2>3 DEF P
<1>6. g[N + 1] = g[N] + x * Power(b, 0)
  <2>1. N + 1 \in 1 .. N + 1 /\ (N + 1) - 1 = N /\ N + 1 - (N + 1) = 0
    BY <1>1
  <2> QED
    BY <1>1, <1>4, <2>1
<1>7. g[N] = f[N] * b /\ N \in 0 .. N
  BY <1>1, <1>5
<1>8. Power(b, 0) = 1
  BY Powers
<1>9. Sum(es, b) = f[N] * b + x
  BY <1>3, <1>6, <1>7, <1>8
<1> QED
  BY <1>2, <1>9 DEF es

LEMMA SumTyped ==
    ASSUME NEW b \in Nat, NEW ds, ds \in Seq(Nat)
    PROVE  Sum(ds, b) \in Nat /\ (Len(ds) = 0 => Sum(ds, b) = 0)
<1>1. PICK f \in [0 .. Len(ds) -> Nat] : SumsTo(f, ds, b) /\ Sum(ds, b) = f[Len(ds)]
  BY SumOf
<1>2. Len(ds) \in Nat /\ f[0] = 0
  BY <1>1 DEF SumsTo
<1> QED
  BY <1>1, <1>2

-----------------------------------------------------------------------------
(* Numbers: the characters of a text, and where its parts are. *)

Nul == ""
Minus == "-"
Plus == "+"
Zero == "0"
SmallX == "x"
Letters == {"0", "1", "2", "3", "4", "5", "6", "7", "8", "9", "a", "b", "c", "d", "e", "f",
            "g", "h", "i", "j", "k", "l", "m", "n", "o", "p", "q", "r", "s", "t", "u", "v",
            "w", "x", "y", "z", "A", "B", "C", "D", "E", "F", "G", "H", "I", "J", "K", "L",
            "M", "N", "O", "P", "Q", "R", "S", "T", "U", "V", "W", "X", "Y", "Z"}
Symbols == STRING \cup Letters \cup {Minus, Plus, Zero, SmallX}

\* The letters of the digits stand for their values and for nothing else.
LEMMA LettersDiffer ==
    \A x \in 1 .. 36, y \in 1 .. 36 :
        Upper[x] \in {Upper[y], Lower[y]} \/ Lower[x] \in {Upper[y], Lower[y]} => x = y
BY SMTT(60) DEF Upper, Lower

LEMMA LettersMean ==
    ASSUME NEW x \in 0 .. 35
    PROVE  DigitValue(Lower[x + 1]) = x /\ DigitValue(Upper[x + 1]) = x
<1>1. x + 1 \in 1 .. 36
  OBVIOUS
<1>2. ASSUME NEW ch, ch \in {Upper[x + 1], Lower[x + 1]} PROVE DigitValue(ch) = x
  <2> DEFINE Is(y) == y \in 1 .. 36 /\ ch \in {Upper[y], Lower[y]}
             v == CHOOSE y \in 1 .. 36 : ch \in {Upper[y], Lower[y]}
  <2>1. v \in 1 .. 36 /\ ch \in {Upper[v], Lower[v]}
    BY <1>1, <1>2, Zenon
  <2>2. v = x + 1
    <3> HIDE DEF v
    <3> QED
      BY <1>1, <1>2, <2>1, LettersDiffer
  <2>3. DigitValue(ch) = v - 1
    BY <1>1, <1>2, Zenon DEF DigitValue
  <2> HIDE DEF v
  <2> QED
    BY <2>2, <2>3
<1> QED
  BY <1>2

LEMMA DigitValueTyped == \A ch : DigitValue(ch) \in 0 .. 36
<1> TAKE ch
<1> DEFINE v == CHOOSE y \in 1 .. 36 : ch \in {Upper[y], Lower[y]}
<1>1. CASE \E y \in 1 .. 36 : ch \in {Upper[y], Lower[y]}
  <2>1. v \in 1 .. 36
    BY <1>1, Zenon
  <2>2. DigitValue(ch) = v - 1
    BY <1>1, Zenon DEF DigitValue
  <2> HIDE DEF v
  <2> QED
    BY <2>1, <2>2
<1>2. CASE ~\E y \in 1 .. 36 : ch \in {Upper[y], Lower[y]}
  <2>1. DigitValue(ch) = 36
    BY <1>2, Zenon DEF DigitValue
  <2> QED
    BY <2>1
<1> QED
  BY <1>1, <1>2

\* No digit is a sign or white space; only 33 is an x, only 0 is the character 0.
LEMMA LettersAreNot ==
    ASSUME NEW x \in 0 .. 35
    PROVE  /\ Lower[x + 1] \in Letters /\ Upper[x + 1] \in Letters
           /\ ~IsSpace(Lower[x + 1]) /\ Lower[x + 1] # Minus /\ Lower[x + 1] # Plus
           /\ Lower[x + 1] \in {"x", "X"} => x = 33
           /\ Lower[x + 1] = Zero => x = 0
           /\ Upper[x + 1] = Zero => x = 0
<1>1. \A y \in 1 .. 36 :
         /\ Lower[y] \in {"x", "X"} => y = 34
         /\ Lower[y] = "0" => y = 1
         /\ Upper[y] = "0" => y = 1
         /\ Lower[y] # "-" /\ Lower[y] # "+"
  BY SMTT(60) DEF Lower, Upper
<1>2. \A y \in 1 .. 36 : Lower[y] \in Letters /\ Upper[y] \in Letters
  BY SMTT(60) DEF Lower, Upper, Letters
<1>3. \A ch \in Letters : ~IsSpace(ch)
  <2>1. \A ch \in Letters : ch \notin {"\t", "\n", "\r", "\f"}
    BY DEF Letters
  <2>2. \A ch \in Letters : ch # " "
    BY ZenonT(60) DEF Letters
  <2> QED
    BY <2>1, <2>2, Zenon DEF IsSpace
<1>4. x + 1 \in 1 .. 36 /\ (x + 1 = 34 => x = 33) /\ (x + 1 = 1 => x = 0)
  OBVIOUS
<1> QED
  BY <1>1, <1>2, <1>3, <1>4, Zenon DEF Minus, Plus, Zero

LEMMA SignsAreNot ==
    /\ ~IsSpace(Minus) /\ ~IsSpace(Plus) /\ ~IsSpace(Zero)
    /\ Minus # Plus /\ Zero # Minus /\ Zero # Plus
    /\ SmallX \in {"x", "X"}
<1>1. ~IsSpace(Minus) /\ ~IsSpace(Plus) /\ ~IsSpace(Zero)
  BY Zenon DEF IsSpace, Minus, Plus, Zero
<1> QED
  BY <1>1, Zenon DEF Minus, Plus, Zero, SmallX

LEMMA AtMeans ==
    ASSUME NEW str, NEW k
    PROVE  At(str, k) = IF k < Len(str) THEN str[k + 1] ELSE Nul
BY Zenon DEF At, Nul

LEMMA AtJoin ==
    ASSUME NEW a, a \in Seq(Symbols), NEW b, b \in Seq(Symbols), NEW k \in Nat
    PROVE  At(a \o b, k) = IF k < Len(a) THEN At(a, k) ELSE At(b, k - Len(a))
<1>1. /\ At(a \o b, k) = IF k < Len(a \o b) THEN (a \o b)[k + 1] ELSE Nul
      /\ At(a, k) = IF k < Len(a) THEN a[k + 1] ELSE Nul
      /\ At(b, k - Len(a)) = IF k - Len(a) < Len(b) THEN b[k - Len(a) + 1] ELSE Nul
  BY AtMeans
<1>2. /\ Len(a) \in Nat /\ Len(b) \in Nat /\ Len(a \o b) = Len(a) + Len(b)
      /\ \A m \in 1 .. Len(a) + Len(b) :
            (a \o b)[m] = IF m <= Len(a) THEN a[m] ELSE b[m - Len(a)]
  BY ConcatProperties
<1>3. CASE k < Len(a)
  <2>1. k + 1 \in 1 .. Len(a) + Len(b) /\ k + 1 <= Len(a) /\ k < Len(a \o b)
    BY <1>2, <1>3
  <2> QED
    BY <1>1, <1>2, <1>3, <2>1
<1>4. CASE k >= Len(a) /\ k < Len(a) + Len(b)
  <2>1. /\ k + 1 \in 1 .. Len(a) + Len(b) /\ ~(k + 1 <= Len(a)) /\ k < Len(a \o b) /\ ~(k < Len(a))
        /\ k - Len(a) < Len(b) /\ (k + 1) - Len(a) = k - Len(a) + 1
    BY <1>2, <1>4
  <2>2. (a \o b)[k + 1] = b[k - Len(a) + 1]
    BY <1>2, <2>1
  <2> QED
    BY <1>1, <2>1, <2>2
<1>5. CASE k >= Len(a) + Len(b)
  <2>1. ~(k < Len(a \o b)) /\ ~(k - Len(a) < Len(b)) /\ ~(k < Len(a))
    BY <1>2, <1>5
  <2> QED
    BY <1>1, <2>1
<1> QED
  BY <1>2, <1>3, <1>4, <1>5

\* The number begins behind the white space and the sign.
LEMMA LeadIs ==
    ASSUME NEW str, str \in Seq(Symbols), NEW k \in 0 .. Len(str), ~IsSpace(At(str, k)),
           \A m \in 0 .. k - 1 : IsSpace(At(str, m))
    PROVE  Lead(str) = [at |-> k + (IF At(str, k) \in {Minus, Plus} THEN 1 ELSE 0),
                        sign |-> IF At(str, k) = Minus THEN -1 ELSE 1]
<1> DEFINE Is(j) == ~IsSpace(At(str, j)) /\ \A m \in 0 .. j - 1 : IsSpace(At(str, m))
           v == CHOOSE j \in 0 .. Len(str) : Is(j)
<1>1. v \in 0 .. Len(str) /\ Is(v)
  <2> HIDE DEF Is
  <2>1. Is(k)
    BY DEF Is
  <2> QED
    BY <2>1
<1>2. Lead(str) = [at |-> v + (IF At(str, v) \in {Minus, Plus} THEN 1 ELSE 0),
                   sign |-> IF At(str, v) = Minus THEN -1 ELSE 1]
  BY Zenon DEF Lead, Minus, Plus
<1> HIDE DEF v
<1>3. v = k
  <2>1. ~(v < k)
    <3>1. v < k => v \in 0 .. k - 1
      BY <1>1
    <3> QED
      BY <1>1, <3>1
  <2>2. ~(k < v)
    <3>1. k < v => k \in 0 .. v - 1
      BY <1>1
    <3> QED
      BY <1>1, <3>1
  <2> QED
    BY <1>1, <2>1, <2>2
<1> QED
  BY <1>2, <1>3

\* The digits end at the first character that is none.
ValuesFrom(str, at, N) == [k \in 1 .. N |-> DigitValue(str[at + k])]

LEMMA RunIs ==
    ASSUME NEW str, NEW at \in Nat, NEW b \in Nat, NEW N \in Nat, N \in 0 .. Len(str) - at,
           DigitValue(At(str, at + N)) >= b,
           \A m \in 0 .. N - 1 : DigitValue(At(str, at + m)) < b
    PROVE  Run(str, at, b) = ValuesFrom(str, at, N)
<1> DEFINE Is(j) == /\ DigitValue(At(str, at + j)) >= b
                    /\ \A m \in 0 .. j - 1 : DigitValue(At(str, at + m)) < b
           v == CHOOSE j \in 0 .. Len(str) - at : Is(j)
<1>1. v \in 0 .. Len(str) - at /\ Is(v)
  <2> HIDE DEF Is
  <2>1. Is(N)
    BY DEF Is
  <2> QED
    BY <2>1
<1>2. Run(str, at, b) = ValuesFrom(str, at, v)
  BY DEF Run, ValuesFrom
<1> HIDE DEF v
<1>3. v = N
  <2>0. v \in Nat
    BY <1>1
  <2>1. ~(v < N)
    <3> SUFFICES ASSUME v < N PROVE FALSE
      OBVIOUS
    <3>1. v \in 0 .. N - 1
      BY <2>0
    <3>2. DigitValue(At(str, at + v)) < b /\ DigitValue(At(str, at + v)) >= b
      BY <1>1, <3>1
    <3> DEFINE x == DigitValue(At(str, at + v))
    <3>3. x \in 0 .. 36 /\ x < b /\ x >= b
      BY <3>2, DigitValueTyped
    <3> HIDE DEF x
    <3> QED
      BY <3>3
  <2>2. ~(N < v)
    <3> SUFFICES ASSUME N < v PROVE FALSE
      OBVIOUS
    <3>1. N \in 0 .. v - 1
      BY <2>0
    <3>2. DigitValue(At(str, at + N)) < b
      BY <1>1, <3>1
    <3> DEFINE x == DigitValue(At(str, at + N))
    <3>3. x \in 0 .. 36 /\ x < b /\ x >= b
      BY <3>2, DigitValueTyped
    <3> HIDE DEF x
    <3> QED
      BY <3>3
  <2> QED
    BY <2>0, <2>1, <2>2
<1> QED
  BY <1>2, <1>3

\* The characters of a text built from five parts.
Joined(a, g, p, t, r) == a \o g \o p \o t \o r

PartsAre(str, a, g, p, t, r) ==
    /\ str \in Seq(Symbols) /\ Len(str) = Len(a) + Len(g) + Len(p) + Len(t) + Len(r)
    /\ Len(a \o g \o p \o t) = Len(a) + Len(g) + Len(p) + Len(t)
    /\ \A k \in 0 .. Len(a) - 1 : At(str, k) = At(a, k)
    /\ \A k \in Nat : k < Len(g) => At(str, Len(a) + k) = At(g, k)
    /\ \A k \in Nat : k < Len(p) => At(str, Len(a) + Len(g) + k) = At(p, k)
    /\ \A k \in Nat : k < Len(t) => At(str, Len(a) + Len(g) + Len(p) + k) = At(t, k)
    /\ \A k \in Nat : At(str, Len(a) + Len(g) + Len(p) + Len(t) + k) = At(r, k)

LEMMA JoinedParts ==
    ASSUME NEW a, NEW g, NEW p, NEW t, NEW r, a \in Seq(Symbols), g \in Seq(Symbols),
           p \in Seq(Symbols), t \in Seq(Symbols), r \in Seq(Symbols)
    PROVE  PartsAre(Joined(a, g, p, t, r), a, g, p, t, r)
<1> DEFINE A2 == a \o g
           A3 == A2 \o p
           A4 == A3 \o t
           A5 == A4 \o r
<1>1. A2 \in Seq(Symbols) /\ Len(A2) = Len(a) + Len(g)
  BY ConcatProperties
<1>2. A3 \in Seq(Symbols) /\ Len(A3) = Len(A2) + Len(p)
  <2> HIDE DEF A2
  <2> QED
    BY <1>1, ConcatProperties
<1>3. A4 \in Seq(Symbols) /\ Len(A4) = Len(A3) + Len(t)
  <2> HIDE DEF A3
  <2> QED
    BY <1>2, ConcatProperties
<1>4. A5 \in Seq(Symbols) /\ Len(A5) = Len(A4) + Len(r)
  <2> HIDE DEF A4
  <2> QED
    BY <1>3, ConcatProperties
<1>5. \A k \in Nat : At(A2, k) = IF k < Len(a) THEN At(a, k) ELSE At(g, k - Len(a))
  BY AtJoin
<1>6. \A k \in Nat : At(A3, k) = IF k < Len(A2) THEN At(A2, k) ELSE At(p, k - Len(A2))
  <2> HIDE DEF A2
  <2> QED
    BY <1>1, AtJoin
<1>7. \A k \in Nat : At(A4, k) = IF k < Len(A3) THEN At(A3, k) ELSE At(t, k - Len(A3))
  <2> HIDE DEF A3
  <2> QED
    BY <1>2, AtJoin
<1>8. \A k \in Nat : At(A5, k) = IF k < Len(A4) THEN At(A4, k) ELSE At(r, k - Len(A4))
  <2> HIDE DEF A4
  <2> QED
    BY <1>3, AtJoin
<1>9. Len(a) \in Nat /\ Len(g) \in Nat /\ Len(p) \in Nat /\ Len(t) \in Nat /\ Len(r) \in Nat
  BY LenProperties
<1>10. Joined(a, g, p, t, r) = A5 /\ Len(a \o g \o p \o t) = Len(A4)
  BY DEF Joined
<1> HIDE DEF A2, A3, A4, A5
<1> DEFINE x == Len(a)
           y == Len(a) + Len(g)
           z == Len(a) + Len(g) + Len(p)
           w == Len(a) + Len(g) + Len(p) + Len(t)
<1>11. x \in Nat /\ y \in Nat /\ z \in Nat /\ w \in Nat /\ x <= y /\ y <= z /\ z <= w
       /\ Len(A2) = y /\ Len(A3) = z /\ Len(A4) = w /\ Len(A5) = w + Len(r)
  BY <1>1, <1>2, <1>3, <1>4, <1>9
<1>12. \A k \in 0 .. x - 1 : At(A5, k) = At(a, k)
  BY <1>5, <1>6, <1>7, <1>8, <1>11
<1>13. ASSUME NEW k \in Nat, k < Len(g) PROVE At(A5, x + k) = At(g, k)
  <2>1. x + k \in Nat /\ x + k < y /\ ~(x + k < x) /\ (x + k) - x = k
    BY <1>9, <1>13
  <2> QED
    BY <1>5, <1>6, <1>7, <1>8, <1>11, <2>1
<1>14. ASSUME NEW k \in Nat, k < Len(p) PROVE At(A5, y + k) = At(p, k)
  <2>1. y + k \in Nat /\ y + k < z /\ ~(y + k < y) /\ (y + k) - y = k
    BY <1>9, <1>14
  <2> QED
    BY <1>6, <1>7, <1>8, <1>11, <2>1
<1>15. ASSUME NEW k \in Nat, k < Len(t) PROVE At(A5, z + k) = At(t, k)
  <2>1. z + k \in Nat /\ z + k < w /\ ~(z + k < z) /\ (z + k) - z = k
    BY <1>9, <1>15
  <2> QED
    BY <1>7, <1>8, <1>11, <2>1
<1>16. ASSUME NEW k \in Nat PROVE At(A5, w + k) = At(r, k)
  <2>1. w + k \in Nat /\ ~(w + k < w) /\ (w + k) - w = k
    BY <1>9
  <2> QED
    BY <1>8, <1>11, <2>1
<1> HIDE DEF x, y, z, w
<1>17. /\ A5 \in Seq(Symbols) /\ Len(A5) = w + Len(r) /\ Len(a \o g \o p \o t) = w
       /\ \A k \in 0 .. x - 1 : At(A5, k) = At(a, k)
       /\ \A k \in Nat : k < Len(g) => At(A5, x + k) = At(g, k)
       /\ \A k \in Nat : k < Len(p) => At(A5, y + k) = At(p, k)
       /\ \A k \in Nat : k < Len(t) => At(A5, z + k) = At(t, k)
       /\ \A k \in Nat : At(A5, w + k) = At(r, k)
  BY <1>4, <1>10, <1>11, <1>12, <1>13, <1>14, <1>15, <1>16
<1> QED
  BY <1>10, <1>17 DEF x, y, z, w, PartsAre

LEMMA DigitsTyped ==
    ASSUME NEW ds, ds \in Seq(0 .. 35)
    PROVE  Len(ds) \in Nat /\ DOMAIN ds = 1 .. Len(ds) /\ \A k \in 1 .. Len(ds) : ds[k] \in 0 .. 35
<1> DEFINE T == 0 .. 35
<1>1. ds \in Seq(T)
  OBVIOUS
<1> HIDE DEF T
<1>2. Len(ds) \in Nat /\ DOMAIN ds = 1 .. Len(ds) /\ \A k \in 1 .. Len(ds) : ds[k] \in T
  BY <1>1, LenProperties, ElementOfSeq
<1> QED
  BY <1>2 DEF T

LEMMA TextOfDigits ==
    ASSUME NEW ds, ds \in Seq(0 .. 35)
    PROVE  /\ AsText(ds) \in Seq(Symbols) /\ Len(AsText(ds)) = Len(ds)
           /\ \A k \in Nat : k < Len(ds) => At(AsText(ds), k) = Lower[ds[k + 1] + 1]
<1> DEFINE N == Len(ds)
           t == [k \in 1 .. N |-> Lower[ds[k] + 1]]
<1>1. N \in Nat /\ DOMAIN ds = 1 .. N /\ \A k \in 1 .. N : ds[k] \in 0 .. 35
  BY DigitsTyped
<1>2. AsText(ds) = t
  BY <1>1 DEF AsText
<1>3. \A k \in 1 .. N : t[k] = Lower[ds[k] + 1] /\ t[k] \in Symbols
  <2> TAKE k \in 1 .. N
  <2>1. ds[k] \in 0 .. 35
    BY <1>1
  <2>2. Lower[ds[k] + 1] \in Letters
    BY <2>1, LettersAreNot
  <2> QED
    BY <2>2 DEF Symbols
<1>4. t = [k \in 1 .. N |-> t[k]]
  OBVIOUS
<1> HIDE DEF t, N
<1>5. t \in Seq(Symbols) /\ Len(t) = N
  BY <1>1, <1>3, <1>4
<1>6. ASSUME NEW k \in Nat, k < N PROVE At(t, k) = Lower[ds[k + 1] + 1]
  <2>1. k + 1 \in 1 .. N /\ k < Len(t)
    BY <1>1, <1>5, <1>6
  <2>2. At(t, k) = t[k + 1]
    BY <2>1, AtMeans
  <2> QED
    BY <1>3, <2>1, <2>2
<1> QED
  BY <1>2, <1>5, <1>6 DEF N

\* What Build makes.
Shape(a, g, p, ds, r, b) ==
    /\ a \in Seq(Symbols) /\ \A k \in DOMAIN a : IsSpace(a[k])
    /\ g \in {<<>>, <<Plus>>, <<Minus>>}
    /\ p \in {<<>>, <<Zero>>, <<Zero, SmallX>>}
    /\ ds \in Seq(0 .. 35) /\ \A k \in DOMAIN ds : ds[k] < b
    /\ r \in Seq(Symbols)
    /\ DigitValue(At(r, 0)) >= b
    /\ g = <<>> /\ p = <<>> /\ ds = <<>> =>
          At(r, 0) # Plus /\ At(r, 0) # Minus /\ ~IsSpace(At(r, 0))

LEMMA ShapeTyped ==
    ASSUME NEW a, NEW g, NEW p, NEW ds, NEW r, NEW b, Shape(a, g, p, ds, r, b)
    PROVE  /\ a \in Seq(Symbols) /\ g \in Seq(Symbols) /\ p \in Seq(Symbols)
           /\ AsText(ds) \in Seq(Symbols) /\ r \in Seq(Symbols)
           /\ Len(a) \in Nat /\ Len(g) \in {0, 1} /\ Len(p) \in 0 .. 2 /\ Len(ds) \in Nat
           /\ Len(r) \in Nat
           /\ Len(AsText(ds)) = Len(ds)
<1>1. a \in Seq(Symbols) /\ ds \in Seq(0 .. 35) /\ r \in Seq(Symbols)
  BY DEF Shape
<1>2. AsText(ds) \in Seq(Symbols) /\ Len(AsText(ds)) = Len(ds)
  BY <1>1, TextOfDigits
<1>3. Plus \in Symbols /\ Minus \in Symbols /\ Zero \in Symbols /\ SmallX \in Symbols
  BY Zenon DEF Symbols
<1>4. g = <<>> \/ g = <<Plus>> \/ g = <<Minus>>
  BY Zenon DEF Shape
<1>5. p = <<>> \/ p = <<Zero>> \/ p = <<Zero, SmallX>>
  BY Zenon DEF Shape
<1> DEFINE c1 == Plus
           c2 == Minus
           c3 == Zero
           c4 == SmallX
<1>a. c1 \in Symbols /\ c2 \in Symbols /\ c3 \in Symbols /\ c4 \in Symbols
  BY <1>3
<1> HIDE DEF c1, c2, c3, c4
<1>b. /\ <<>> \in Seq(Symbols) /\ <<c1>> \in Seq(Symbols) /\ <<c2>> \in Seq(Symbols)
      /\ <<c3>> \in Seq(Symbols) /\ <<c3, c4>> \in Seq(Symbols)
      /\ Len(<<>>) = 0 /\ Len(<<c1>>) = 1 /\ Len(<<c2>>) = 1 /\ Len(<<c3>>) = 1 /\ Len(<<c3, c4>>) = 2
  BY <1>a
<1>6. g \in Seq(Symbols) /\ Len(g) \in {0, 1}
  <2>1. g = <<>> \/ g = <<c1>> \/ g = <<c2>>
    BY <1>4 DEF c1, c2
  <2> QED
    BY <1>b, <2>1
<1>7. p \in Seq(Symbols) /\ Len(p) \in 0 .. 2
  <2>1. p = <<>> \/ p = <<c3>> \/ p = <<c3, c4>>
    BY <1>5 DEF c3, c4
  <2>2. p \in Seq(Symbols) /\ (Len(p) = 0 \/ Len(p) = 1 \/ Len(p) = 2)
    BY <1>b, <2>1
  <2> QED
    BY <2>2
<1>8. Len(a) \in Nat /\ Len(ds) \in Nat /\ Len(r) \in Nat
  BY <1>1
<1> QED
  BY <1>1, <1>2, <1>6, <1>7, <1>8

LEMMA PartsOfShape ==
    ASSUME NEW a, NEW g, NEW p, NEW ds, NEW r, NEW b, Shape(a, g, p, ds, r, b)
    PROVE  PartsAre(Joined(a, g, p, AsText(ds), r), a, g, p, AsText(ds), r)
BY ShapeTyped, JoinedParts

\* The character behind the white space.
LEMMA FirstOfParts ==
    ASSUME NEW a, NEW g, NEW p, NEW ds, NEW r, NEW b, Shape(a, g, p, ds, r, b)
    PROVE  LET ch == At(Joined(a, g, p, AsText(ds), r), Len(a))
           IN  /\ ~IsSpace(ch)
               /\ ch = Minus <=> g = <<Minus>>
               /\ ch = Plus <=> g = <<Plus>>
<1> DEFINE str == Joined(a, g, p, AsText(ds), r)
           t == AsText(ds)
           x == Len(a)
           ch == At(str, x)
<1>1. /\ \A k \in Nat : k < Len(g) => At(str, x + k) = At(g, k)
      /\ \A k \in Nat : k < Len(p) => At(str, x + Len(g) + k) = At(p, k)
      /\ \A k \in Nat : k < Len(t) => At(str, x + Len(g) + Len(p) + k) = At(t, k)
      /\ \A k \in Nat : At(str, x + Len(g) + Len(p) + Len(t) + k) = At(r, k)
  BY PartsOfShape DEF PartsAre
<1>2. x \in Nat /\ Len(t) = Len(ds) /\ Len(ds) \in Nat
  BY ShapeTyped
<1> HIDE DEF str, t, x
<1>3. x + 0 = x
  BY <1>2
<1>4. CASE g = <<Minus>>
  <2>1. Len(g) = 1 /\ g[1] = Minus /\ 0 < 1 /\ 0 \in Nat /\ 0 + 1 = 1
    BY <1>4
  <2>2. At(str, x + 0) = At(g, 0) /\ At(g, 0) = g[0 + 1]
    BY <1>1, <2>1, AtMeans
  <2>3. ch = Minus /\ g # <<Plus>>
    BY <1>3, <1>4, <2>1, <2>2, SignsAreNot
  <2> QED
    BY <1>4, <2>3, SignsAreNot DEF str, t, x
<1>5. CASE g = <<Plus>>
  <2>1. Len(g) = 1 /\ g[1] = Plus /\ 0 < 1 /\ 0 \in Nat /\ 0 + 1 = 1
    BY <1>5
  <2>2. At(str, x + 0) = At(g, 0) /\ At(g, 0) = g[0 + 1]
    BY <1>1, <2>1, AtMeans
  <2>3. ch = Plus /\ g # <<Minus>>
    BY <1>3, <1>5, <2>1, <2>2, SignsAreNot
  <2> QED
    BY <1>5, <2>3, SignsAreNot DEF str, t, x
<1>6. CASE g = <<>>
  <2> SUFFICES ~IsSpace(ch) /\ ch # Minus /\ ch # Plus
    <3>1. g # <<Plus>> /\ g # <<Minus>>
      BY <1>6
    <3> QED
      BY <3>1 DEF str, t, x
  <2>1. Len(g) = 0 /\ x + Len(g) = x
    BY <1>2, <1>6
  <2>2. CASE p # <<>>
    <3>1. p = <<Zero>> \/ p = <<Zero, SmallX>>
      BY <2>2, Zenon DEF Shape
    <3>2. 0 < Len(p) /\ p[1] = Zero /\ 0 \in Nat /\ 0 + 1 = 1
      BY <3>1
    <3>3. At(str, x + Len(g) + 0) = At(p, 0) /\ At(p, 0) = p[0 + 1]
      BY <1>1, <3>2, AtMeans
    <3>4. ch = Zero
      BY <1>3, <2>1, <3>2, <3>3
    <3> QED
      BY <3>4, SignsAreNot
  <2>3. CASE p = <<>> /\ ds # <<>>
    <3>1. Len(p) = 0 /\ ds \in Seq(0 .. 35) /\ ds # <<>>
      BY <2>3 DEF Shape
    <3>2. 0 < Len(ds) /\ 0 \in Nat /\ 0 + 1 = 1 /\ 1 \in 1 .. Len(ds) /\ ds[1] \in 0 .. 35
      <4>1. Len(ds) # 0 /\ Len(ds) \in Nat
        BY <3>1, EmptySeq, <1>2
      <4> QED
        BY <3>1, <4>1, DigitsTyped
    <3>3. At(t, 0) = Lower[ds[1] + 1]
      BY <3>1, <3>2, TextOfDigits DEF t
    <3>4. At(str, x + Len(g) + Len(p) + 0) = At(t, 0)
      BY <1>1, <1>2, <3>2
    <3>5. ch = Lower[ds[1] + 1]
      BY <1>2, <2>1, <3>1, <3>3, <3>4
    <3> QED
      BY <3>2, <3>5, LettersAreNot
  <2>4. CASE p = <<>> /\ ds = <<>>
    <3>1. Len(p) = 0 /\ Len(ds) = 0 /\ 0 \in Nat
      BY <2>4
    <3>2. At(str, x + Len(g) + Len(p) + Len(t) + 0) = At(r, 0)
      BY <1>1, <3>1
    <3>3. ch = At(r, 0)
      BY <1>2, <2>1, <3>1, <3>2
    <3> QED
      BY <1>6, <2>4, <3>3 DEF Shape
  <2> QED
    BY <2>2, <2>3, <2>4
<1>7. g = <<>> \/ g = <<Plus>> \/ g = <<Minus>>
  BY Zenon DEF Shape
<1> QED
  BY <1>4, <1>5, <1>6, <1>7

LEMMA LeadOfParts ==
    ASSUME NEW a, NEW g, NEW p, NEW ds, NEW r, NEW b, Shape(a, g, p, ds, r, b)
    PROVE  Lead(Joined(a, g, p, AsText(ds), r)) =
               [at |-> Len(a) + Len(g), sign |-> IF g = <<Minus>> THEN -1 ELSE 1]
<1> DEFINE str == Joined(a, g, p, AsText(ds), r)
           x == Len(a)
           ch == At(str, x)
<1>1. str \in Seq(Symbols) /\ Len(str) = x + Len(g) + Len(p) + Len(ds) + Len(r)
      /\ \A k \in 0 .. x - 1 : At(str, k) = At(a, k)
  <2> DEFINE t == AsText(ds)
  <2>1. PartsAre(str, a, g, p, t, r) /\ Len(t) = Len(ds)
    BY PartsOfShape, ShapeTyped
  <2> HIDE DEF str, t
  <2> QED
    BY <2>1 DEF PartsAre
<1>2. ~IsSpace(ch) /\ (ch = Minus <=> g = <<Minus>>) /\ (ch = Plus <=> g = <<Plus>>)
  BY FirstOfParts
<1>3. x \in 0 .. Len(str) /\ x \in Nat
  <2> HIDE DEF str, x
  <2> QED
    BY <1>1, ShapeTyped DEF x
<1>4. \A m \in 0 .. x - 1 : IsSpace(At(str, m))
  <2> TAKE m \in 0 .. x - 1
  <2> HIDE DEF str
  <2>1. a \in Seq(Symbols) /\ \A k \in DOMAIN a : IsSpace(a[k])
    BY DEF Shape
  <2>2. m < Len(a) /\ m + 1 \in DOMAIN a
    BY <1>3, <2>1
  <2>3. At(a, m) = a[m + 1]
    BY <2>2, AtMeans
  <2> QED
    BY <1>1, <2>1, <2>2, <2>3
<1> HIDE DEF str, x
<1>5. Lead(str) = [at |-> x + (IF At(str, x) \in {Minus, Plus} THEN 1 ELSE 0),
                   sign |-> IF At(str, x) = Minus THEN -1 ELSE 1]
  BY <1>1, <1>2, <1>3, <1>4, LeadIs
<1>6. (IF ch \in {Minus, Plus} THEN 1 ELSE 0) = Len(g)
  <2>1. g = <<>> \/ g = <<Plus>> \/ g = <<Minus>>
    BY Zenon DEF Shape
  <2>2. /\ g = <<>> => Len(g) = 0 /\ g # <<Plus>> /\ g # <<Minus>>
        /\ g = <<Plus>> => Len(g) = 1
        /\ g = <<Minus>> => Len(g) = 1
    OBVIOUS
  <2> HIDE DEF ch
  <2> QED
    BY <1>2, <2>1, <2>2
<1>7. Lead(str) = [at |-> x + Len(g), sign |-> IF g = <<Minus>> THEN -1 ELSE 1]
  <2> DEFINE y == IF ch \in {Minus, Plus} THEN 1 ELSE 0
             z == IF ch = Minus THEN -1 ELSE 1
             u == IF g = <<Minus>> THEN -1 ELSE 1
  <2>1. Lead(str) = [at |-> x + y, sign |-> z]
    BY <1>5
  <2>2. z = u
    BY <1>2
  <2>3. y = Len(g)
    BY <1>6
  <2> HIDE DEF y, z, u
  <2>4. Lead(str) = [at |-> x + Len(g), sign |-> u]
    BY <2>1, <2>2, <2>3
  <2> QED
    BY <2>4 DEF u
<1> QED
  BY <1>7 DEF str, x

LEMMA RunOfParts ==
    ASSUME NEW a, NEW g, NEW p, NEW ds, NEW r, NEW b, b \in Nat, Shape(a, g, p, ds, r, b)
    PROVE  Run(Joined(a, g, p, AsText(ds), r), Len(a) + Len(g) + Len(p), b) = ds
<1> DEFINE str == Joined(a, g, p, AsText(ds), r)
           t == AsText(ds)
           z == Len(a) + Len(g) + Len(p)
           N == Len(ds)
<1>1. /\ str \in Seq(Symbols) /\ Len(str) = z + Len(t) + Len(r)
      /\ \A k \in Nat : k < Len(t) => At(str, z + k) = At(t, k)
      /\ \A k \in Nat : At(str, z + Len(t) + k) = At(r, k)
  BY PartsOfShape DEF PartsAre
<1>2. z \in Nat /\ N \in Nat /\ Len(t) = N /\ Len(r) \in Nat
  BY ShapeTyped
<1>3. ds \in Seq(0 .. 35) /\ (\A k \in DOMAIN ds : ds[k] < b) /\ DigitValue(At(r, 0)) >= b
  BY DEF Shape
<1>4. \A k \in 1 .. N : ds[k] \in 0 .. 35 /\ ds[k] < b
  BY <1>3
<1> HIDE DEF str, z
<1>5. ASSUME NEW m \in 0 .. N - 1
      PROVE  At(str, z + m) = Lower[ds[m + 1] + 1] /\ DigitValue(At(str, z + m)) = ds[m + 1]
             /\ ds[m + 1] < b
  <2>1. m \in Nat /\ m < Len(ds) /\ m + 1 \in 1 .. N
    BY <1>2
  <2>2. At(str, z + m) = At(t, m) /\ At(t, m) = Lower[ds[m + 1] + 1]
    BY <1>1, <1>2, <1>3, <2>1, TextOfDigits
  <2>3. ds[m + 1] \in 0 .. 35 /\ ds[m + 1] < b
    BY <1>4, <2>1
  <2> QED
    BY <2>2, <2>3, LettersMean
<1>6. DigitValue(At(str, z + N)) >= b
  <2>1. z + Len(t) + 0 = z + N
    BY <1>2
  <2>2. At(str, z + N) = At(r, 0)
    BY <1>1, <2>1
  <2> QED
    BY <1>3, <2>2
<1> HIDE DEF t, N
<1>7. N \in 0 .. Len(str) - z
  BY <1>1, <1>2
<1>8. Run(str, z, b) = ValuesFrom(str, z, N)
  <2>1. z \in Nat /\ N \in Nat /\ \A m \in 0 .. N - 1 : DigitValue(At(str, z + m)) < b
    <3> SUFFICES ASSUME NEW m \in 0 .. N - 1 PROVE DigitValue(At(str, z + m)) < b
      BY <1>2
    <3>1. DigitValue(At(str, z + m)) = ds[m + 1] /\ ds[m + 1] < b
      BY <1>5
    <3> QED
      BY <3>1, Zenon
  <2> QED
    BY <1>6, <1>7, <2>1, RunIs
<1>9. ASSUME NEW k \in 1 .. N PROVE DigitValue(str[z + k]) = ds[k]
  <2>1. k - 1 \in 0 .. N - 1 /\ (k - 1) + 1 = k
    BY <1>2
  <2>2. z + (k - 1) < Len(str) /\ z + (k - 1) + 1 = z + k
    BY <1>1, <1>2
  <2>3. At(str, z + (k - 1)) = str[z + k]
    BY <2>2, AtMeans
  <2>4. DigitValue(At(str, z + (k - 1))) = ds[(k - 1) + 1]
    BY <1>5, <2>1
  <2> QED
    BY <2>1, <2>3, <2>4
<1>10. ds = [k \in 1 .. N |-> ds[k]]
  BY <1>3 DEF N
<1>11. Run(str, z, b) = ds
  BY <1>8, <1>9, <1>10 DEF ValuesFrom
<1> QED
  BY <1>11 DEF str, z

\* A number that tells its base.
TellsBase(p, ds, r, b) ==
    /\ \/ b = 8 /\ p = <<Zero>>
       \/ b = 10 /\ p = <<>>
       \/ b = 16 /\ p = <<Zero, SmallX>>
    /\ b = 10 => \A k \in DOMAIN ds : ds[1] # 0
    /\ b = 8 /\ ds = <<>> => At(r, 0) \notin {"x", "X"}

LEMMA DetectedOfParts ==
    ASSUME NEW a, NEW g, NEW p, NEW ds, NEW r, NEW b,
           Shape(a, g, p, ds, r, b), TellsBase(p, ds, r, b)
    PROVE  Detected(Joined(a, g, p, AsText(ds), r), Len(a) + Len(g)) =
               [base |-> b, at |-> Len(a) + Len(g) + Len(p)]
<1> DEFINE str == Joined(a, g, p, AsText(ds), r)
           t == AsText(ds)
           y == Len(a) + Len(g)
<1>1. /\ \A k \in Nat : k < Len(p) => At(str, y + k) = At(p, k)
      /\ \A k \in Nat : k < Len(t) => At(str, y + Len(p) + k) = At(t, k)
      /\ \A k \in Nat : At(str, y + Len(p) + Len(t) + k) = At(r, k)
  BY PartsOfShape DEF PartsAre
<1>2. y \in Nat /\ Len(t) = Len(ds) /\ Len(ds) \in Nat /\ Len(p) \in Nat
  BY ShapeTyped
<1>3. ds \in Seq(0 .. 35) /\ (\A k \in DOMAIN ds : ds[k] < b) /\ DigitValue(At(r, 0)) >= b
  BY DEF Shape
<1> DEFINE ch == At(str, y)
           next == At(str, y + 1)
           first == At(str, y + Len(p))
<1>4. Detected(str, y) = IF ch # Zero THEN [base |-> 10, at |-> y]
                         ELSE IF next \in {"x", "X"} THEN [base |-> 16, at |-> y + 2]
                         ELSE [base |-> 8, at |-> y + 1]
  BY Zenon DEF Detected, Zero
\* The first character of the digits, or of what follows if there are none.
<1>5. IF ds = <<>> THEN first = At(r, 0) ELSE ds[1] \in 0 .. 35 /\ ds[1] < b /\ first = Lower[ds[1] + 1]
  <2> HIDE DEF str, t, y
  <2>1. CASE ds = <<>>
    <3>1. Len(t) = 0 /\ 0 \in Nat /\ y + Len(p) + Len(t) + 0 = y + Len(p)
      BY <1>2, <2>1
    <3>2. first = At(r, 0)
      BY <1>1, <3>1
    <3> QED
      BY <2>1, <3>2
  <2>2. CASE ds # <<>>
    <3>1. Len(ds) # 0 /\ Len(ds) \in Nat
      BY <1>2, <1>3, <2>2, EmptySeq
    <3>2. 0 < Len(ds) /\ 0 \in Nat /\ 0 + 1 = 1 /\ 1 \in 1 .. Len(ds) /\ y + Len(p) + 0 = y + Len(p)
      BY <1>2, <3>1
    <3>3. ds[1] \in 0 .. 35 /\ ds[1] < b
      BY <1>3, <3>2, DigitsTyped
    <3>4. At(t, 0) = Lower[ds[1] + 1]
      BY <1>3, <3>2, TextOfDigits DEF t
    <3>5. first = At(t, 0)
      BY <1>1, <1>2, <3>2
    <3> QED
      BY <2>2, <3>3, <3>4, <3>5
  <2> QED
    BY <2>1, <2>2
<1> HIDE DEF str, t, y
<1>6. DigitValue(Zero) = 0
  <2>1. 0 \in 0 .. 35 /\ 0 + 1 = 1 /\ Lower[1] = Zero
    BY DEF Lower, Zero
  <2> QED
    BY <2>1, LettersMean
<1>7. CASE b = 10 /\ p = <<>>
  <2>1. Len(p) = 0 /\ y + Len(p) = y
    BY <1>2, <1>7
  <2>2. ch # Zero
    <3>1. CASE ds = <<>>
      <4>1. ch = At(r, 0)
        BY <1>5, <2>1, <3>1
      <4> DEFINE v == DigitValue(ch)
      <4>2. v >= 10 /\ (ch = Zero => v = 0)
        BY <1>3, <1>6, <1>7, <4>1
      <4> HIDE DEF v
      <4> QED
        BY <4>2
    <3>2. CASE ds # <<>>
      <4>1. ds[1] \in 0 .. 35 /\ ch = Lower[ds[1] + 1]
        BY <1>5, <2>1, <3>2
      <4>2. ds[1] # 0
        <5>1. Len(ds) \in Nat /\ DOMAIN ds = 1 .. Len(ds) /\ Len(ds) # 0
          BY <1>2, <1>3, <3>2, EmptySeq
        <5>2. 1 \in DOMAIN ds
          BY <5>1
        <5> QED
          BY <1>7, <5>2 DEF TellsBase
      <4> QED
        BY <4>1, <4>2, LettersAreNot
    <3> QED
      BY <3>1, <3>2
  <2>3. Detected(str, y) = [base |-> 10, at |-> y]
    BY <1>4, <2>2
  <2> QED
    BY <1>7, <2>1, <2>3 DEF str, y
<1>8. CASE b = 8 /\ p = <<Zero>>
  <2>1. Len(p) = 1 /\ p[1] = Zero /\ 0 \in Nat /\ 0 < 1 /\ 0 + 1 = 1 /\ y + 0 = y
    BY <1>2, <1>8
  <2>2. ch = Zero
    <3>1. At(str, y + 0) = At(p, 0) /\ At(p, 0) = p[0 + 1]
      BY <1>1, <2>1, AtMeans
    <3> QED
      BY <2>1, <3>1
  <2>3. next \notin {"x", "X"}
    <3>1. CASE ds = <<>>
      <4>1. next = At(r, 0)
        BY <1>5, <2>1, <3>1
      <4> QED
        BY <1>8, <3>1, <4>1, Zenon DEF TellsBase
    <3>2. CASE ds # <<>>
      <4>1. ds[1] \in 0 .. 35 /\ ds[1] < 8 /\ next = Lower[ds[1] + 1]
        BY <1>5, <1>8, <2>1, <3>2
      <4>2. next \in {"x", "X"} => ds[1] = 33
        BY <4>1, LettersAreNot
      <4> QED
        BY <4>1, <4>2
    <3> QED
      BY <3>1, <3>2
  <2>4. Detected(str, y) = [base |-> 8, at |-> y + 1]
    BY <1>4, <2>2, <2>3
  <2> QED
    BY <1>8, <2>1, <2>4 DEF str, y
<1>9. CASE b = 16 /\ p = <<Zero, SmallX>>
  <2>1. Len(p) = 2 /\ p[1] = Zero /\ p[2] = SmallX /\ y + 0 = y
    BY <1>2, <1>9
  <2>2. ch = Zero
    <3>1. At(str, y + 0) = At(p, 0) /\ At(p, 0) = p[0 + 1]
      BY <1>1, <2>1, AtMeans
    <3> QED
      BY <2>1, <3>1
  <2>3. next \in {"x", "X"}
    <3>1. At(str, y + 1) = At(p, 1) /\ At(p, 1) = p[1 + 1]
      BY <1>1, <2>1, AtMeans
    <3> QED
      BY <2>1, <3>1, SignsAreNot
  <2>4. Detected(str, y) = [base |-> 16, at |-> y + 2]
    BY <1>4, <2>2, <2>3
  <2> QED
    BY <1>9, <2>1, <2>4 DEF str, y
<1> QED
  BY <1>7, <1>8, <1>9 DEF TellsBase

-----------------------------------------------------------------------------
(* The number of the digits, as the loops of atoi and strtol find it. *)

LEMMA PrefixSums ==
    ASSUME NEW b \in Nat, NEW ds, ds \in Seq(Nat)
    PROVE  /\ Sum(SubSeq(ds, 1, 0), b) = 0
           /\ \A k \in 0 .. Len(ds) : Sum(SubSeq(ds, 1, k), b) \in Nat
           /\ \A k \in 1 .. Len(ds) :
                 Sum(SubSeq(ds, 1, k), b) = Sum(SubSeq(ds, 1, k - 1), b) * b + ds[k]
           /\ Sum(SubSeq(ds, 1, Len(ds)), b) = Sum(ds, b)
<1>1. Len(ds) \in Nat /\ \A k \in 1 .. Len(ds) : ds[k] \in Nat
  OBVIOUS
<1>2. \A k \in 0 .. Len(ds) : SubSeq(ds, 1, k) \in Seq(Nat) /\ Len(SubSeq(ds, 1, k)) = k
  BY <1>1
<1>3. \A k \in 0 .. Len(ds) : Sum(SubSeq(ds, 1, k), b) \in Nat
  BY <1>2, SumTyped
<1>4. Sum(SubSeq(ds, 1, 0), b) = 0
  <2>1. 0 \in 0 .. Len(ds)
    BY <1>1
  <2> QED
    BY <1>2, <2>1, SumTyped
<1>5. ASSUME NEW k \in 1 .. Len(ds)
      PROVE  Sum(SubSeq(ds, 1, k), b) = Sum(SubSeq(ds, 1, k - 1), b) * b + ds[k]
  <2>1. k - 1 \in 0 .. Len(ds) /\ SubSeq(ds, 1, k) = Append(SubSeq(ds, 1, k - 1), ds[k])
    <3>1. k - 1 \in 0 .. Len(ds) /\ k \in 0 .. Len(ds)
      BY <1>1
    <3> DEFINE u == SubSeq(ds, 1, k)
               v == Append(SubSeq(ds, 1, k - 1), ds[k])
    <3>2. u \in Seq(Nat) /\ Len(u) = k /\ \A j \in 1 .. k : u[j] = ds[j]
      BY <1>1, <3>1
    <3>3. v \in Seq(Nat) /\ Len(v) = k /\ \A j \in 1 .. k : v[j] = ds[j]
      <4> DEFINE y == SubSeq(ds, 1, k - 1)
      <4>1. y \in Seq(Nat) /\ Len(y) = k - 1 /\ \A j \in 1 .. k - 1 : y[j] = ds[j]
        BY <1>1, <3>1
      <4> HIDE DEF y
      <4> QED
        BY <1>1, <4>1
    <3> HIDE DEF u, v
    <3>4. u = v
      BY <3>2, <3>3, SeqEqual
    <3> QED
      BY <3>1, <3>4 DEF u, v
  <2> DEFINE y == SubSeq(ds, 1, k - 1)
  <2>2. y \in Seq(Nat) /\ ds[k] \in Nat
    BY <1>1, <1>2, <2>1
  <2> HIDE DEF y
  <2>3. Sum(Append(y, ds[k]), b) = Sum(y, b) * b + ds[k]
    BY <2>2, SumOfAppend
  <2> QED
    BY <2>1, <2>3 DEF y
<1>6. SubSeq(ds, 1, Len(ds)) = ds
  <2>1. Len(SubSeq(ds, 1, Len(ds))) = Len(ds) /\ SubSeq(ds, 1, Len(ds)) \in Seq(Nat)
        /\ \A j \in 1 .. Len(ds) : SubSeq(ds, 1, Len(ds))[j] = ds[j]
    BY <1>1
  <2> QED
    BY <2>1, SeqEqual
<1> QED
  BY <1>3, <1>4, <1>5, <1>6

\* A loop that keeps a growing number while it is no greater than M keeps the last one,
\* or none.
Kept(x, M) == IF x > M THEN Saturated ELSE x

Keeping(res, v, N, M) ==
    /\ N \in Nat /\ M \in Nat
    /\ \A k \in 0 .. N : v[k] \in Nat
    /\ \A k \in 1 .. N : v[k - 1] <= v[k]
    /\ v[0] = 0 /\ res[0] = 0
    /\ \A k \in 1 .. N : res[k - 1] = v[k - 1] => res[k] = Kept(v[k], M)
    /\ \A k \in 1 .. N : res[k - 1] = Saturated => res[k] = Saturated

LEMMA KeepsNumber ==
    ASSUME NEW N, NEW M, NEW v, NEW res, Keeping(res, v, N, M)
    PROVE  \A k \in 0 .. N : res[k] = Kept(v[k], M)
<1> USE DEF Keeping, Kept
<1> DEFINE P == {k \in Nat : k <= N => res[k] = IF v[k] > M THEN Saturated ELSE v[k]}
<1>1. 0 \in P
  OBVIOUS
<1>2. ASSUME NEW j \in Nat, j \in P PROVE j + 1 \in P
  <2> SUFFICES ASSUME NEW k \in 1 .. N, k = j + 1
               PROVE  res[k] = IF v[k] > M THEN Saturated ELSE v[k]
    OBVIOUS
  <2>1. k - 1 = j /\ k \in 0 .. N /\ j \in 0 .. N
    OBVIOUS
  <2>2. res[j] = IF v[j] > M THEN Saturated ELSE v[j]
    BY <1>2, <2>1
  <2>3. v[j] \in Nat /\ v[k] \in Nat /\ v[j] <= v[k]
    BY <2>1
  <2> HIDE DEF P
  <2>4. CASE v[j] > M
    <3>1. res[k] = Saturated
      BY <2>1, <2>2, <2>4
    <3> QED
      BY <2>3, <2>4, <3>1
  <2>5. CASE ~(v[j] > M)
    BY <2>1, <2>2, <2>5
  <2> QED
    BY <2>4, <2>5
<1> HIDE DEF P
<1>3. \A k \in Nat : k \in P
  BY <1>1, <1>2, Induct
<1> QED
  BY <1>3 DEF P

LEMMA TwoPowers ==
    /\ 2 ^ 0 = 1
    /\ \A k \in Nat : 2 ^ k \in Nat /\ 2 ^ k > 0 /\ 2 ^ (k + 1) = 2 * 2 ^ k
<1> DEFINE C(k) == SUBSET (1 .. k)
<1>1. ASSUME NEW k \in Nat
      PROVE  IsFiniteSet(C(k)) /\ Cardinality(C(k)) = 2 ^ k /\ 2 ^ k \in Nat /\ C(k) # {} /\ 2 ^ k > 0
  <2>1. IsFiniteSet(1 .. k) /\ Cardinality(1 .. k) = k
    BY FS_Interval
  <2>2. IsFiniteSet(C(k)) /\ Cardinality(C(k)) = 2 ^ k
    BY <2>1, FS_Subset, FS_SUBSET
  <2>3. C(k) # {}
    OBVIOUS
  <2> HIDE DEF C
  <2> QED
    BY <2>2, <2>3, FS_CardinalityType, FS_EmptySet
<1>2. 2 ^ 0 = 1
  <2>1. C(0) = {{}}
    OBVIOUS
  <2>2. Cardinality({{}}) = 1
    BY FS_Singleton
  <2> QED
    BY <1>1, <2>1, <2>2
<1>3. ASSUME NEW k \in Nat PROVE 2 ^ (k + 1) = 2 * 2 ^ k
  <2> DEFINE A == C(k)
             f == [x \in A |-> x \cup {k + 1}]
             B == {x \cup {k + 1} : x \in A}
  <2>1. f \in Bijection(A, B)
    <3>1. f \in [A -> B] /\ \A x \in A : f[x] = x \cup {k + 1}
      OBVIOUS
    <3>2. \A x, y \in A : f[x] = f[y] => x = y
      <4> SUFFICES ASSUME NEW x \in A, NEW y \in A, x \cup {k + 1} = y \cup {k + 1} PROVE x = y
        BY <3>1
      <4>1. k + 1 \notin x /\ k + 1 \notin y
        OBVIOUS
      <4> QED
        BY <4>1
    <3>3. \A z \in B : \E x \in A : f[x] = z
      BY <3>1
    <3> QED
      BY <3>1, <3>2, <3>3, Fun_IsBij
  <2>2. IsFiniteSet(B) /\ Cardinality(B) = Cardinality(A)
    <3> HIDE DEF A, B, f
    <3>1. IsFiniteSet(A)
      BY <1>1 DEF A
    <3>2. ExistsBijection(A, B)
      BY <2>1 DEF ExistsBijection
    <3> QED
      BY <3>1, <3>2, FS_Bijection
  <2>3. A \cap B = {} /\ A \cup B = C(k + 1)
    <3>1. \A x \in A, y \in B : x # y
      <4> SUFFICES ASSUME NEW x \in A, NEW y \in A PROVE x # y \cup {k + 1}
        OBVIOUS
      <4>1. k + 1 \notin x
        OBVIOUS
      <4> QED
        BY <4>1
    <3>2. \A x : x \in A \cup B <=> x \subseteq 1 .. k + 1
      <4>1. (1 .. k) \cup {k + 1} = 1 .. k + 1
        OBVIOUS
      <4>2. ASSUME NEW x, x \subseteq 1 .. k + 1 PROVE x \in A \cup B
        <5>1. CASE k + 1 \in x
          <6>1. x \ {k + 1} \in A /\ x = (x \ {k + 1}) \cup {k + 1}
            BY <4>1, <4>2, <5>1
          <6> QED
            BY <6>1
        <5>2. CASE k + 1 \notin x
          <6>1. x \in A
            BY <4>1, <4>2, <5>2
          <6> QED
            BY <6>1
        <5> QED
          BY <5>1, <5>2
      <4>3. ASSUME NEW x, x \in A \cup B PROVE x \subseteq 1 .. k + 1
        <5>1. CASE x \in A
          BY <4>1, <5>1
        <5>2. CASE x \in B
          <6>1. PICK y \in A : x = y \cup {k + 1}
            BY <5>2
          <6> QED
            BY <4>1, <6>1
        <5> QED
          BY <4>3, <5>1, <5>2
      <4> QED
        BY <4>2, <4>3
    <3> QED
      BY <3>1, <3>2
  <2>4. Cardinality(A \cup B) = Cardinality(A) + Cardinality(B) - Cardinality(A \cap B)
    <3>1. IsFiniteSet(A)
      BY <1>1
    <3> HIDE DEF A, B
    <3> QED
      BY <2>2, <3>1, FS_Union
  <2>5. Cardinality(A \cap B) = 0
    BY <2>3, FS_EmptySet
  <2>6. /\ Cardinality(A) = 2 ^ k /\ 2 ^ k \in Nat
        /\ Cardinality(C(k + 1)) = 2 ^ (k + 1) /\ 2 ^ (k + 1) \in Nat
    <3>1. k + 1 \in Nat
      OBVIOUS
    <3> HIDE DEF C
    <3> QED
      BY <1>1, <3>1
  <2> HIDE DEF A, B, C
  <2> QED
    BY <2>2, <2>3, <2>4, <2>5, <2>6
<1> QED
  BY <1>1, <1>2, <1>3

LEMMA Widths ==
    /\ IntMax \in Nat /\ IntMin = -IntMax - 1 /\ LongMax \in Nat /\ LongMin = -LongMax - 1
    /\ 2 ^ LongBits = 2 * (LongMax + 1) /\ LongBits \in Nat /\ LongBits > 0
<1>1. LongBits \in Nat /\ LongBits > 0 /\ LongBits - 1 \in Nat /\ IntBits - 1 \in Nat
      /\ (LongBits - 1) + 1 = LongBits
  BY WidthsAssumption
<1> DEFINE v == 2 ^ (IntBits - 1)
           w == 2 ^ (LongBits - 1)
<1>2. v \in Nat /\ v > 0 /\ w \in Nat /\ w > 0 /\ 2 ^ LongBits = 2 * w
  BY <1>1, TwoPowers
<1>3. IntMax = v - 1 /\ LongMax = w - 1
  BY DEF IntMax, LongMax
<1> HIDE DEF v, w
<1>4. IntMax \in Nat /\ LongMax \in Nat /\ w = LongMax + 1
  BY <1>2, <1>3
<1> QED
  BY <1>1, <1>2, <1>4 DEF IntMin, LongMin

\* A loop over the digits has values.
LoopOf(f, N, G) ==
    f \in [0 .. N -> Int] /\ f[0] = 0 /\ \A k \in 1 .. N : f[k] = G[<<k, f[k - 1]>>]

LEMMA LoopFound ==
    ASSUME NEW N \in Nat, NEW G, \A k \in 1 .. N, y \in Int : G[<<k, y>>] \in Int
    PROVE  \E f : LoopOf(f, N, G)
<1> DEFINE S == Int
           start == 0
           M == N
<1>1. Loop(M, S, start, G)
  BY DEF Loop
<1> HIDE DEF S, start, M
<1>2. PICK f \in [0 .. M -> S] : f[0] = start /\ \A k \in 1 .. M : f[k] = G[<<k, f[k - 1]>>]
  BY <1>1, Iteration
<1> QED
  BY <1>2 DEF S, start, M, LoopOf

\* The sums of the first digits grow.
SumsUpTo(ds, b) == [k \in 0 .. Len(ds) |-> Sum(SubSeq(ds, 1, k), b)]

LEMMA SumsGrow ==
    ASSUME NEW b \in Nat, b > 0, NEW ds, ds \in Seq(Nat)
    PROVE  LET v == SumsUpTo(ds, b) IN
           /\ \A k \in 0 .. Len(ds) : v[k] = Sum(SubSeq(ds, 1, k), b) /\ v[k] \in Nat
           /\ \A k \in 1 .. Len(ds) : v[k] = v[k - 1] * b + ds[k] /\ v[k - 1] <= v[k]
           /\ v[0] = 0 /\ v[Len(ds)] = Sum(ds, b)
<1> DEFINE v == SumsUpTo(ds, b)
<1>1. Len(ds) \in Nat /\ \A k \in 1 .. Len(ds) : ds[k] \in Nat
  OBVIOUS
<1>2. \A k \in 0 .. Len(ds) : v[k] = Sum(SubSeq(ds, 1, k), b) /\ v[k] \in Nat
  BY PrefixSums DEF SumsUpTo
<1>3. 0 \in 0 .. Len(ds) /\ Len(ds) \in 0 .. Len(ds)
  BY <1>1
<1>4. v[0] = 0 /\ v[Len(ds)] = Sum(ds, b)
  BY <1>2, <1>3, PrefixSums
<1>5. ASSUME NEW k \in 1 .. Len(ds) PROVE v[k] = v[k - 1] * b + ds[k] /\ v[k - 1] <= v[k]
  <2>1. k \in 0 .. Len(ds) /\ k - 1 \in 0 .. Len(ds) /\ ds[k] \in Nat
    BY <1>1
  <2> HIDE DEF v
  <2>2. /\ v[k] = Sum(SubSeq(ds, 1, k), b) /\ v[k - 1] = Sum(SubSeq(ds, 1, k - 1), b)
        /\ v[k - 1] \in Nat
    BY <1>2, <2>1
  <2>4. v[k] = v[k - 1] * b + ds[k]
    BY <2>2, PrefixSums
  <2>3. v[k - 1] * b >= v[k - 1]
    <3>1. b = (b - 1) + 1 /\ b - 1 \in Nat
      OBVIOUS
    <3> DEFINE c == b - 1
               u == v[k - 1]
    <3>2. c \in Nat /\ u \in Nat /\ b = c + 1
      BY <2>2, <3>1
    <3> HIDE DEF c, u
    <3>3. u * b = u * c + u /\ u * c \in Nat
      BY <3>2
    <3>4. u * b >= u
      BY <3>2, <3>3
    <3> QED
      BY <3>4 DEF u
  <2> QED
    BY <2>1, <2>2, <2>3, <2>4
<1> QED
  BY <1>2, <1>4, <1>5

\* The values of Nat a digit may have are those of the sums.
LEMMA DigitsAreNumbers ==
    ASSUME NEW ds, ds \in Seq(0 .. 35)
    PROVE  ds \in Seq(Nat)
<1>1. Len(ds) \in Nat /\ DOMAIN ds = 1 .. Len(ds) /\ \A k \in 1 .. Len(ds) : ds[k] \in Nat
  <2>1. \A k \in 1 .. Len(ds) : ds[k] \in 0 .. 35
    BY DigitsTyped
  <2>2. \A y \in 0 .. 35 : y \in Nat
    OBVIOUS
  <2> QED
    BY <2>1, <2>2, DigitsTyped
<1>2. ds = [k \in 1 .. Len(ds) |-> ds[k]]
  OBVIOUS
<1> QED
  BY <1>1, <1>2

\* What one turn of atoi's loop makes of the number so far and a digit.
AtoiTurn(u, x) == IF u = Saturated \/ AtoiLimit(u, x) THEN Saturated ELSE u * 10 + x

AtoiRuns(res, v, ds, N) ==
    /\ N \in Nat
    /\ \A k \in 0 .. N : v[k] \in Nat
    /\ \A k \in 1 .. N : v[k] = v[k - 1] * 10 + ds[k] /\ v[k - 1] <= v[k] /\ ds[k] \in 0 .. 9
    /\ v[0] = 0 /\ res[0] = 0
    /\ \A k \in 1 .. N : res[k] = AtoiTurn(res[k - 1], ds[k])

LEMMA AtoiKeeps ==
    ASSUME NEW N, NEW v, NEW res, NEW ds, AtoiRuns(res, v, ds, N)
    PROVE  \A k \in 0 .. N : res[k] = Kept(v[k], IntMax)
<1> USE DEF AtoiRuns
<1>1. ASSUME NEW k \in 1 .. N, res[k - 1] = v[k - 1]
      PROVE  res[k] = Kept(v[k], IntMax)
  <2> DEFINE u == v[k - 1]
  <2>1. u \in Nat /\ ds[k] \in 0 .. 10 - 1 /\ v[k] = u * 10 + ds[k]
    OBVIOUS
  <2>2. res[k] = AtoiTurn(u, ds[k])
    BY <1>1
  <2> HIDE DEF u
  <2>3. AtoiLimit(u, ds[k]) <=> v[k] > IntMax
    BY <2>1, LimitMeans, Widths DEF AtoiLimit
  <2>4. u # Saturated
    BY <2>1 DEF Saturated
  <2> QED
    BY <2>1, <2>2, <2>3, <2>4 DEF Kept, AtoiTurn
<1>2. \A k \in 1 .. N : res[k - 1] = Saturated => res[k] = Saturated
  BY DEF AtoiTurn
<1>3. IntMax \in Nat /\ \A k \in 1 .. N : v[k - 1] <= v[k]
  BY Widths
<1>4. \A k \in 1 .. N : res[k - 1] = v[k - 1] => res[k] = Kept(v[k], IntMax)
  BY <1>1
<1>5. Keeping(res, v, N, IntMax)
  BY <1>2, <1>3, <1>4 DEF Keeping
<1> QED
  BY <1>5, KeepsNumber

LEMMA AtoiGives ==
    ASSUME NEW a, NEW g, NEW ds, NEW r, Shape(a, g, <<>>, ds, r, 10)
    PROVE  Atoi(Joined(a, g, <<>>, AsText(ds), r)) =
               IF Sum(ds, 10) > IntMax THEN IF g = <<Minus>> THEN IntMin ELSE IntMax
               ELSE IF g = <<Minus>> THEN -Sum(ds, 10) ELSE Sum(ds, 10)
<1> DEFINE str == Joined(a, g, <<>>, AsText(ds), r)
           lead == Lead(str)
           rs == Run(str, lead.at, 10)
           Eq(f) == f = [k \in 0 .. Len(rs) |-> IF k = 0 THEN 0 ELSE AtoiTurn(f[k - 1], rs[k])]
           result == CHOOSE f : Eq(f)
           G == [kv \in (1 .. Len(rs)) \X Int |-> AtoiTurn(kv[2], rs[kv[1]])]
           v == SumsUpTo(ds, 10)
           sign == IF g = <<Minus>> THEN -1 ELSE 1
<1>1. Atoi(str) = IF result[Len(rs)] = Saturated THEN IF lead.sign = 1 THEN IntMax ELSE IntMin
                  ELSE lead.sign * result[Len(rs)]
  BY DEF Atoi, AtoiTurn
<1>2. lead.at = Len(a) + Len(g) /\ lead.sign = sign
  <2>1. lead = [at |-> Len(a) + Len(g), sign |-> sign]
    BY LeadOfParts
  <2> HIDE DEF lead, sign
  <2> QED
    BY <2>1
<1>3. rs = ds
  <2>1. Run(str, Len(a) + Len(g) + Len(<<>>), 10) = ds
    BY RunOfParts
  <2>2. Len(a) + Len(g) + Len(<<>>) = Len(a) + Len(g)
    BY ShapeTyped
  <2> HIDE DEF str, lead
  <2> QED
    BY <1>2, <2>1, <2>2
<1>4. ds \in Seq(0 .. 35) /\ ds \in Seq(Nat) /\ Len(ds) \in Nat
      /\ \A k \in 1 .. Len(ds) : ds[k] \in Nat /\ ds[k] \in 0 .. 9
  <2>1. ds \in Seq(0 .. 35) /\ \A k \in DOMAIN ds : ds[k] < 10
    BY DEF Shape
  <2>2. ds \in Seq(Nat) /\ Len(ds) \in Nat /\ \A k \in 1 .. Len(ds) : ds[k] \in 0 .. 35 /\ ds[k] < 10
    BY <2>1, DigitsAreNumbers, DigitsTyped
  <2>3. \A y \in 0 .. 35 : y < 10 => y \in Nat /\ y \in 0 .. 9
    OBVIOUS
  <2> QED
    BY <2>1, <2>2, <2>3
<1> HIDE DEF str, lead, rs, sign
<1>5. \E f : Eq(f)
  <2> DEFINE N == Len(rs)
  <2>1. N \in Nat /\ \A k \in 1 .. N : rs[k] \in Nat
    BY <1>3, <1>4
  <2>2. \A k \in 1 .. N, y \in Int : G[<<k, y>>] = AtoiTurn(y, rs[k]) /\ AtoiTurn(y, rs[k]) \in Int
    <3> SUFFICES ASSUME NEW k \in 1 .. N, NEW y \in Int
                 PROVE  G[<<k, y>>] = AtoiTurn(y, rs[k]) /\ AtoiTurn(y, rs[k]) \in Int
      OBVIOUS
    <3>1. y * 10 + rs[k] \in Int
      BY <2>1
    <3> QED
      BY <3>1 DEF Saturated, AtoiTurn
  <2> HIDE DEF G, N
  <2>3. PICK f : LoopOf(f, N, G)
    BY <2>1, <2>2, LoopFound
  <2>4. \A k \in 0 .. N : f[k] = IF k = 0 THEN 0 ELSE AtoiTurn(f[k - 1], rs[k])
    <3> TAKE k \in 0 .. N
    <3>1. k # 0 => k \in 1 .. N /\ f[k - 1] \in Int
      BY <2>1, <2>3 DEF LoopOf
    <3> QED
      BY <2>2, <2>3, <3>1 DEF LoopOf
  <2>5. f = [k \in 0 .. N |-> f[k]]
    BY <2>3 DEF LoopOf
  <2> QED
    BY <2>4, <2>5 DEF N
<1>6. Eq(result)
  <2> HIDE DEF Eq
  <2> QED
    BY <1>5
<1> HIDE DEF result
<1>7. result[0] = 0 /\ \A k \in 1 .. Len(ds) : result[k] = AtoiTurn(result[k - 1], ds[k])
  <2>1. \A k \in 0 .. Len(ds) : result[k] = IF k = 0 THEN 0 ELSE AtoiTurn(result[k - 1], ds[k])
    BY <1>3, <1>6
  <2> QED
    BY <1>4, <2>1
<1>8. /\ \A k \in 0 .. Len(ds) : v[k] \in Nat
      /\ \A k \in 1 .. Len(ds) : v[k] = v[k - 1] * 10 + ds[k] /\ v[k - 1] <= v[k]
      /\ v[0] = 0 /\ v[Len(ds)] = Sum(ds, 10)
  BY <1>4, SumsGrow
<1> HIDE DEF v
<1>9. \A k \in 0 .. Len(ds) : result[k] = IF v[k] > IntMax THEN Saturated ELSE v[k]
  <2> DEFINE N == Len(ds)
  <2>1. N \in Nat /\ \A k \in 1 .. N : ds[k] \in 0 .. 9
    BY <1>4
  <2>2. /\ \A k \in 0 .. N : v[k] \in Nat
        /\ \A k \in 1 .. N : v[k] = v[k - 1] * 10 + ds[k] /\ v[k - 1] <= v[k] /\ ds[k] \in 0 .. 9
        /\ v[0] = 0
    BY <1>8, <2>1
  <2>3. result[0] = 0 /\ \A k \in 1 .. N : result[k] = AtoiTurn(result[k - 1], ds[k])
    BY <1>7
  <2> HIDE DEF N
  <2>4. AtoiRuns(result, v, ds, N)
    BY <2>1, <2>2, <2>3 DEF AtoiRuns
  <2>5. \A k \in 0 .. N : result[k] = Kept(v[k], IntMax)
    BY <2>4, AtoiKeeps
  <2> QED
    BY <2>5 DEF N, Kept
<1>10. result[Len(ds)] = IF Sum(ds, 10) > IntMax THEN Saturated ELSE Sum(ds, 10)
  <2>1. Len(ds) \in 0 .. Len(ds)
    BY <1>4
  <2> QED
    BY <1>8, <1>9, <2>1
<1> DEFINE u == Sum(ds, 10)
<1>11. u \in Nat /\ IntMax \in Nat /\ IntMin = -IntMax - 1
  BY <1>4, SumTyped, Widths
<1>12. Atoi(str) = IF result[Len(ds)] = Saturated THEN IF sign = 1 THEN IntMax ELSE IntMin
                   ELSE sign * result[Len(ds)]
  BY <1>1, <1>2, <1>3
<1>13. result[Len(ds)] = IF u > IntMax THEN Saturated ELSE u
  BY <1>10
<1> HIDE DEF u
<1>14. CASE g = <<Minus>>
  <2>1. sign = -1
    BY <1>14 DEF sign
  <2>2. -1 * u = -u
    BY <1>11
  <2> QED
    BY <1>11, <1>12, <1>13, <1>14, <2>1, <2>2 DEF Saturated, u, str
<1>15. CASE g # <<Minus>>
  <2>1. sign = 1
    BY <1>15 DEF sign
  <2>2. 1 * u = u
    BY <1>11
  <2> QED
    BY <1>11, <1>12, <1>13, <1>15, <2>1, <2>2 DEF Saturated, u, str
<1> QED
  BY <1>14, <1>15

\* What one turn of strtol's loop makes of the number so far and a digit.
StrtolTurn(u, x, b, sign) ==
    IF u < 0 THEN u
    ELSE IF StrtolLimit(u, x, b, sign) THEN Saturated
    ELSE IF u * b + x > LongMax THEN Undefined
    ELSE u * b + x

\* A run of the loop in which no sum is the magnitude of the least long, if that is
\* what the limit lets through.
StrtolRuns(res, v, ds, N, b, sign) ==
    /\ N \in Nat /\ b \in Nat /\ b > 0 /\ sign \in {1, -1}
    /\ \A k \in 0 .. N : v[k] \in Nat
    /\ \A k \in 1 .. N : v[k] = v[k - 1] * b + ds[k] /\ v[k - 1] <= v[k] /\ ds[k] \in 0 .. b - 1
    /\ sign = -1 => \A k \in 1 .. N : v[k] # LongMax + 1
    /\ v[0] = 0 /\ res[0] = 0
    /\ \A k \in 1 .. N : res[k] = StrtolTurn(res[k - 1], ds[k], b, sign)

LEMMA StrtolKeeps ==
    ASSUME NEW N, NEW v, NEW res, NEW ds, NEW b, NEW sign, StrtolRuns(res, v, ds, N, b, sign)
    PROVE  \A k \in 0 .. N : res[k] = Kept(v[k], LongMax)
<1> USE DEF StrtolRuns
<1>1. ASSUME NEW k \in 1 .. N, res[k - 1] = v[k - 1]
      PROVE  res[k] = Kept(v[k], LongMax)
  <2> DEFINE u == v[k - 1]
             M == Magnitude(sign)
  <2>1. u \in Nat /\ v[k] \in Nat /\ ds[k] \in 0 .. b - 1 /\ v[k] = u * b + ds[k]
    OBVIOUS
  <2>2. res[k] = StrtolTurn(u, ds[k], b, sign)
    BY <1>1
  <2>3. M \in Nat /\ LongMax \in Nat /\ (sign = 1 => M = LongMax)
        /\ (sign = -1 => M = LongMax + 1 /\ v[k] # LongMax + 1)
    BY Widths DEF Magnitude
  <2>4. sign = 1 \/ sign = -1
    OBVIOUS
  <2> HIDE DEF u, M
  <2>5. StrtolLimit(u, ds[k], b, sign) <=> v[k] > M
    <3>1. b \in Nat /\ b > 0
      OBVIOUS
    <3>2. u > M \div b \/ (u = M \div b /\ ds[k] > M % b) <=> u * b + ds[k] > M
      BY <2>1, <2>3, <3>1, LimitMeans
    <3> QED
      BY <2>1, <3>2 DEF StrtolLimit, M
  <2>6. ~(u < 0)
    BY <2>1
  <2>7. v[k] > M <=> v[k] > LongMax
    <3> DEFINE w == v[k]
    <3>1. w \in Nat
      BY <2>1
    <3>2. sign = -1 => w # LongMax + 1
      BY <2>3
    <3> HIDE DEF w
    <3>3. sign = 1 => (w > M <=> w > LongMax)
      BY <2>3
    <3>4. sign = -1 => (w > M <=> w > LongMax)
      BY <2>3, <3>1, <3>2
    <3>5. w > M <=> w > LongMax
      BY <2>4, <3>3, <3>4
    <3> QED
      BY <3>5 DEF w
  <2> QED
    BY <2>1, <2>2, <2>5, <2>6, <2>7 DEF Kept, StrtolTurn
<1>2. \A k \in 1 .. N : res[k - 1] = Saturated => res[k] = Saturated
  BY DEF StrtolTurn, Saturated
<1>3. LongMax \in Nat /\ \A k \in 1 .. N : v[k - 1] <= v[k]
  BY Widths
<1>4. \A k \in 1 .. N : res[k - 1] = v[k - 1] => res[k] = Kept(v[k], LongMax)
  BY <1>1
<1>5. Keeping(res, v, N, LongMax)
  BY <1>2, <1>3, <1>4 DEF Keeping
<1> QED
  BY <1>5, KeepsNumber

\* The base strtol is given: that of the number, or 0 for a number that tells its own.
Asked(base0, p, ds, r, b) ==
    /\ b \in 2 .. 36
    /\ \/ base0 = b /\ p = <<>>
       \/ base0 = 0 /\ TellsBase(p, ds, r, b)

LEMMA StrtolGives ==
    ASSUME NEW a, NEW g, NEW p, NEW ds, NEW r, NEW b, NEW base0,
           Shape(a, g, p, ds, r, b), Asked(base0, p, ds, r, b),
           g = <<Minus>> => \A k \in DOMAIN ds : Sum(SubSeq(ds, 1, k), b) # LongMax + 1
    PROVE  LET given == Strtol(Joined(a, g, p, AsText(ds), r), base0)
           IN  IF Sum(ds, b) > LongMax
               THEN given.values = {IF g = <<Minus>> THEN LongMin ELSE LongMax} /\ given.read = {0}
               ELSE /\ given.values = {IF g = <<Minus>> THEN -Sum(ds, b) ELSE Sum(ds, b)}
                    /\ given.read = {Len(a) + Len(g) + Len(p) + Len(ds)}
<1> DEFINE str == Joined(a, g, p, AsText(ds), r)
           lead == Lead(str)
           num == IF base0 = 0 THEN Detected(str, lead.at) ELSE [base |-> base0, at |-> lead.at]
           rs == Run(str, num.at, num.base)
           Eq(f) == f = [k \in 0 .. Len(rs) |->
                            IF k = 0 THEN 0 ELSE StrtolTurn(f[k - 1], rs[k], num.base, lead.sign)]
           result == CHOOSE f : Eq(f)
           final == result[Len(rs)]
           sign == IF g = <<Minus>> THEN -1 ELSE 1
           z == Len(a) + Len(g) + Len(p)
           G == [kv \in (1 .. Len(ds)) \X Int |-> StrtolTurn(kv[2], ds[kv[1]], b, sign)]
           v == SumsUpTo(ds, b)
           given == Strtol(str, base0)
<1>1. given = [values |-> CASE final = Undefined -> LongMin .. LongMax
                            [] final = Saturated -> {IF lead.sign = 1 THEN LongMax ELSE LongMin}
                            [] OTHER -> {lead.sign * final},
               read |-> IF final = Saturated THEN {0}
                        ELSE IF final = Undefined THEN {0, num.at + Len(rs)}
                        ELSE {num.at + Len(rs)}]
  BY DEF Strtol, StrtolTurn
<1>2. lead.at = Len(a) + Len(g) /\ lead.sign = sign
  <2>1. lead = [at |-> Len(a) + Len(g), sign |-> sign]
    BY LeadOfParts
  <2> HIDE DEF lead, sign
  <2> QED
    BY <2>1
<1>3. b \in 2 .. 36 /\ b \in Nat /\ z \in Nat
  <2>1. b \in 2 .. 36
    BY DEF Asked
  <2>2. z \in Nat
    BY ShapeTyped
  <2> QED
    BY <2>1, <2>2
<1> HIDE DEF str, lead
<1>4. num.base = b /\ num.at = z
  <2>1. CASE base0 = b /\ p = <<>>
    <3>1. base0 # 0 /\ num = [base |-> base0, at |-> lead.at]
      BY <1>3, <2>1
    <3>2. Len(a) + Len(g) + Len(p) = Len(a) + Len(g)
      BY <2>1, ShapeTyped
    <3> HIDE DEF num
    <3> QED
      BY <1>2, <2>1, <3>1, <3>2
  <2>2. CASE base0 = 0 /\ TellsBase(p, ds, r, b)
    <3>1. num = Detected(str, Len(a) + Len(g))
      BY <1>2, <2>2
    <3>2. Detected(str, Len(a) + Len(g)) = [base |-> b, at |-> z]
      BY <2>2, DetectedOfParts DEF str
    <3> HIDE DEF num, z
    <3> QED
      BY <3>1, <3>2
  <2> QED
    BY <2>1, <2>2 DEF Asked
<1>5. rs = ds
  <2>1. Run(str, z, b) = ds
    BY <1>3, RunOfParts DEF str
  <2> HIDE DEF num, z
  <2> QED
    BY <1>4, <2>1
<1> HIDE DEF num, rs, sign, z, G, v
<1>6. ds \in Seq(0 .. 35) /\ ds \in Seq(Nat) /\ Len(ds) \in Nat /\ DOMAIN ds = 1 .. Len(ds)
      /\ \A k \in 1 .. Len(ds) : ds[k] \in Nat /\ ds[k] \in 0 .. b - 1
  <2>1. ds \in Seq(0 .. 35) /\ \A k \in DOMAIN ds : ds[k] < b
    BY DEF Shape
  <2>2. /\ ds \in Seq(Nat) /\ Len(ds) \in Nat /\ DOMAIN ds = 1 .. Len(ds)
        /\ \A k \in 1 .. Len(ds) : ds[k] \in 0 .. 35 /\ ds[k] < b
    BY <2>1, DigitsAreNumbers, DigitsTyped
  <2>3. \A y \in 0 .. 35 : y < b => y \in Nat /\ y \in 0 .. b - 1
    BY <1>3
  <2> QED
    BY <2>1, <2>2, <2>3
<1>7. \E f : Eq(f)
  <2> DEFINE N == Len(ds)
             T(y, x) == StrtolTurn(y, x, b, sign)
  <2>1. N \in Nat /\ \A k \in 1 .. N : ds[k] \in Nat
    BY <1>6
  <2>2. \A k \in 1 .. N, y \in Int : G[<<k, y>>] = T(y, ds[k]) /\ T(y, ds[k]) \in Int
    <3> SUFFICES ASSUME NEW k \in 1 .. N, NEW y \in Int
                 PROVE  G[<<k, y>>] = T(y, ds[k]) /\ T(y, ds[k]) \in Int
      OBVIOUS
    <3>1. y * b + ds[k] \in Int
      BY <1>3, <2>1
    <3>2. T(y, ds[k]) \in Int
      BY <3>1 DEF Saturated, Undefined, StrtolTurn
    <3>3. G[<<k, y>>] = T(y, ds[k])
      BY DEF G
    <3> QED
      BY <3>2, <3>3
  <2> HIDE DEF N, T
  <2>3. PICK f : LoopOf(f, N, G)
    BY <2>1, <2>2, LoopFound
  <2>4. \A k \in 0 .. N : f[k] = IF k = 0 THEN 0 ELSE T(f[k - 1], ds[k])
    <3> TAKE k \in 0 .. N
    <3>1. k # 0 => k \in 1 .. N /\ f[k - 1] \in Int
      BY <2>1, <2>3 DEF LoopOf
    <3> QED
      BY <2>2, <2>3, <3>1 DEF LoopOf
  <2>5. f = [k \in 0 .. N |-> f[k]]
    BY <2>3 DEF LoopOf
  <2>6. f = [k \in 0 .. N |-> IF k = 0 THEN 0 ELSE T(f[k - 1], ds[k])]
    BY <2>4, <2>5
  <2> QED
    BY <1>2, <1>4, <1>5, <2>6 DEF N, T
<1>8. Eq(result)
  <2> HIDE DEF Eq
  <2> QED
    BY <1>7
<1> HIDE DEF result
<1>9. result[0] = 0 /\ \A k \in 1 .. Len(ds) : result[k] = StrtolTurn(result[k - 1], ds[k], b, sign)
  <2>1. \A k \in 0 .. Len(ds) : result[k] = IF k = 0 THEN 0 ELSE StrtolTurn(result[k - 1], ds[k], b, sign)
    BY <1>2, <1>4, <1>5, <1>8
  <2> QED
    BY <1>6, <2>1
<1>10. /\ \A k \in 0 .. Len(ds) : v[k] = Sum(SubSeq(ds, 1, k), b) /\ v[k] \in Nat
       /\ \A k \in 1 .. Len(ds) : v[k] = v[k - 1] * b + ds[k] /\ v[k - 1] <= v[k]
       /\ v[0] = 0 /\ v[Len(ds)] = Sum(ds, b)
  <2>1. b > 0
    BY <1>3
  <2> QED
    BY <1>3, <1>6, <2>1, SumsGrow DEF v
<1>11. StrtolRuns(result, v, ds, Len(ds), b, sign)
  <2> DEFINE N == Len(ds)
  <2>1. N \in Nat /\ b \in Nat /\ b > 0 /\ sign \in {1, -1} /\ \A k \in 1 .. N : ds[k] \in 0 .. b - 1
    BY <1>3, <1>6 DEF sign
  <2>2. /\ \A k \in 0 .. N : v[k] \in Nat
        /\ \A k \in 1 .. N : v[k] = v[k - 1] * b + ds[k] /\ v[k - 1] <= v[k]
        /\ v[0] = 0
    BY <1>10
  <2>3. sign = -1 => \A k \in 1 .. N : v[k] # LongMax + 1
    <3> SUFFICES ASSUME sign = -1, NEW k \in 1 .. N PROVE v[k] # LongMax + 1
      OBVIOUS
    <3>1. g = <<Minus>>
      BY DEF sign
    <3>2. k \in 0 .. N /\ k \in DOMAIN ds
      BY <1>6
    <3> QED
      BY <1>10, <3>1, <3>2
  <2> HIDE DEF N
  <2>4. StrtolRuns(result, v, ds, N, b, sign)
    BY <1>9, <2>1, <2>2, <2>3 DEF StrtolRuns, N
  <2> QED
    BY <2>4 DEF N
<1> DEFINE u == Sum(ds, b)
<1>12. result[Len(ds)] = Kept(u, LongMax)
  <2>1. Len(ds) \in 0 .. Len(ds)
    BY <1>6
  <2> QED
    BY <1>10, <1>11, <2>1, StrtolKeeps
<1>13. u \in Nat /\ LongMax \in Nat /\ LongMin = -LongMax - 1
  BY <1>3, <1>6, SumTyped, Widths
<1>14. final = Kept(u, LongMax)
  BY <1>5, <1>12
<1>15. given.values = CASE final = Undefined -> LongMin .. LongMax
                        [] final = Saturated -> {IF sign = 1 THEN LongMax ELSE LongMin}
                        [] OTHER -> {sign * final}
  BY <1>1, <1>2
<1>16. given.read = IF final = Saturated THEN {0}
                    ELSE IF final = Undefined THEN {0, z + Len(ds)}
                    ELSE {z + Len(ds)}
  BY <1>1, <1>4, <1>5
<1> HIDE DEF u, final, given
<1>17. CASE u > LongMax
  <2>1. final = Saturated /\ Saturated # Undefined
    BY <1>14, <1>17 DEF Kept, Saturated, Undefined
  <2>2. given.values = {IF sign = 1 THEN LongMax ELSE LongMin} /\ given.read = {0}
    BY <1>15, <1>16, <2>1
  <2>3. (IF sign = 1 THEN LongMax ELSE LongMin) = IF g = <<Minus>> THEN LongMin ELSE LongMax
    BY DEF sign
  <2> QED
    BY <1>17, <2>2, <2>3 DEF u, given, str
<1>18. CASE ~(u > LongMax)
  <2>1. final = u /\ u # Saturated /\ u # Undefined
    BY <1>13, <1>14, <1>18 DEF Kept, Saturated, Undefined
  <2>2. given.values = {sign * u} /\ given.read = {z + Len(ds)}
    BY <1>15, <1>16, <2>1
  <2>3. sign * u = IF g = <<Minus>> THEN -u ELSE u
    <3>1. (-1) * u = -u /\ 1 * u = u
      BY <1>13
    <3>2. CASE g = <<Minus>>
      BY <3>1, <3>2 DEF sign
    <3>3. CASE g # <<Minus>>
      BY <3>1, <3>3 DEF sign
    <3> QED
      BY <3>2, <3>3
  <2> QED
    BY <1>18, <2>2, <2>3 DEF u, given, str, z
<1> QED
  BY <1>17, <1>18

-----------------------------------------------------------------------------
(* Numbers: what atoi and strtol are promised to give. *)

LEMMA SpacesAreSymbols ==
    /\ \A space \in Spaces : space \in Seq(Symbols)
    /\ \A tail \in Tails : tail \in Seq(Symbols)
<1>1. \A q \in Seq(STRING) : q \in Seq(Symbols)
  <2> TAKE q \in Seq(STRING)
  <2>1. \A k \in 1 .. Len(q) : q[k] \in Symbols
    BY ElementOfSeq DEF Symbols
  <2>2. Len(q) \in Nat /\ q = [k \in 1 .. Len(q) |-> q[k]]
    BY LenProperties
  <2> QED
    BY <2>1, <2>2
<1> QED
  BY <1>1, SpacesAssumption, TailsAssumption

LEMMA BuildMakes ==
    ASSUME NEW b, NEW p, p \in {<<>>, <<Zero>>, <<Zero, SmallX>>}, Build(b, p)
    PROVE  /\ Shape(parts'.space, parts'.sign, p, parts'.digits, parts'.tail, b)
           /\ parts'.prefix = p /\ base' = b
<1>1. PICK a \in Spaces, g \in {<<>>, <<"+">>, <<"-">>}, ds \in Digits, r \in Tails :
        /\ \A k \in DOMAIN ds : ds[k] < b
        /\ DigitValue(At(r, 0)) >= b
        /\ g \o p \o ds = <<>> => At(r, 0) \notin {"+", "-"} /\ ~IsSpace(At(r, 0))
        /\ parts' = [space |-> a, sign |-> g, prefix |-> p, digits |-> ds, tail |-> r]
        /\ base' = b
  BY Zenon DEF Build
<1>2. g \in {<<>>, <<Plus>>, <<Minus>>}
  BY Zenon DEF Plus, Minus
<1>3. g = <<>> /\ p = <<>> /\ ds = <<>> => At(r, 0) # Plus /\ At(r, 0) # Minus /\ ~IsSpace(At(r, 0))
  <2>1. <<>> \o <<>> \o <<>> = <<>>
    OBVIOUS
  <2>2. g = <<>> /\ p = <<>> /\ ds = <<>> => g \o p \o ds = <<>>
    BY <2>1
  <2> QED
    BY <1>1, <2>2, Zenon DEF Plus, Minus
<1>4. a \in Seq(Symbols) /\ (\A k \in DOMAIN a : IsSpace(a[k])) /\ r \in Seq(Symbols)
      /\ ds \in Seq(0 .. 35)
  BY SpacesAreSymbols, SpacesAssumption, DigitsAssumption
<1>5. Shape(a, g, p, ds, r, b)
  BY <1>1, <1>2, <1>3, <1>4 DEF Shape
<1>6. /\ parts'.space = a /\ parts'.sign = g /\ parts'.prefix = p /\ parts'.digits = ds
      /\ parts'.tail = r /\ base' = b
  BY <1>1
<1> QED
  BY <1>5, <1>6

LEMMA AtoiStep == CallAtoi => ParsesValue'
<1> SUFFICES ASSUME CallAtoi PROVE ParsesValue'
  OBVIOUS
<1> DEFINE a == parts'.space
           g == parts'.sign
           ds == parts'.digits
           r == parts'.tail
           u == Sum(ds, 10)
<1>1. Shape(a, g, <<>>, ds, r, 10) /\ parts'.prefix = <<>> /\ base' = 10
  <2>1. Build(10, <<>>) /\ <<>> \in {<<>>, <<Zero>>, <<Zero, SmallX>>}
    BY DEF CallAtoi
  <2> QED
    BY <2>1, BuildMakes
<1>2. text' = Joined(a, g, <<>>, AsText(ds), r)
  BY <1>1 DEF CallAtoi, UpToTail, Joined
<1>3. number' = Atoi(text') /\ called' = "atoi"
  BY DEF CallAtoi
<1>4. Exact' = IF g = <<Minus>> THEN -u ELSE u
  BY <1>1, Zenon DEF Exact, Minus
<1>5. u \in Nat /\ IntMax \in Nat /\ IntMin = -IntMax - 1
  <2>1. ds \in Seq(0 .. 35)
    BY <1>1 DEF Shape
  <2>2. ds \in Seq(Nat) /\ 10 \in Nat
    BY <2>1, DigitsAreNumbers
  <2> QED
    BY <2>2, SumTyped, Widths
<1>6. number' = IF u > IntMax THEN IF g = <<Minus>> THEN IntMin ELSE IntMax
                ELSE IF g = <<Minus>> THEN -u ELSE u
  <2> HIDE DEF a, g, ds, r
  <2> QED
    BY <1>1, <1>2, <1>3, AtoiGives
<1> HIDE DEF a, g, ds, r, u
<1>7. number' = Nearest(Exact', IntMin, IntMax)
  <2>1. CASE g = <<Minus>>
    BY <1>4, <1>5, <1>6, <2>1 DEF Nearest
  <2>2. CASE g # <<Minus>>
    BY <1>4, <1>5, <1>6, <2>2 DEF Nearest
  <2> QED
    BY <2>1, <2>2
<1>8. called' # "strtol"
  BY <1>3
<1>9. (Nearest(Exact, IntMin, IntMax))' = Nearest(Exact', IntMin, IntMax)
  OBVIOUS
<1> QED
  BY <1>7, <1>8, <1>9, Zenon DEF ParsesValue

LEMMA StrtolStep == CallStrtol => ParsesValue'
<1> SUFFICES ASSUME CallStrtol PROVE ParsesValue'
  OBVIOUS
<1> DEFINE a == parts'.space
           g == parts'.sign
           p == parts'.prefix
           ds == parts'.digits
           r == parts'.tail
           u == Sum(ds, base')
           ex == IF g = <<Minus>> THEN -u ELSE u
           len == Len(a) + Len(g) + Len(p) + Len(ds)
<1>1. PICK base0 : /\ Shape(a, g, p, ds, r, base') /\ Asked(base0, p, ds, r, base')
                   /\ text' = Joined(a, g, p, AsText(ds), r) /\ Gives(Strtol(text', base0))
  <2>1. CASE \E b \in Bases \cap 2 .. 36 :
               /\ Build(b, <<>>)
               /\ text' = UpToTail(parts') \o parts'.tail
               /\ Gives(Strtol(text', b))
    <3>1. PICK b \in Bases \cap 2 .. 36 :
               /\ Build(b, <<>>)
               /\ text' = UpToTail(parts') \o parts'.tail
               /\ Gives(Strtol(text', b))
      BY <2>1
    <3>2. Shape(a, g, <<>>, ds, r, b) /\ p = <<>> /\ base' = b
      <4>1. <<>> \in {<<>>, <<Zero>>, <<Zero, SmallX>>}
        OBVIOUS
      <4> QED
        BY <3>1, <4>1, BuildMakes
    <3>3. Shape(a, g, p, ds, r, base') /\ Asked(b, p, ds, r, base')
      <4>1. b \in 2 .. 36
        BY <3>1
      <4> HIDE DEF a, g, p, ds, r
      <4>2. p = <<>> /\ base' = b /\ Shape(a, g, p, ds, r, base')
        BY <3>2
      <4>3. Asked(b, p, ds, r, base')
        BY <4>1, <4>2, Zenon DEF Asked
      <4> QED
        BY <4>2, <4>3
    <3>4. text' = Joined(a, g, p, AsText(ds), r)
      BY <3>1 DEF UpToTail, Joined
    <3> QED
      BY <3>1, <3>3, <3>4
  <2>2. CASE \E known \in {<<8, <<"0">>>>, <<10, <<>>>>, <<16, <<"0", "x">>>>} :
               /\ Build(known[1], known[2])
               /\ text' = UpToTail(parts') \o parts'.tail
               /\ known[1] = 10 => \A k \in DOMAIN parts'.digits : parts'.digits[1] # 0
               /\ known[1] = 8 /\ parts'.digits = <<>> => At(parts'.tail, 0) \notin {"x", "X"}
               /\ Gives(Strtol(text', 0))
    <3>1. PICK known \in {<<8, <<"0">>>>, <<10, <<>>>>, <<16, <<"0", "x">>>>} :
               /\ Build(known[1], known[2])
               /\ text' = UpToTail(parts') \o parts'.tail
               /\ known[1] = 10 => \A k \in DOMAIN parts'.digits : parts'.digits[1] # 0
               /\ known[1] = 8 /\ parts'.digits = <<>> => At(parts'.tail, 0) \notin {"x", "X"}
               /\ Gives(Strtol(text', 0))
      BY <2>2
    <3> DEFINE b == known[1]
               q == known[2]
    <3>2. \/ b = 8 /\ q = <<Zero>>
          \/ b = 10 /\ q = <<>>
          \/ b = 16 /\ q = <<Zero, SmallX>>
      BY DEF Zero, SmallX
    <3>3. Build(b, q) /\ (b = 10 => \A k \in DOMAIN ds : ds[1] # 0)
          /\ (b = 8 /\ ds = <<>> => At(r, 0) \notin {"x", "X"})
      BY <3>1
    <3> HIDE DEF b, q
    <3>4. q \in {<<>>, <<Zero>>, <<Zero, SmallX>>} /\ b \in 2 .. 36
      BY <3>2
    <3>5. Shape(a, g, q, ds, r, b) /\ p = q /\ base' = b
      BY <3>3, <3>4, BuildMakes
    <3>6. Shape(a, g, p, ds, r, base') /\ Asked(0, p, ds, r, base')
      BY <3>2, <3>3, <3>4, <3>5 DEF Asked, TellsBase
    <3>7. text' = Joined(a, g, p, AsText(ds), r)
      BY <3>1 DEF UpToTail, Joined
    <3> QED
      BY <3>1, <3>6, <3>7
  <2> QED
    BY <2>1, <2>2 DEF CallStrtol
<1>2. called' = "strtol"
  BY DEF CallStrtol
<1>3. Exact' = ex
  BY Zenon DEF Exact, Minus
<1>8. ds \in Seq(0 .. 35) /\ base' \in Nat
  <2>1. base' \in 2 .. 36
    BY <1>1 DEF Asked
  <2>2. ds \in Seq(0 .. 35)
    BY <1>1 DEF Shape
  <2> QED
    BY <2>1, <2>2
<1>4. u \in Nat /\ LongMax \in Nat /\ LongMin = -LongMax - 1
  <2>1. ds \in Seq(0 .. 35) /\ base' \in Nat
    BY <1>8
  <2>2. ds \in Seq(Nat)
    BY <2>1, DigitsAreNumbers
  <2> QED
    BY <2>1, <2>2, SumTyped, Widths
<1>5. Len(UpToTail(parts')) = len
  <2>1. Len(a \o g \o p \o AsText(ds)) = Len(a) + Len(g) + Len(p) + Len(AsText(ds))
    BY <1>1, PartsOfShape DEF PartsAre
  <2>2. Len(AsText(ds)) = Len(ds)
    BY <1>1, ShapeTyped
  <2> QED
    BY <2>1, <2>2 DEF UpToTail
<1>6. ASSUME ~Overflows'
      PROVE  number' = Nearest(ex, LongMin, LongMax) /\ read' = IF number' = ex THEN len ELSE 0
  <2>1. g = <<Minus>> => \A k \in DOMAIN ds : Sum(SubSeq(ds, 1, k), base') # LongMax + 1
    BY <1>6, Zenon DEF Overflows, Minus
  <2> DEFINE given == Strtol(text', base0)
  <2>2. number' \in given.values /\ read' \in given.read
    BY <1>1 DEF Gives
  <2>3. IF u > LongMax
        THEN given.values = {IF g = <<Minus>> THEN LongMin ELSE LongMax} /\ given.read = {0}
        ELSE given.values = {IF g = <<Minus>> THEN -u ELSE u} /\ given.read = {len}
    <3> HIDE DEF a, g, p, ds, r
    <3> QED
      BY <1>1, <2>1, StrtolGives
  \* All the digits are the last of these sums.
  <2>6. g = <<Minus>> => u # LongMax + 1
    <3>1. ds \in Seq(0 .. 35) /\ base' \in Nat
      BY <1>8
    <3>2. ds \in Seq(Nat) /\ Len(ds) \in Nat /\ DOMAIN ds = 1 .. Len(ds)
      BY <3>1, DigitsAreNumbers, DigitsTyped
    <3>3. Sum(SubSeq(ds, 1, Len(ds)), base') = u
      BY <3>1, <3>2, PrefixSums
    <3>4. CASE Len(ds) = 0
      <4>1. u = 0
        BY <3>1, <3>2, <3>4, SumTyped
      <4> QED
        BY <1>4, <4>1
    <3>5. CASE Len(ds) # 0
      <4>1. Len(ds) \in DOMAIN ds
        BY <3>2, <3>5
      <4> QED
        BY <2>1, <3>3, <4>1
    <3> QED
      BY <3>4, <3>5
  <2> HIDE DEF a, g, p, ds, r, u, given, len
  <2>4. CASE u > LongMax
    <3>1. number' = (IF g = <<Minus>> THEN LongMin ELSE LongMax) /\ read' = 0
      BY <2>2, <2>3, <2>4
    <3>2. CASE g = <<Minus>>
      BY <1>4, <2>4, <2>6, <3>1, <3>2 DEF Nearest
    <3>3. CASE g # <<Minus>>
      BY <1>4, <2>4, <3>1, <3>3 DEF Nearest
    <3> QED
      BY <3>2, <3>3
  <2>5. CASE ~(u > LongMax)
    <3>1. number' = ex /\ read' = len
      BY <2>2, <2>3, <2>5
    <3> QED
      BY <1>4, <2>5, <3>1 DEF Nearest
  <2> QED
    BY <2>4, <2>5
<1>7. called' # "atoi"
  BY <1>2
<1> HIDE DEF ex, len
<1> QED
  BY <1>3, <1>5, <1>6, <1>7, Zenon DEF ParsesValue

-----------------------------------------------------------------------------
(* Numbers: what itoa and uitoa are promised to print. *)

Values(t) == [k \in DOMAIN t |-> DigitValue(t[k])]

LEMMA ValuesTyped ==
    ASSUME NEW t, t \in Seq(Symbols)
    PROVE  Values(t) \in Seq(Nat) /\ Len(Values(t)) = Len(t)
           /\ \A k \in 1 .. Len(t) : Values(t)[k] = DigitValue(t[k])
<1>1. Len(t) \in Nat /\ DOMAIN t = 1 .. Len(t)
  BY LenProperties
<1>2. \A ch : DigitValue(ch) \in Nat
  <2> TAKE ch
  <2> DEFINE x == DigitValue(ch)
  <2>1. x \in 0 .. 36
    BY DigitValueTyped
  <2> HIDE DEF x
  <2>2. x \in Nat
    BY <2>1
  <2> QED
    BY <2>2 DEF x
<1> DEFINE N == Len(t)
           w == [k \in 1 .. N |-> DigitValue(t[k])]
<1>3. w \in [1 .. N -> Nat] /\ \A k \in 1 .. N : w[k] = DigitValue(t[k])
  BY <1>2
<1>4. Values(t) = w
  BY <1>1 DEF Values
<1> HIDE DEF w
<1>5. w \in Seq(Nat) /\ Len(w) = N
  <2> HIDE DEF N
  <2>1. N \in Nat
    BY <1>1 DEF N
  <2> QED
    BY <1>3, <2>1
<1> QED
  BY <1>3, <1>4, <1>5

LEMMA ValuesOfAppend ==
    ASSUME NEW t, t \in Seq(Symbols), NEW ch, ch \in Symbols
    PROVE  Values(Append(t, ch)) = Append(Values(t), DigitValue(ch))
<1> DEFINE es == Append(t, ch)
           x == DigitValue(ch)
           A == Values(es)
           vs == Values(t)
           B == Append(vs, x)
<1>1. es \in Seq(Symbols) /\ Len(es) = Len(t) + 1 /\ Len(t) \in Nat
      /\ es[Len(t) + 1] = ch /\ \A k \in 1 .. Len(t) : es[k] = t[k]
  BY AppendProperties
<1>2. x \in Nat
  <2>1. x \in 0 .. 36
    BY DigitValueTyped
  <2> HIDE DEF x
  <2> QED
    BY <2>1
<1>3. vs \in Seq(Nat) /\ Len(vs) = Len(t) /\ \A k \in 1 .. Len(t) : vs[k] = DigitValue(t[k])
  BY ValuesTyped
<1> HIDE DEF es, vs
<1>4. A \in Seq(Nat) /\ Len(A) = Len(t) + 1
      /\ \A k \in 1 .. Len(t) + 1 : A[k] = DigitValue(es[k])
  BY <1>1, ValuesTyped
<1> HIDE DEF A, x
<1>5. B \in Seq(Nat) /\ Len(B) = Len(t) + 1 /\ B[Len(t) + 1] = x
      /\ \A k \in 1 .. Len(t) : B[k] = vs[k]
  BY <1>2, <1>3, AppendProperties
<1> HIDE DEF B
<1>6. \A k \in 1 .. Len(t) + 1 : A[k] = B[k]
  <2> TAKE k \in 1 .. Len(t) + 1
  <2>1. CASE k = Len(t) + 1
    <3>1. A[k] = DigitValue(ch)
      BY <1>1, <1>4, <2>1
    <3> QED
      BY <1>5, <2>1, <3>1 DEF x
  <2>2. CASE k \in 1 .. Len(t)
    BY <1>1, <1>3, <1>4, <1>5, <2>2
  <2> QED
    BY <1>1, <2>1, <2>2
<1>7. A = B
  BY <1>4, <1>5, <1>6, SeqEqual
<1> QED
  BY <1>7 DEF A, B, es, vs, x

\* The text t is that of the number u.
Prints(t, u, b) ==
    /\ t \in Seq(Symbols) /\ Len(t) > 0
    /\ Sum(Values(t), b) = u
    /\ t[1] = Zero => u = 0 /\ Len(t) = 1
    /\ \A m \in Nat : m > 0 /\ u < 2 ^ m => Len(t) <= m

LEMMA OneDigit ==
    ASSUME NEW b \in Nat, b \in 2 .. 36, NEW u \in Nat, u < b
    PROVE  Prints(<<Upper[u + 1]>>, u, b)
<1> DEFINE ch == Upper[u + 1]
           t == <<ch>>
           x == DigitValue(ch)
<1>1. u \in 0 .. 35
  OBVIOUS
<1>2. ch \in Symbols /\ x = u /\ (ch = Zero => u = 0)
  BY <1>1, LettersAreNot, LettersMean DEF Symbols
<1> HIDE DEF ch, x
<1>3. t \in Seq(Symbols) /\ Len(t) = 1 /\ t[1] = ch /\ t = Append(<<>>, ch) /\ <<>> \in Seq(Symbols)
      /\ Len(<<>>) = 0
  BY <1>2
<1> HIDE DEF t
<1>4. Values(t) = Append(Values(<<>>), x)
  BY <1>2, <1>3, ValuesOfAppend DEF x
<1>5. Values(<<>>) \in Seq(Nat) /\ Len(Values(<<>>)) = 0
  BY <1>3, ValuesTyped
<1>6. Sum(Values(<<>>), b) = 0
  BY <1>5, SumTyped
<1>7. Sum(Values(t), b) = 0 * b + x
  BY <1>2, <1>4, <1>5, <1>6, SumOfAppend
<1>8. Sum(Values(t), b) = u
  BY <1>2, <1>7
<1> QED
  BY <1>2, <1>3, <1>8 DEF Prints, t, ch

LEMMA MoreDigits ==
    ASSUME NEW b \in Nat, b \in 2 .. 36, NEW u \in Nat, u >= b, NEW t, Prints(t, u \div b, b)
    PROVE  Prints(Append(t, Upper[(u % b) + 1]), u, b)
<1> DEFINE q == u \div b
           x == u % b
           ch == Upper[x + 1]
           es == Append(t, ch)
<1>1. q \in Nat /\ x \in 0 .. b - 1 /\ u = q * b + x
  BY Quotient
<1> HIDE DEF q, x
<1>2. x \in 0 .. 35 /\ x \in Nat
  BY <1>1
<1>3. ch \in Symbols /\ DigitValue(ch) = x
  BY <1>2, LettersAreNot, LettersMean DEF Symbols
<1> HIDE DEF ch
<1>4. Prints(t, q, b)
  BY DEF q
<1>5. t \in Seq(Symbols) /\ Len(t) \in Nat /\ Len(t) > 0
  BY <1>4 DEF Prints
<1>6. es \in Seq(Symbols) /\ Len(es) = Len(t) + 1 /\ es[1] = t[1]
  <2>1. 1 \in 1 .. Len(t)
    BY <1>5
  <2> QED
    BY <1>3, <1>5, <2>1, AppendProperties
<1>7. Values(es) = Append(Values(t), x)
  BY <1>3, <1>5, ValuesOfAppend
<1> HIDE DEF es
<1>8. Sum(Values(es), b) = u
  <2>1. Values(t) \in Seq(Nat) /\ Sum(Values(t), b) = q
    BY <1>4, <1>5, ValuesTyped DEF Prints
  <2>2. Sum(Append(Values(t), x), b) = q * b + x
    BY <1>2, <2>1, SumOfAppend
  <2> QED
    BY <1>1, <1>7, <2>2
<1>9. q >= 1
  <2> SUFFICES ASSUME q = 0 PROVE FALSE
    BY <1>1
  <2>1. u = x
    BY <1>1
  <2> QED
    BY <1>1, <2>1
<1>10. es[1] # Zero
  BY <1>4, <1>6, <1>9 DEF Prints
<1>11. ASSUME NEW m \in Nat, m > 0, u < 2 ^ m PROVE Len(es) <= m
  <2>1. PICK j \in Nat : m = j + 1
    <3>1. m - 1 \in Nat /\ m = (m - 1) + 1
      BY <1>11
    <3> QED
      BY <3>1
  <2> DEFINE v == 2 ^ j
  <2>2. v \in Nat /\ u < 2 * v
    BY <1>11, <2>1, TwoPowers
  <2> HIDE DEF v
  <2>3. q < v
    <3>1. PICK c \in Nat : b = c + 2
      <4>1. b - 2 \in Nat /\ b = (b - 2) + 2
        OBVIOUS
      <4> QED
        BY <4>1
    <3>2. q * b = q * c + 2 * q /\ q * c \in Nat
      BY <1>1, <3>1
    <3> QED
      BY <1>1, <2>2, <3>2
  <2>4. j > 0
    <3> SUFFICES ASSUME j = 0 PROVE FALSE
      BY <2>1
    <3>1. v = 1
      BY TwoPowers DEF v
    <3> QED
      BY <1>1, <1>9, <2>3, <3>1
  <2>5. Len(t) <= j
    BY <1>4, <2>3, <2>4 DEF Prints, v
  <2> QED
    BY <1>5, <1>6, <2>1, <2>5
<1>12. Prints(es, u, b)
  BY <1>5, <1>6, <1>8, <1>10, <1>11 DEF Prints
<1> QED
  BY <1>12 DEF es, ch, x

LEMMA DigitsPrint ==
    ASSUME NEW b \in Nat, b \in 2 .. 36, NEW u \in Nat
    PROVE  Prints(DigitsOf(u, b), u, b)
<1> DEFINE Eq(f) == f = [k \in Nat |-> IF k < b THEN <<Upper[k + 1]>>
                                      ELSE Append(f[k \div b], Upper[(k % b) + 1])]
           printed == CHOOSE f : Eq(f)
           S == Seq(Symbols)
           B == 0 .. b - 1
           A == [k \in Nat |-> <<Upper[k + 1]>>]
           q == [k \in Nat |-> k \div b]
           G == [kv \in Nat \X S |-> Append(kv[2], Upper[(kv[1] % b) + 1])]
<1>0. b > 0 /\ \A k \in Nat : (k \in B <=> k < b) /\ k \div b \in Nat /\ (k >= b => k \div b < k)
  <2>1. \A k \in Nat : k \in B <=> k < b
    OBVIOUS
  <2>2. ASSUME NEW k \in Nat PROVE k \div b \in Nat /\ (k >= b => k \div b < k)
    <3> DEFINE j == k \div b
               x == k % b
    <3>1. j \in Nat /\ x \in 0 .. b - 1 /\ k = j * b + x
      BY Quotient
    <3> HIDE DEF j, x
    <3>2. PICK c \in Nat : b = c + 2
      <4>1. b - 2 \in Nat /\ b = (b - 2) + 2
        OBVIOUS
      <4> QED
        BY <4>1
    <3>3. j * b = j * c + 2 * j /\ j * c \in Nat
      BY <3>1, <3>2
    <3>4. k >= b => j < k
      BY <3>1, <3>3
    <3> QED
      BY <3>1, <3>4 DEF j
  <2> QED
    BY <2>1, <2>2
<1>1. \A k \in Nat : (k < b => <<Upper[k + 1]>> \in S) /\ Upper[(k % b) + 1] \in Symbols
  <2> TAKE k \in Nat
  <2>1. k % b \in 0 .. 35
    <3>1. k % b \in 0 .. b - 1
      BY Quotient, <1>0
    <3> QED
      BY <3>1
  <2>2. Upper[(k % b) + 1] \in Symbols
    BY <2>1, LettersAreNot DEF Symbols
  <2>3. ASSUME k < b PROVE <<Upper[k + 1]>> \in S
    <3> DEFINE c == Upper[k + 1]
    <3>1. k \in 0 .. 35
      BY <2>3
    <3>2. c \in Symbols
      BY <3>1, LettersAreNot DEF Symbols
    <3> HIDE DEF c
    <3>3. <<c>> \in S
      BY <3>2
    <3> QED
      BY <3>3 DEF c
  <2> QED
    BY <2>2, <2>3
<1>2. Recursive(Nat, S, B, A, q, G)
  <2>1. \A k \in Nat : k \in B => A[k] \in S
    BY <1>0, <1>1
  <2>2. \A k \in Nat : k \notin B => q[k] \in Nat /\ q[k] < k
    BY <1>0
  <2>3. ASSUME NEW k \in Nat, NEW y \in S PROVE G[<<k, y>>] \in S
    <3>1. G[<<k, y>>] = Append(y, Upper[(k % b) + 1])
      OBVIOUS
    <3> QED
      BY <1>1, <3>1, AppendProperties
  <2> HIDE DEF A, B, q, G, S
  <2> QED
    BY <2>1, <2>2, <2>3 DEF Recursive
<1>3. PICK f \in [Nat -> S] : \A k \in Nat : f[k] = IF k \in B THEN A[k] ELSE G[<<k, f[q[k]]>>]
  <2> DEFINE D == Nat
  <2>1. Recursive(D, S, B, A, q, G)
    BY <1>2
  <2> HIDE DEF D, S, A, B, q, G
  <2>2. \E f \in [D -> S] : \A k \in D : f[k] = IF k \in B THEN A[k] ELSE G[<<k, f[q[k]]>>]
    BY <2>1, Recursion
  <2> QED
    BY <2>2 DEF D
<1>4. Eq(f)
  <2>1. ASSUME NEW k \in Nat
        PROVE  f[k] = IF k < b THEN <<Upper[k + 1]>> ELSE Append(f[k \div b], Upper[(k % b) + 1])
    <3>1. f[k] = IF k < b THEN <<Upper[k + 1]>> ELSE G[<<k, f[k \div b]>>]
      BY <1>0, <1>3
    <3>2. f[k \div b] \in S
      BY <1>0, <1>3
    <3>3. G[<<k, f[k \div b]>>] = Append(f[k \div b], Upper[(k % b) + 1])
      BY <3>2
    <3> QED
      BY <3>1, <3>3
  <2>2. f = [k \in Nat |-> f[k]]
    BY <1>3
  <2> QED
    BY <2>1, <2>2
<1>5. Eq(printed)
  <2> HIDE DEF Eq
  <2> QED
    BY <1>4
<1>6. DigitsOf(u, b) = printed[u]
  BY DEF DigitsOf
<1> HIDE DEF printed
<1>7. \A k \in Nat : printed[k] = IF k < b THEN <<Upper[k + 1]>>
                                  ELSE Append(printed[k \div b], Upper[(k % b) + 1])
  BY <1>5
<1> DEFINE P == {k \in Nat : Prints(printed[k], k, b)}
<1>8. ASSUME NEW k \in Nat, \A m \in 0 .. k - 1 : m \in P PROVE k \in P
  <2>1. CASE k < b
    <3>1. printed[k] = <<Upper[k + 1]>>
      BY <1>7, <2>1
    <3>2. Prints(<<Upper[k + 1]>>, k, b)
      BY <2>1, OneDigit
    <3> QED
      BY <3>1, <3>2
  <2>2. CASE k >= b
    <3> DEFINE j == k \div b
    <3>1. j \in 0 .. k - 1
      BY <1>0, <2>2
    <3>2. Prints(printed[j], j, b)
      BY <1>8, <3>1
    <3>3. printed[k] = Append(printed[j], Upper[(k % b) + 1])
      <4>1. ~(k < b)
        BY <2>2
      <4> QED
        BY <1>7, <4>1, Zenon
    <3>4. Prints(Append(printed[j], Upper[(k % b) + 1]), k, b)
      BY <2>2, <3>2, MoreDigits
    <3> QED
      BY <3>3, <3>4
  <2> QED
    BY <2>1, <2>2
<1> HIDE DEF P
<1>9. u \in P
  BY <1>8, StrongInduct
<1> QED
  BY <1>6, <1>9 DEF P

\* The text behind its sign or prefix.
LEMMA BehindPrefix ==
    ASSUME NEW p, p \in Seq(Symbols), NEW t, t \in Seq(Symbols)
    PROVE  /\ Len(p \o t) = Len(p) + Len(t)
           /\ SubSeq(p \o t, 1, Len(p)) = p
           /\ SubSeq(p \o t, Len(p) + 1, Len(p \o t)) = t
<1> DEFINE w == p \o t
           P == Len(p)
           T == Len(t)
<1>1. /\ w \in Seq(Symbols) /\ P \in Nat /\ T \in Nat /\ Len(w) = P + T
      /\ \A k \in 1 .. P : w[k] = p[k]
      /\ \A k \in 1 .. T : w[P + k] = t[k]
  <2>1. P \in Nat /\ T \in Nat /\ w \in Seq(Symbols) /\ Len(w) = P + T
    BY ConcatProperties, LenProperties
  <2>2. \A k \in 1 .. P + T : w[k] = IF k <= P THEN p[k] ELSE t[k - P]
    BY ConcatProperties
  <2> HIDE DEF w, P, T
  <2>3. \A k \in 1 .. P : w[k] = p[k]
    BY <2>1, <2>2
  <2>4. ASSUME NEW k \in 1 .. T PROVE w[P + k] = t[k]
    <3>1. P + k \in 1 .. P + T /\ ~(P + k <= P) /\ (P + k) - P = k
      BY <2>1
    <3> QED
      BY <2>2, <3>1
  <2> QED
    BY <2>1, <2>3, <2>4
<1> DEFINE first == SubSeq(w, 1, P)
           rest == SubSeq(w, P + 1, Len(w))
<1> HIDE DEF w
<1>2. first = p
  <2>1. first \in Seq(Symbols) /\ Len(first) = P /\ \A k \in 1 .. P : first[k] = w[k]
    BY <1>1
  <2> HIDE DEF first
  <2> QED
    BY <1>1, <2>1, SeqEqual
<1>3. rest = t
  <2>1. rest \in Seq(Symbols) /\ Len(rest) = T /\ \A k \in 1 .. T : rest[k] = w[P + k]
    <3> HIDE DEF P
    <3>1. /\ rest \in Seq(Symbols) /\ Len(rest) = Len(w) - P
          /\ \A k \in 1 .. Len(w) - P : rest[k] = w[(P + 1) + k - 1]
      BY <1>1
    <3>2. \A k \in 1 .. T : (P + 1) + k - 1 = P + k
      BY <1>1
    <3> QED
      BY <1>1, <3>1, <3>2
  <2> HIDE DEF rest
  <2> QED
    BY <1>1, <2>1, SeqEqual
<1> QED
  BY <1>1, <1>2, <1>3 DEF w

\* What PrintsValue says of a text.
PrintedRight(str, p, u, b) ==
    LET rest == SubSeq(str, Len(p) + 1, Len(str)) IN
    /\ Len(str) <= LongBits + 4
    /\ SubSeq(str, 1, Len(p)) = p
    /\ rest # <<>>
    /\ rest[1] = Zero => rest = <<Zero>>
    /\ Sum(Values(rest), b) = u

LEMMA PrintedText ==
    ASSUME NEW p, p \in {<<>>, <<Minus>>, <<Zero>>, <<Zero, SmallX>>},
           NEW b, b \in 2 .. 36, NEW u \in Nat, u < 2 ^ LongBits
    PROVE  PrintedRight(p \o DigitsOf(u, b), p, u, b)
<1> DEFINE t == DigitsOf(u, b)
<1>1. Prints(t, u, b)
  <2>1. b \in Nat
    OBVIOUS
  <2> QED
    BY <2>1, DigitsPrint
<1> HIDE DEF t
<1>2. p \in Seq(Symbols) /\ Len(p) \in Nat /\ Len(p) <= 2
  <2> DEFINE c1 == Minus
             c2 == Zero
             c3 == SmallX
  <2>1. c1 \in Symbols /\ c2 \in Symbols /\ c3 \in Symbols
    BY Zenon DEF Symbols
  <2>2. p = <<>> \/ p = <<c1>> \/ p = <<c2>> \/ p = <<c2, c3>>
    BY Zenon
  <2> HIDE DEF c1, c2, c3
  <2>3. /\ <<>> \in Seq(Symbols) /\ <<c1>> \in Seq(Symbols) /\ <<c2>> \in Seq(Symbols)
        /\ <<c2, c3>> \in Seq(Symbols)
        /\ Len(<<>>) = 0 /\ Len(<<c1>>) = 1 /\ Len(<<c2>>) = 1 /\ Len(<<c2, c3>>) = 2
    BY <2>1
  <2>4. CASE p = <<>>
    BY <2>3, <2>4
  <2>5. CASE p = <<c1>>
    BY <2>3, <2>5
  <2>7. CASE p = <<c2>>
    BY <2>3, <2>7
  <2>6. CASE p = <<c2, c3>>
    BY <2>3, <2>6
  <2> QED
    BY <2>2, <2>4, <2>5, <2>6, <2>7
<1>3. t \in Seq(Symbols) /\ Len(t) \in Nat /\ Len(t) > 0 /\ Len(t) <= LongBits
  BY <1>1, Widths DEF Prints
<1> DEFINE str == p \o t
           rest == SubSeq(str, Len(p) + 1, Len(str))
<1>4. Len(str) = Len(p) + Len(t) /\ SubSeq(str, 1, Len(p)) = p /\ rest = t
  BY <1>2, <1>3, BehindPrefix
<1> HIDE DEF str, rest
<1>5. Len(str) <= LongBits + 4
  BY <1>2, <1>3, <1>4, Widths
<1>6. rest # <<>>
  <2>1. Len(<<>>) = 0
    OBVIOUS
  <2> QED
    BY <1>3, <1>4, <2>1
<1>7. rest[1] = Zero => rest = <<Zero>>
  <2> SUFFICES ASSUME t[1] = Zero PROVE t = <<Zero>>
    BY <1>4
  <2>1. Len(t) = 1
    BY <1>1 DEF Prints
  <2> DEFINE c == t[1]
  <2>2. t = <<c>>
    BY <1>3, <2>1
  <2> QED
    BY <2>2
<1>8. Sum(Values(rest), b) = u
  BY <1>1, <1>4 DEF Prints
<1> QED
  BY <1>4, <1>5, <1>6, <1>7, <1>8 DEF PrintedRight, rest, str, t

LEMMA PrefixIs ==
    ASSUME NEW b
    PROVE  BasePrefix(b) \in {<<>>, <<Minus>>, <<Zero>>, <<Zero, SmallX>>}
BY DEF BasePrefix, Zero, SmallX

LEMMA PrintsMeans ==
    ASSUME number' \in Int, base' \in 2 .. 36 =>
               PrintedRight(text', IF number' < 0 /\ base' = 10 THEN <<Minus>> ELSE BasePrefix(base'),
                            IF number' < 0 /\ base' = 10 THEN -number' ELSE number' % 2 ^ LongBits, base')
    PROVE  PrintsValue'
BY DEF PrintsValue, PrintedRight, Values, Minus, Zero

LEMMA Remains ==
    ASSUME NEW m \in Int, NEW M \in Nat, M > 0
    PROVE  m % M \in Nat /\ m % M < M /\ (m \in 0 .. M - 1 => m % M = m)
OBVIOUS

LEMMA ItoaStep == CallItoa => PrintsValue'
<1> SUFFICES ASSUME CallItoa PROVE PrintsValue'
  OBVIOUS
<1>1. PICK value \in LongMin .. LongMax, b \in Bases : number' = value /\ base' = b /\ text' = Itoa(value, b)
  BY DEF CallItoa
<1> DEFINE M == 2 ^ LongBits
<1>2. value \in Int /\ value >= -(LongMax + 1) /\ LongMax \in Nat /\ M = 2 * (LongMax + 1)
  BY Widths
<1> HIDE DEF M
<1>3. ASSUME b \in 2 .. 36, value < 0 /\ b = 10
      PROVE  PrintedRight(text', <<Minus>>, -value, b)
  <2>1. text' = <<Minus>> \o DigitsOf(-value, b)
    BY <1>1, <1>3, Zenon DEF Itoa, Minus
  <2>2. -value \in Nat /\ -value < M
    BY <1>2, <1>3
  <2> DEFINE u == -value
  <2>3. <<Minus>> \in {<<>>, <<Minus>>, <<Zero>>, <<Zero, SmallX>>}
    OBVIOUS
  <2> QED
    BY <1>3, <2>1, <2>2, <2>3, PrintedText DEF M
<1>4. ASSUME b \in 2 .. 36, ~(value < 0 /\ b = 10)
      PROVE  PrintedRight(text', BasePrefix(b), value % M, b)
  <2>1. text' = BasePrefix(b) \o DigitsOf(value % M, b)
    BY <1>1, <1>4, Zenon DEF Itoa, M
  <2>2. value % M \in Nat /\ value % M < M
    BY <1>2, Remains
  <2> QED
    BY <1>4, <2>1, <2>2, PrefixIs, PrintedText DEF M
<1>5. number' \in Int /\ (base' \in 2 .. 36 =>
               PrintedRight(text', IF number' < 0 /\ base' = 10 THEN <<Minus>> ELSE BasePrefix(base'),
                            IF number' < 0 /\ base' = 10 THEN -number' ELSE number' % M, base'))
  <2>1. CASE value < 0 /\ b = 10
    BY <1>1, <1>2, <1>3, <2>1
  <2>2. CASE ~(value < 0 /\ b = 10)
    BY <1>1, <1>2, <1>4, <2>2
  <2> QED
    BY <2>1, <2>2
<1> QED
  BY <1>5, PrintsMeans DEF M

LEMMA UitoaStep == CallUitoa => PrintsValue'
<1> SUFFICES ASSUME CallUitoa PROVE PrintsValue'
  OBVIOUS
<1>1. PICK value \in 0 .. 2 ^ LongBits - 1, b \in Bases :
         number' = value /\ base' = b /\ text' = Uitoa(value, b)
  BY DEF CallUitoa
<1> DEFINE M == 2 ^ LongBits
<1>2. value \in Nat /\ value < M /\ M \in Nat /\ M > 0 /\ value % M = value
  <2>1. M \in Nat /\ M > 0
    BY Widths
  <2>2. value \in 0 .. M - 1
    OBVIOUS
  <2> HIDE DEF M
  <2> QED
    BY <2>1, <2>2, Remains
<1> HIDE DEF M
<1>3. ASSUME b \in 2 .. 36 PROVE PrintedRight(text', BasePrefix(b), value, b)
  <2>1. text' = BasePrefix(b) \o DigitsOf(value, b)
    BY <1>1, <1>3, Zenon DEF Uitoa
  <2> QED
    BY <1>2, <1>3, <2>1, PrefixIs, PrintedText DEF M
<1>4. number' \in Int /\ (base' \in 2 .. 36 =>
               PrintedRight(text', IF number' < 0 /\ base' = 10 THEN <<Minus>> ELSE BasePrefix(base'),
                            IF number' < 0 /\ base' = 10 THEN -number' ELSE number' % M, base'))
  <2>1. ~(number' < 0)
    BY <1>1, <1>2
  <2> QED
    BY <1>1, <1>2, <1>3, <2>1
<1> QED
  BY <1>4, PrintsMeans DEF M

-----------------------------------------------------------------------------
\* atoi and strtol return the number written in a text, or the nearest of their
\* type, for every text of white space, sign, prefix, digits and what may follow.
THEOREM ReadsTheNumber == NumbersSpec => []ParsesValue
<1>1. NumbersInit => ParsesValue
  BY DEF NumbersInit, ParsesValue
<1>2. ParsesValue /\ [NumbersNext]_calls => ParsesValue'
  <2> SUFFICES ASSUME ParsesValue, [NumbersNext]_calls PROVE ParsesValue'
    OBVIOUS
  <2>1. CASE CallAtoi
    BY <2>1, AtoiStep
  <2>2. CASE CallStrtol
    BY <2>2, StrtolStep
  <2>3. CASE CallItoa
    <3>1. called' = "itoa"
      BY <2>3 DEF CallItoa
    <3> QED
      BY <3>1 DEF ParsesValue
  <2>4. CASE CallUitoa
    <3>1. called' = "uitoa"
      BY <2>4 DEF CallUitoa
    <3> QED
      BY <3>1 DEF ParsesValue
  <2>5. CASE Used
    <3>1. called' = "none"
      BY <2>5 DEF Used
    <3> QED
      BY <3>1 DEF ParsesValue
  <2>6. CASE UNCHANGED calls
    <3>1. UNCHANGED <<called, base, parts, text, number, read>>
      BY <2>6 DEF calls
    <3>2. Exact' = Exact /\ Overflows' = Overflows /\ UpToTail(parts') = UpToTail(parts)
      BY <3>1 DEF Exact, Overflows
    <3> QED
      BY <3>1, <3>2 DEF ParsesValue
  <2> QED
    BY <2>1, <2>2, <2>3, <2>4, <2>5, <2>6 DEF NumbersNext
<1> QED
  BY <1>1, <1>2, PTL DEF NumbersSpec

\* What itoa and uitoa write is the number and nothing else, without a leading zero, and
\* fits their buffer, for every number of the type and every base.
THEOREM WritesTheNumber == NumbersSpec => []PrintsValue
<1>1. NumbersInit => PrintsValue
  BY DEF NumbersInit, PrintsValue
<1>2. PrintsValue /\ [NumbersNext]_calls => PrintsValue'
  <2> SUFFICES ASSUME PrintsValue, [NumbersNext]_calls PROVE PrintsValue'
    OBVIOUS
  <2>1. CASE CallAtoi
    <3>1. called' = "atoi"
      BY <2>1 DEF CallAtoi
    <3> QED
      BY <3>1 DEF PrintsValue
  <2>2. CASE CallStrtol
    <3>1. called' = "strtol"
      BY <2>2 DEF CallStrtol
    <3> QED
      BY <3>1 DEF PrintsValue
  <2>3. CASE CallItoa
    BY <2>3, ItoaStep
  <2>4. CASE CallUitoa
    BY <2>4, UitoaStep
  <2>5. CASE Used
    <3>1. called' = "none"
      BY <2>5 DEF Used
    <3> QED
      BY <3>1 DEF PrintsValue
  <2>6. CASE UNCHANGED calls
    BY <2>6 DEF calls, PrintsValue
  <2> QED
    BY <2>1, <2>2, <2>3, <2>4, <2>5, <2>6 DEF NumbersNext
<1> QED
  BY <1>1, <1>2, PTL DEF NumbersSpec
=============================================================================
