-------------------------- MODULE VsnprintkProofs --------------------------
(***************************************************************************)
(* vsnprintk for every format, every size of the buffer and every          *)
(* argument: the counters agree, nothing is stored outside the buffer, the *)
(* format is read to its NUL, and the buffer holds what the format stands  *)
(* for.                                                                    *)
(*                                                                         *)
(* The argument: between two conversions, the pointer p is where a piece   *)
(* begins and o is where its text goes (Stands); a piece is read as what   *)
(* it is (ReadPiece); its text goes to its place in the expansion.         *)
(***************************************************************************)
EXTENDS Vsnprintk, Induction, SequenceTheorems, FiniteSetTheorems

-----------------------------------------------------------------------------
(* What Join gives: the pieces one behind the other. *)

\* Two sequences, one behind the other.
LEMMA Joined ==
    \A S : \A a, b \in Seq(S) :
        /\ a \o b \in Seq(S)
        /\ Len(a) \in Nat /\ Len(b) \in Nat /\ Len(a \o b) = Len(a) + Len(b)
        /\ \A y \in 1 .. Len(a) : (a \o b)[y] = a[y]
        /\ \A y \in 1 .. Len(b) : (a \o b)[Len(a) + y] = b[y]
<1> SUFFICES ASSUME NEW S, NEW a \in Seq(S), NEW b \in Seq(S)
             PROVE  /\ a \o b \in Seq(S)
                    /\ Len(a) \in Nat /\ Len(b) \in Nat /\ Len(a \o b) = Len(a) + Len(b)
                    /\ \A y \in 1 .. Len(a) : (a \o b)[y] = a[y]
                    /\ \A y \in 1 .. Len(b) : (a \o b)[Len(a) + y] = b[y]
  OBVIOUS
<1>1. Len(a) \in Nat /\ Len(b) \in Nat
  OBVIOUS
<1> QED
  BY <1>1, ConcatProperties

\* The first n sequences joined.
UpTo(seqs, n) ==
    LET joined[k \in 0 .. Len(seqs)] == IF k = 0 THEN <<>> ELSE joined[k - 1] \o seqs[k]
    IN  joined[n]

Place(seqs, n) == Len(UpTo(seqs, n))

LEMMA JoinIsUpTo == \A seqs : Join(seqs) = UpTo(seqs, Len(seqs))
BY DEF Join, UpTo

LEMMA UpToStep ==
    ASSUME NEW S, NEW seqs \in Seq(Seq(S))
    PROVE  /\ UpTo(seqs, 0) = <<>>
           /\ \A k \in 1 .. Len(seqs) : UpTo(seqs, k) = UpTo(seqs, k - 1) \o seqs[k]
           /\ \A k \in 0 .. Len(seqs) : UpTo(seqs, k) \in Seq(S)
<1> DEFINE D == 0 .. Len(seqs)
           Eq(f) == f = [k \in D |-> IF k = 0 THEN <<>> ELSE f[k - 1] \o seqs[k]]
           G == [kv \in D \X Seq(S) |-> kv[2] \o seqs[kv[1]]]
           n == CHOOSE f : Eq(f)
<1>1. Len(seqs) \in Nat /\ \A k \in 1 .. Len(seqs) : seqs[k] \in Seq(S) /\ k \in D /\ k - 1 \in D /\ k # 0
  OBVIOUS
<1>2. PICK f \in [D -> Seq(S)] : f[0] = <<>> /\ \A k \in 1 .. Len(seqs) : f[k] = G[<<k, f[k - 1]>>]
  <2>1. \A k \in 1 .. Len(seqs), v \in Seq(S) : G[<<k, v>>] \in Seq(S)
    <3> SUFFICES ASSUME NEW k \in 1 .. Len(seqs), NEW v \in Seq(S) PROVE G[<<k, v>>] \in Seq(S)
      OBVIOUS
    <3>1. G[<<k, v>>] = v \o seqs[k]
      BY <1>1
    <3> QED
      BY <1>1, <3>1, ConcatProperties
  <2>2. <<>> \in Seq(S)
    OBVIOUS
  <2> HIDE DEF G
  <2>3. Loop(Len(seqs), Seq(S), <<>>, G)
    BY <1>1, <2>1, <2>2 DEF Loop
  <2> QED
    BY <2>3, Iteration
<1>3. ASSUME NEW k \in D PROVE f[k] = IF k = 0 THEN <<>> ELSE f[k - 1] \o seqs[k]
  <2>1. CASE k = 0
    BY <1>2, <2>1
  <2>2. CASE k # 0
    <3>1. k \in 1 .. Len(seqs) /\ k - 1 \in D
      BY <1>1, <2>2
    <3>2. f[k - 1] \in Seq(S)
      BY <1>2, <3>1
    <3>3. f[k] = G[<<k, f[k - 1]>>] /\ G[<<k, f[k - 1]>>] = f[k - 1] \o seqs[k]
      BY <1>2, <3>1, <3>2
    <3> QED
      BY <2>2, <3>3
  <2> QED
    BY <2>1, <2>2
<1>4. Eq(f)
  <2>1. f = [k \in D |-> f[k]]
    BY <1>2
  <2> HIDE DEF D
  <2> QED
    BY <1>3, <2>1
<1>5. Eq(n)
  <2> HIDE DEF Eq
  <2> QED
    BY <1>4
<1>6. \A k : UpTo(seqs, k) = n[k]
  BY DEF UpTo
<1> HIDE DEF n
<1>7. n[0] = <<>> /\ \A k \in 1 .. Len(seqs) : n[k] = n[k - 1] \o seqs[k]
  <2>1. 0 \in D /\ \A k \in 1 .. Len(seqs) : k \in D /\ k # 0
    BY <1>1
  <2>2. \A k \in D : n[k] = IF k = 0 THEN <<>> ELSE n[k - 1] \o seqs[k]
    BY <1>5
  <2> HIDE DEF D
  <2> QED
    BY <2>1, <2>2
<1>8. \A k \in D : n[k] \in Seq(S)
  <2> DEFINE P == {k \in Nat : k \in D => n[k] \in Seq(S)}
  <2>0. <<>> \in Seq(S)
    OBVIOUS
  <2>1. 0 \in P
    BY <1>7, <2>0
  <2>2. ASSUME NEW k \in Nat, k \in P PROVE k + 1 \in P
    <3> SUFFICES ASSUME k + 1 \in D PROVE n[k + 1] \in Seq(S)
      OBVIOUS
    <3>1. k + 1 \in 1 .. Len(seqs) /\ (k + 1) - 1 = k /\ k \in D
      BY <1>1
    <3>2. n[k + 1] = n[k] \o seqs[k + 1]
      BY <1>7, <3>1
    <3>3. n[k] \in Seq(S) /\ seqs[k + 1] \in Seq(S)
      BY <1>1, <2>2, <3>1
    <3> QED
      BY <3>2, <3>3, ConcatProperties
  <2> HIDE DEF P
  <2>3. \A k \in Nat : k \in P
    BY <2>1, <2>2, Induct
  <2> QED
    BY <1>1, <2>3 DEF P
<1> HIDE DEF D
<1> QED
  BY <1>6, <1>7, <1>8 DEF D

\* The place of a sequence in the whole, and its elements there.
LEMMA Places ==
    ASSUME NEW S, NEW seqs \in Seq(Seq(S)), NEW k \in 1 .. Len(seqs)
    PROVE  /\ seqs[k] \in Seq(S) /\ Len(seqs[k]) \in Nat
           /\ Place(seqs, k - 1) \in Nat
           /\ Place(seqs, k) = Place(seqs, k - 1) + Len(seqs[k])
           /\ Place(seqs, k) <= Len(Join(seqs))
           /\ \A x \in 1 .. Len(seqs[k]) : Join(seqs)[Place(seqs, k - 1) + x] = seqs[k][x]
<1>1. Len(seqs) \in Nat /\ k - 1 \in 0 .. Len(seqs) /\ k \in 0 .. Len(seqs)
  OBVIOUS
<1>2. seqs[k] \in Seq(S) /\ Len(seqs[k]) \in Nat
  OBVIOUS
<1>3. UpTo(seqs, k - 1) \in Seq(S) /\ UpTo(seqs, k) = UpTo(seqs, k - 1) \o seqs[k]
  BY <1>1, UpToStep
<1>4. /\ Place(seqs, k - 1) \in Nat
      /\ Place(seqs, k) = Place(seqs, k - 1) + Len(seqs[k])
      /\ \A x \in 1 .. Len(seqs[k]) : UpTo(seqs, k)[Place(seqs, k - 1) + x] = seqs[k][x]
  BY <1>2, <1>3, ConcatProperties DEF Place
\* What is joined stays in front.
<1> DEFINE P == {n \in Nat : k + n <= Len(seqs) =>
                   /\ Place(seqs, k) <= Place(seqs, k + n)
                   /\ \A y \in 1 .. Place(seqs, k) : UpTo(seqs, k + n)[y] = UpTo(seqs, k)[y]}
<1>5. 0 \in P
  BY <1>2, <1>4
<1>6. ASSUME NEW n \in Nat, n \in P PROVE n + 1 \in P
  <2> SUFFICES ASSUME k + n + 1 <= Len(seqs)
               PROVE  /\ Place(seqs, k) <= Place(seqs, k + n + 1)
                      /\ \A y \in 1 .. Place(seqs, k) : UpTo(seqs, k + n + 1)[y] = UpTo(seqs, k)[y]
    BY k + (n + 1) = k + n + 1
  <2>1. k + n + 1 \in 1 .. Len(seqs) /\ (k + n + 1) - 1 = k + n /\ k + n \in 0 .. Len(seqs)
    BY <1>1
  <2>2. /\ UpTo(seqs, k + n) \in Seq(S) /\ seqs[k + n + 1] \in Seq(S)
        /\ UpTo(seqs, k + n + 1) = UpTo(seqs, k + n) \o seqs[k + n + 1]
    <3>1. UpTo(seqs, k + n) \in Seq(S)
      BY <2>1, UpToStep
    <3>2. UpTo(seqs, k + n + 1) = UpTo(seqs, (k + n + 1) - 1) \o seqs[k + n + 1]
      BY <2>1, UpToStep
    <3>3. UpTo(seqs, (k + n + 1) - 1) = UpTo(seqs, k + n)
      BY <2>1, Zenon
    <3>4. seqs[k + n + 1] \in Seq(S)
      BY <2>1
    <3> QED
      BY <3>1, <3>2, <3>3, <3>4, Zenon
  <2>3. /\ Place(seqs, k + n) \in Nat /\ Place(seqs, k + n) <= Place(seqs, k + n + 1)
        /\ \A y \in 1 .. Place(seqs, k + n) : UpTo(seqs, k + n + 1)[y] = UpTo(seqs, k + n)[y]
    <3> DEFINE a == UpTo(seqs, k + n)
               b == seqs[k + n + 1]
               c == UpTo(seqs, k + n + 1)
    <3>1. a \in Seq(S) /\ b \in Seq(S) /\ c = a \o b
      BY <2>2
    <3>2. Place(seqs, k + n) = Len(a) /\ Place(seqs, k + n + 1) = Len(c)
      BY DEF Place
    <3> HIDE DEF a, b, c
    <3>3. /\ Len(a) \in Nat /\ Len(b) \in Nat /\ Len(c) = Len(a) + Len(b)
          /\ \A y \in 1 .. Len(a) : c[y] = a[y]
      BY <3>1, ConcatProperties
    <3>4. Len(a) \in Nat /\ Len(a) <= Len(c) /\ \A y \in 1 .. Len(a) : c[y] = a[y]
      BY <3>3
    <3> QED
      BY <3>2, <3>4 DEF a, c
  <2>4. /\ Place(seqs, k) <= Place(seqs, k + n) /\ Place(seqs, k) \in Nat
        /\ \A y \in 1 .. Place(seqs, k) : UpTo(seqs, k + n)[y] = UpTo(seqs, k)[y]
    BY <1>2, <1>4, <1>6, <2>1
  <2>5. Place(seqs, k + n + 1) \in Nat
    BY <2>2, ConcatProperties DEF Place
  <2> QED
    BY <2>3, <2>4, <2>5
<1> HIDE DEF P
<1>7. \A n \in Nat : n \in P
  BY <1>5, <1>6, Induct
<1>8. /\ Place(seqs, k) <= Place(seqs, Len(seqs))
      /\ \A y \in 1 .. Place(seqs, k) : UpTo(seqs, Len(seqs))[y] = UpTo(seqs, k)[y]
  <2>1. Len(seqs) - k \in P
    BY <1>1, <1>7
  <2>2. k + (Len(seqs) - k) = Len(seqs)
    BY <1>1
  <2> QED
    BY <2>1, <2>2 DEF P
<1>9. \A x \in 1 .. Len(seqs[k]) : Place(seqs, k - 1) + x \in 1 .. Place(seqs, k)
  BY <1>2, <1>4
<1> QED
  BY <1>2, <1>4, <1>8, <1>9, JoinIsUpTo DEF Place

-----------------------------------------------------------------------------
(* What the conversions of numbers write: characters. *)

Bases == {10, 16}

LEMMA Division ==
    ASSUME NEW n \in Nat, NEW base \in Bases
    PROVE  /\ n % base \in 0 .. base - 1
           /\ n \div base \in Nat
           /\ n >= base => n \div base < n
<1>1. CASE base = 10
  BY <1>1
<1>2. CASE base = 16
  BY <1>2
<1> QED
  BY <1>1, <1>2 DEF Bases

LEMMA LettersAreChars ==
    /\ \A d \in 1 .. 36 : Upper[d] \in Chars /\ Lower[d] \in Chars
    /\ "" \in Chars /\ "%" \in Chars /\ "-" \in Chars /\ "(" \in Chars /\ ")" \in Chars
    /\ "0" \in Chars /\ "x" \in Chars /\ "n" \in Chars /\ "u" \in Chars /\ "l" \in Chars
<1>1. \A d \in 1 .. 36 : Upper[d] \in Chars /\ Lower[d] \in Chars
  <2> SUFFICES ASSUME NEW d \in 1 .. 36 PROVE Upper[d] \in Chars /\ Lower[d] \in Chars
    OBVIOUS
  <2> QED
    BY CharsAssumption, Zenon
<1>2. "0" = Upper[1] /\ "x" = Lower[34] /\ "n" = Lower[24] /\ "u" = Lower[31] /\ "l" = Lower[22]
  BY DEF Upper, Lower
<1>3. 1 \in 1 .. 36 /\ 34 \in 1 .. 36 /\ 24 \in 1 .. 36 /\ 31 \in 1 .. 36 /\ 22 \in 1 .. 36
  OBVIOUS
<1>4. "" \in Chars /\ "%" \in Chars /\ "-" \in Chars /\ "(" \in Chars /\ ")" \in Chars
  BY CharsAssumption, Zenon
<1> QED
  BY <1>1, <1>2, <1>3, <1>4, ZenonT(40)

LEMMA DigitsAreChars ==
    ASSUME NEW u \in Nat, NEW base \in Bases
    PROVE  DigitsOf(u, base) \in Seq(Chars)
<1> DEFINE Eq(f) == f = [n \in Nat |-> IF n < base THEN <<Upper[n + 1]>>
                                      ELSE Append(f[n \div base], Upper[(n % base) + 1])]
           text == CHOOSE f : Eq(f)
           B == 0 .. base - 1
           A == [n \in Nat |-> <<Upper[n + 1]>>]
           q == [n \in Nat |-> n \div base]
           G == [nv \in Nat \X Seq(Chars) |-> Append(nv[2], Upper[(nv[1] % base) + 1])]
<1>0. base \in 1 .. 36 /\ \A n \in Nat : n \in B <=> n < base
  BY DEF Bases
<1>1. /\ \A n \in Nat : n < base => Upper[n + 1] \in Chars
      /\ \A n \in Nat : Upper[(n % base) + 1] \in Chars
  <2>1. ASSUME NEW n \in Nat, n < base PROVE Upper[n + 1] \in Chars
    <3>1. n + 1 \in 1 .. 36
      BY <1>0, <2>1
    <3> QED
      BY <3>1, LettersAreChars
  <2>2. ASSUME NEW n \in Nat PROVE Upper[(n % base) + 1] \in Chars
    <3>1. n % base \in 0 .. base - 1
      BY Division
    <3>2. (n % base) + 1 \in 1 .. 36
      BY <1>0, <3>1
    <3> QED
      BY <3>2, LettersAreChars
  <2> QED
    BY <2>1, <2>2
<1>2. Recursive(Nat, Seq(Chars), B, A, q, G)
  <2>1. \A n \in Nat : n \in B => A[n] \in Seq(Chars)
    BY <1>0, <1>1
  <2>2. \A n \in Nat : n \notin B => q[n] \in Nat /\ q[n] < n
    <3> SUFFICES ASSUME NEW n \in Nat, n \notin B PROVE q[n] \in Nat /\ q[n] < n
      OBVIOUS
    <3>1. n >= base
      BY <1>0
    <3> QED
      BY <3>1, Division
  <2>3. \A n \in Nat, v \in Seq(Chars) : G[<<n, v>>] \in Seq(Chars)
    <3> SUFFICES ASSUME NEW n \in Nat, NEW v \in Seq(Chars) PROVE G[<<n, v>>] \in Seq(Chars)
      OBVIOUS
    <3>1. G[<<n, v>>] = Append(v, Upper[(n % base) + 1])
      OBVIOUS
    <3> QED
      BY <1>1, <3>1, AppendProperties
  <2> HIDE DEF A, B, q, G
  <2> QED
    BY <2>1, <2>2, <2>3 DEF Recursive
<1>3. PICK f \in [Nat -> Seq(Chars)] :
         \A n \in Nat : f[n] = IF n \in B THEN A[n] ELSE G[<<n, f[q[n]]>>]
  <2> DEFINE S == Seq(Chars)
             D == Nat
  <2>1. Recursive(D, S, B, A, q, G)
    BY <1>2
  <2> HIDE DEF D, S, A, B, q, G
  <2>2. \E f \in [D -> S] : \A n \in D : f[n] = IF n \in B THEN A[n] ELSE G[<<n, f[q[n]]>>]
    BY <2>1, Recursion
  <2> QED
    BY <2>2 DEF D, S
<1>4. Eq(f)
  <2>1. ASSUME NEW n \in Nat
        PROVE  f[n] = IF n < base THEN <<Upper[n + 1]>>
                      ELSE Append(f[n \div base], Upper[(n % base) + 1])
    <3>1. f[n] = IF n < base THEN <<Upper[n + 1]>> ELSE G[<<n, f[n \div base]>>]
      BY <1>0, <1>3
    <3>2. f[n \div base] \in Seq(Chars)
      BY <1>3, Division
    <3>3. G[<<n, f[n \div base]>>] = Append(f[n \div base], Upper[(n % base) + 1])
      BY <3>2
    <3> QED
      BY <3>1, <3>3
  <2>2. f = [n \in Nat |-> f[n]]
    BY <1>3
  <2> QED
    BY <2>1, <2>2
<1>5. Eq(text)
  <2> HIDE DEF Eq
  <2> QED
    BY <1>4
<1>6. DigitsOf(u, base) = text[u]
  BY DEF DigitsOf
<1> HIDE DEF text
<1>7. \A n \in Nat : text[n] = IF n < base THEN <<Upper[n + 1]>>
                               ELSE Append(text[n \div base], Upper[(n % base) + 1])
  BY <1>5
<1> DEFINE P == {n \in Nat : text[n] \in Seq(Chars)}
<1>8. ASSUME NEW n \in Nat, \A m \in 0 .. n - 1 : m \in P PROVE n \in P
  <2>1. CASE n < base
    <3>1. text[n] = <<Upper[n + 1]>> /\ Upper[n + 1] \in Chars
      BY <1>1, <1>7, <2>1
    <3> DEFINE c == Upper[n + 1]
    <3> HIDE DEF c
    <3>2. text[n] = <<c>> /\ c \in Chars
      BY <3>1 DEF c
    <3>3. <<c>> \in Seq(Chars)
      BY <3>2
    <3> QED
      BY <3>2, <3>3
  <2>2. CASE n >= base
    <3>1. n \div base \in 0 .. n - 1
      BY <2>2, Division
    <3>2. text[n \div base] \in Seq(Chars)
      BY <1>8, <3>1
    <3>3. text[n] = Append(text[n \div base], Upper[(n % base) + 1])
      <4>1. ~(n < base)
        BY <1>0, <2>2
      <4>2. text[n] = IF n < base THEN <<Upper[n + 1]>>
                      ELSE Append(text[n \div base], Upper[(n % base) + 1])
        BY <1>7
      <4> QED
        BY <4>1, <4>2, Zenon
    <3> DEFINE c == Upper[(n % base) + 1]
               t == text[n \div base]
    <3>4. c \in Chars /\ t \in Seq(Chars) /\ text[n] = Append(t, c)
      BY <1>1, <3>2, <3>3
    <3> HIDE DEF c, t
    <3>5. Append(t, c) \in Seq(Chars)
      BY <3>4, AppendProperties
    <3> QED
      BY <3>4, <3>5
  <2> QED
    BY <1>0, <2>1, <2>2
<1> HIDE DEF P
<1>9. u \in P
  BY <1>8, StrongInduct
<1> QED
  BY <1>6, <1>9 DEF P

LEMMA Powers == \A n \in Nat : 2 ^ n \in Nat /\ 2 ^ n > 0
<1> TAKE n \in Nat
<1>1. IsFiniteSet(1 .. n) /\ Cardinality(1 .. n) = n
  BY FS_Interval
<1>2. IsFiniteSet(SUBSET (1 .. n)) /\ Cardinality(SUBSET (1 .. n)) = 2 ^ n
  BY <1>1, FS_SUBSET
<1>3. SUBSET (1 .. n) # {}
  OBVIOUS
<1> QED
  BY <1>2, <1>3, FS_CardinalityType, FS_EmptySet

LEMMA Remainder == \A n \in Int, m \in Nat : m > 0 => n % m \in Nat
OBVIOUS

LEMMA WidthsArePowers ==
    /\ 2 ^ IntBits \in Nat /\ 2 ^ IntBits > 0
    /\ 2 ^ LongBits \in Nat /\ 2 ^ LongBits > 0
    /\ 2 ^ (IntBits - 1) \in Nat /\ 2 ^ (LongBits - 1) \in Nat
<1>1. IntBits \in Nat /\ LongBits \in Nat /\ IntBits - 1 \in Nat /\ LongBits - 1 \in Nat
  BY WidthsAssumption
<1> QED
  BY <1>1, Powers

\* Texts of a few characters.
LEMMA ShortTexts ==
    /\ <<>> \in Seq(Chars)
    /\ \A a \in Chars : <<a>> \in Seq(Chars)
    /\ \A a, b \in Chars : <<a, b>> \in Seq(Chars)
    /\ \A a, b, c, d, e, f \in Chars : <<a, b, c, d, e, f>> \in Seq(Chars)
OBVIOUS

LEMMA PrefixIsText == ASSUME NEW base \in Bases PROVE BasePrefix(base) \in Seq(Chars)
<1>1. <<>> \in Seq(Chars) /\ <<"0", "x">> \in Seq(Chars) /\ <<"0">> \in Seq(Chars)
  BY LettersAreChars, ShortTexts, Zenon
<1> QED
  BY <1>1, Zenon DEF BasePrefix

LEMMA UitoaIsText ==
    ASSUME NEW value \in Nat, NEW base \in Bases
    PROVE  Uitoa(value, base) \in Seq(Chars)
<1>1. Uitoa(value, base) = BasePrefix(base) \o DigitsOf(value, base)
  BY DEF Uitoa, Bases
<1> QED
  BY <1>1, PrefixIsText, DigitsAreChars, ConcatProperties

LEMMA ItoaIsText == ASSUME NEW value \in Int PROVE Itoa(value, 10) \in Seq(Chars)
<1>1. 10 \in Bases /\ 10 \in 2 .. 36
  BY DEF Bases
<1>2. CASE value < 0
  <2>1. Itoa(value, 10) = <<"-">> \o DigitsOf(-value, 10)
    BY <1>1, <1>2 DEF Itoa
  <2>2. <<"-">> \in Seq(Chars)
    BY LettersAreChars, ShortTexts, Zenon
  <2>3. DigitsOf(-value, 10) \in Seq(Chars)
    BY <1>1, <1>2, DigitsAreChars
  <2> QED
    BY <2>1, <2>2, <2>3, ConcatProperties
<1>3. CASE ~(value < 0)
  <2>1. Itoa(value, 10) = BasePrefix(10) \o DigitsOf(value % 2 ^ LongBits, 10)
    BY <1>1, <1>3 DEF Itoa
  <2>2. value % 2 ^ LongBits \in Nat
    BY WidthsArePowers, Remainder
  <2>3. DigitsOf(value % 2 ^ LongBits, 10) \in Seq(Chars)
    BY <1>1, <2>2, DigitsAreChars
  <2> QED
    BY <1>1, <2>1, <2>3, PrefixIsText, ConcatProperties
<1> QED
  BY <1>2, <1>3

LEMMA LowerCaseIsText == ASSUME NEW text \in Seq(Chars) PROVE LowerCase(text) \in Seq(Chars)
<1> DEFINE low(ch) == IF ch \in {"A", "B", "C", "D", "E", "F"}
                      THEN Lower[DigitValue(ch) + 1] ELSE ch
<1>1. ASSUME NEW ch \in Chars PROVE low(ch) \in Chars
  <2>1. CASE ch \in {"A", "B", "C", "D", "E", "F"}
    <3>1. \E d \in 1 .. 36 : ch \in {Upper[d], Lower[d]}
      <4>1. "A" = Upper[11] /\ "B" = Upper[12] /\ "C" = Upper[13] /\ "D" = Upper[14]
            /\ "E" = Upper[15] /\ "F" = Upper[16]
        BY DEF Upper
      <4>2. 11 \in 1 .. 36 /\ 12 \in 1 .. 36 /\ 13 \in 1 .. 36 /\ 14 \in 1 .. 36
            /\ 15 \in 1 .. 36 /\ 16 \in 1 .. 36
        OBVIOUS
      <4>3. \E d \in 1 .. 36 : ch = Upper[d]
        BY <2>1, <4>1, <4>2, Zenon
      <4> QED
        BY <4>3, Zenon
    <3>2. DigitValue(ch) + 1 \in 1 .. 36
      <4> DEFINE v == CHOOSE d \in 1 .. 36 : ch \in {Upper[d], Lower[d]}
      <4>1. v \in 1 .. 36
        BY <3>1, Zenon
      <4>2. DigitValue(ch) = v - 1
        BY <3>1, Zenon DEF DigitValue
      <4> HIDE DEF v
      <4> QED
        BY <4>1, <4>2
    <3> QED
      BY <2>1, <3>2, LettersAreChars
  <2>2. CASE ch \notin {"A", "B", "C", "D", "E", "F"}
    BY <2>2
  <2> QED
    BY <2>1, <2>2
<1>2. LowerCase(text) = [k \in 1 .. Len(text) |-> low(text[k])]
  BY DEF LowerCase
<1>3. \A k \in 1 .. Len(text) : low(text[k]) \in Chars
  <2> HIDE DEF low
  <2> QED
    BY <1>1
<1> HIDE DEF low
<1>4. Len(text) \in Nat
  OBVIOUS
<1> QED
  BY <1>2, <1>3, <1>4

LEMMA NumberIsText ==
    ASSUME NEW conv \in Numeric, NEW longs \in Nat, NEW arg \in Argument
    PROVE  NumberText(conv, longs, arg) \in Seq(Chars)
<1>0. arg.bits \in Nat
  BY DEF Argument
<1>1. AsUnsigned(arg, longs) \in Nat
  BY <1>0, WidthsArePowers, Remainder DEF AsUnsigned
<1>2. AsSigned(arg, longs) \in Int
  BY <1>1, WidthsArePowers, WidthsAssumption DEF AsSigned
<1>3. 16 \in Bases /\ 10 \in Bases
  BY DEF Bases
<1>4. /\ Itoa(AsSigned(arg, longs), 10) \in Seq(Chars)
      /\ Uitoa(AsUnsigned(arg, longs), 10) \in Seq(Chars)
      /\ Uitoa(AsUnsigned(arg, longs), 16) \in Seq(Chars)
      /\ Uitoa(arg.bits, 16) \in Seq(Chars)
  BY <1>0, <1>1, <1>2, <1>3, ItoaIsText, UitoaIsText
<1>5. LowerCase(Uitoa(AsUnsigned(arg, longs), 16)) \in Seq(Chars)
  BY <1>4, LowerCaseIsText
<1>6. conv \in {"d", "i", "u", "x", "X", "p"}
  BY DEF Numeric
<1> QED
  BY <1>4, <1>5, <1>6 DEF NumberText

LEMMA StringIsText == ASSUME NEW arg \in Argument PROVE StringOf(arg) \in Seq(Chars)
<1>1. arg.string \in Seq(Chars)
  BY DEF Argument
<1>2. Null \in Seq(Chars)
  BY LettersAreChars, ShortTexts, Zenon DEF Null
<1> QED
  BY <1>1, <1>2 DEF StringOf

-----------------------------------------------------------------------------
(* The call, and the texts of its pieces. *)

CallInv ==
    /\ pieces \in Formats /\ args \in Arguments /\ out_sz \in Sizes
    /\ fmt = FormatText(pieces) \o <<"">> \o Beyond \o <<"">>

LetterSeqs(ps) == [k \in DOMAIN ps |-> Letters(ps[k])]
MeaningSeqs == [k \in DOMAIN pieces |-> Meaning(k)]

LEMMA PieceFacts ==
    ASSUME CallInv
    PROVE  /\ Len(pieces) \in Nat /\ DOMAIN pieces = 1 .. Len(pieces)
           /\ \A k \in 1 .. Len(pieces) :
                 /\ pieces[k] \in Piece
                 /\ pieces[k].conversion \in BOOLEAN /\ pieces[k].longs \in Nat
                 /\ pieces[k].ch \in Chars
                 /\ pieces[k].conversion => pieces[k].ch # "l"
                 /\ pieces[k].conversion /\ pieces[k].ch = "" => k = Len(pieces)
                 /\ ~pieces[k].conversion => pieces[k].ch \notin {"", "%"}
<1>1. /\ pieces \in Seq(Piece)
      /\ \A k \in 1 .. Len(pieces) :
                 /\ pieces[k].conversion => pieces[k].ch # "l"
                 /\ pieces[k].conversion /\ pieces[k].ch = "" => k = Len(pieces)
                 /\ ~pieces[k].conversion => pieces[k].ch \notin {"", "%"}
  BY FormatsAssumption, Zenon DEF CallInv
<1>0. pieces \in Seq(Piece)
  BY <1>1, Zenon
<1>2. Len(pieces) \in Nat /\ DOMAIN pieces = 1 .. Len(pieces)
  BY <1>0
<1>3. \A k \in 1 .. Len(pieces) : pieces[k] \in Piece
  BY <1>0
<1>4. \A piece \in Piece : piece.conversion \in BOOLEAN /\ piece.longs \in Nat /\ piece.ch \in Chars
  BY DEF Piece
<1> QED
  BY <1>1, <1>2, <1>3, <1>4, Zenon

\* The letters of a piece, one by one.
LEMMA LettersFacts ==
    ASSUME NEW piece, piece.longs \in Nat, piece.ch \in Chars
    PROVE  /\ Letters(piece) \in Seq(Chars)
           /\ ~piece.conversion /\ piece.ch # "" =>
                 Len(Letters(piece)) = 1 /\ Letters(piece)[1] = piece.ch
           /\ piece.conversion =>
                 /\ Len(Letters(piece)) = 1 + piece.longs + (IF piece.ch = "" THEN 0 ELSE 1)
                 /\ Letters(piece)[1] = "%"
                 /\ \A m \in 1 .. piece.longs : Letters(piece)[1 + m] = "l"
                 /\ piece.ch # "" => Letters(piece)[2 + piece.longs] = piece.ch
<1> DEFINE n == piece.longs
           c == piece.ch
           one == IF c = "" THEN <<>> ELSE <<c>>
           ls == [k \in 1 .. n |-> "l"]
<1>1. n \in Nat /\ c \in Chars
  OBVIOUS
<1>2. one \in Seq(Chars) /\ (c = "" => Len(one) = 0) /\ (c # "" => Len(one) = 1 /\ one[1] = c)
  BY <1>1, ShortTexts
<1>3. ls \in Seq(Chars) /\ Len(ls) = n /\ \A m \in 1 .. n : ls[m] = "l"
  <2>1. "l" \in Chars
    BY LettersAreChars
  <2> HIDE DEF n
  <2> QED
    BY <1>1, <2>1
<1>4. <<"%">> \in Seq(Chars) /\ Len(<<"%">>) = 1 /\ <<"%">>[1] = "%"
  BY LettersAreChars, ShortTexts
<1>5. CASE ~piece.conversion
  <2>1. Letters(piece) = <<>> \o one
    BY <1>5 DEF Letters
  <2> HIDE DEF one
  <2>2. Letters(piece) = one
    BY <1>2, <2>1, ConcatEmptySeq
  <2> QED
    BY <1>2, <1>5, <2>2
<1>6. CASE piece.conversion
  <2> DEFINE a == <<"%">> \o ls
             b == Letters(piece)
  <2>1. b = a \o one
    BY <1>6 DEF Letters
  <2>2. /\ a \in Seq(Chars) /\ Len(a) = 1 + n /\ a[1] = "%"
        /\ \A m \in 1 .. n : a[1 + m] = "l"
    <3> DEFINE h == <<"%">>
    <3>1. h \in Seq(Chars) /\ Len(h) = 1 /\ h[1] = "%" /\ a = h \o ls
      BY <1>4
    <3> HIDE DEF h, ls, a, n
    <3>0. h \in Seq(Chars) /\ ls \in Seq(Chars) /\ a = h \o ls
      BY <1>3, <3>1
    <3>2. /\ a \in Seq(Chars) /\ Len(a) = Len(h) + Len(ls)
          /\ \A y \in 1 .. Len(h) : a[y] = h[y]
          /\ \A y \in 1 .. Len(ls) : a[Len(h) + y] = ls[y]
      BY <3>0, Joined
    <3> QED
      BY <1>1, <1>3, <3>1, <3>2
  <2> HIDE DEF a, b, one, ls
  <2>3. /\ b \in Seq(Chars) /\ Len(b) = 1 + n + Len(one)
        /\ \A y \in 1 .. 1 + n : b[y] = a[y]
        /\ \A y \in 1 .. Len(one) : b[1 + n + y] = one[y]
    <3>0. a \in Seq(Chars) /\ one \in Seq(Chars) /\ b = a \o one
      BY <1>2, <2>1, <2>2
    <3>1. /\ b \in Seq(Chars) /\ Len(b) = Len(a) + Len(one)
          /\ \A y \in 1 .. Len(a) : b[y] = a[y]
          /\ \A y \in 1 .. Len(one) : b[Len(a) + y] = one[y]
      BY <3>0, Joined
    <3> HIDE DEF n
    <3> QED
      BY <1>1, <2>2, <3>1
  <2>4. b[1] = "%" /\ \A m \in 1 .. n : b[1 + m] = "l"
    <3>1. 1 \in 1 .. 1 + n /\ \A m \in 1 .. n : 1 + m \in 1 .. 1 + n
      BY <1>1
    <3> QED
      BY <2>2, <2>3, <3>1, Zenon
  <2>6. ASSUME c # "" PROVE b[2 + n] = c
    <3>1. Len(one) = 1 /\ one[1] = c
      BY <1>2, <2>6
    <3>2. b[1 + n + 1] = c
      BY <2>3, <3>1
    <3>3. 1 + n + 1 = 2 + n
      BY <1>1
    <3> QED
      BY <3>2, <3>3
  <2>7. Len(b) = 1 + n + (IF c = "" THEN 0 ELSE 1)
    BY <1>2, <2>3
  <2> QED
    BY <1>6, <2>3, <2>4, <2>6, <2>7 DEF b
<1> QED
  BY <1>5, <1>6

LEMMA LetterSeqsFacts ==
    ASSUME CallInv
    PROVE  /\ LetterSeqs(pieces) \in Seq(Seq(Chars))
           /\ Len(LetterSeqs(pieces)) = Len(pieces)
           /\ \A k \in 1 .. Len(pieces) : LetterSeqs(pieces)[k] = Letters(pieces[k])
           /\ FormatText(pieces) = Join(LetterSeqs(pieces))
           /\ FormatText(pieces) \in Seq(Chars)
           /\ Len(FormatText(pieces)) = Place(LetterSeqs(pieces), Len(pieces))
<1>1. /\ Len(pieces) \in Nat /\ DOMAIN pieces = 1 .. Len(pieces)
      /\ \A k \in 1 .. Len(pieces) : Letters(pieces[k]) \in Seq(Chars)
  BY PieceFacts, LettersFacts
<1>2. LetterSeqs(pieces) = [k \in 1 .. Len(pieces) |-> Letters(pieces[k])]
  BY <1>1 DEF LetterSeqs
<1>3. LetterSeqs(pieces) \in Seq(Seq(Chars)) /\ Len(LetterSeqs(pieces)) = Len(pieces)
  BY <1>1, <1>2
<1>4. FormatText(pieces) = Join(LetterSeqs(pieces))
  BY DEF FormatText, LetterSeqs
<1>5. FormatText(pieces) = UpTo(LetterSeqs(pieces), Len(pieces))
  BY <1>3, <1>4, JoinIsUpTo
<1>6. FormatText(pieces) \in Seq(Chars)
  <2>1. Len(pieces) \in 0 .. Len(pieces)
    BY <1>1
  <2>2. UpTo(LetterSeqs(pieces), Len(pieces)) \in Seq(Chars)
    BY <1>3, <2>1, UpToStep, Zenon
  <2> QED
    BY <1>5, <2>2, Zenon
<1> QED
  BY <1>2, <1>3, <1>4, <1>5, <1>6 DEF Place

\* The format in memory: its text, the NUL, and no percent sign behind it.
LEMMA MemoryFacts ==
    ASSUME CallInv, NEW T, T = Len(FormatText(pieces))
    PROVE  /\ fmt \in Seq(Chars) /\ T \in Nat /\ Len(fmt) \in Nat /\ T + 2 <= Len(fmt)
           /\ \A x \in 1 .. T : fmt[x] = FormatText(pieces)[x]
           /\ fmt[T + 1] = ""
           /\ \A x \in T + 2 .. Len(fmt) : fmt[x] # "%"
           /\ fmt[Len(fmt)] = ""
<1> DEFINE a == FormatText(pieces)
           nul == <<"">>
           b == a \o nul
           c == b \o Beyond
           d == c \o nul
<1>1. a \in Seq(Chars) /\ nul \in Seq(Chars) /\ Len(nul) = 1 /\ nul[1] = "" /\ Len(a) = T
  BY LetterSeqsFacts, LettersAreChars, ShortTexts
<1>2. /\ Beyond \in Seq(Chars) /\ Len(Beyond) \in Nat
      /\ \A x \in 1 .. Len(Beyond) : Beyond[x] # "%"
  BY BeyondAssumption
<1>3. fmt = d
  BY DEF CallInv
<1>4. b = a \o nul /\ c = b \o Beyond /\ d = c \o nul
  OBVIOUS
<1> HIDE DEF a, nul, b, c, d
<1>5. a \in Seq(Chars) /\ nul \in Seq(Chars) /\ Beyond \in Seq(Chars)
  BY <1>1, <1>2
<1>6. /\ b \in Seq(Chars) /\ Len(a) \in Nat /\ Len(b) = Len(a) + Len(nul)
      /\ \A y \in 1 .. Len(a) : b[y] = a[y]
      /\ \A y \in 1 .. Len(nul) : b[Len(a) + y] = nul[y]
  BY <1>4, <1>5, Joined
<1>7. b \in Seq(Chars)
  BY <1>6
<1>8. /\ c \in Seq(Chars) /\ Len(c) = Len(b) + Len(Beyond)
      /\ \A y \in 1 .. Len(b) : c[y] = b[y]
      /\ \A y \in 1 .. Len(Beyond) : c[Len(b) + y] = Beyond[y]
  BY <1>4, <1>5, <1>7, Joined
<1>9. c \in Seq(Chars)
  BY <1>8
<1>10. /\ d \in Seq(Chars) /\ Len(d) = Len(c) + Len(nul)
       /\ \A y \in 1 .. Len(c) : d[y] = c[y]
       /\ \A y \in 1 .. Len(nul) : d[Len(c) + y] = nul[y]
  BY <1>4, <1>5, <1>9, Joined
<1>11. /\ T \in Nat /\ Len(b) = T + 1 /\ Len(c) = T + 1 + Len(Beyond)
       /\ Len(d) = T + 1 + Len(Beyond) + 1
  BY <1>1, <1>6, <1>8, <1>10
<1>20. /\ T \in Nat /\ Len(a) = T /\ Len(nul) = 1 /\ Len(Beyond) \in Nat
       /\ Len(b) = T + 1 /\ Len(c) = T + 1 + Len(Beyond) /\ Len(d) = Len(c) + Len(nul)
  BY <1>1, <1>2, <1>10, <1>11, Zenon
<1>12. ASSUME NEW x \in 1 .. T PROVE d[x] = a[x]
  <2>1. x \in 1 .. Len(a) /\ x \in 1 .. Len(b) /\ x \in 1 .. Len(c)
    BY <1>20
  <2> QED
    BY <1>6, <1>8, <1>10, <2>1, Zenon
<1>13. d[T + 1] = ""
  <2>1. T + 1 = Len(a) + 1 /\ 1 \in 1 .. Len(nul) /\ T + 1 \in 1 .. Len(b) /\ T + 1 \in 1 .. Len(c)
    BY <1>20
  <2>2. b[Len(a) + 1] = nul[1]
    BY <1>6, <2>1, Zenon
  <2> QED
    BY <1>1, <1>8, <1>10, <2>1, <2>2, Zenon
<1>14. d[Len(d)] = ""
  <2>1. Len(d) = Len(c) + 1 /\ 1 \in 1 .. Len(nul)
    BY <1>20
  <2>2. d[Len(c) + 1] = nul[1]
    BY <1>10, <2>1, Zenon
  <2> QED
    BY <1>1, <2>1, <2>2, Zenon
<1>15. ASSUME NEW x \in T + 2 .. Len(d) PROVE d[x] # "%"
  <2>1. CASE x = Len(d)
    BY <1>14, <2>1
  <2>2. CASE x # Len(d)
    <3>1. x \in 1 .. Len(c) /\ x - (T + 1) \in 1 .. Len(Beyond) /\ x = Len(b) + (x - (T + 1))
      BY <1>2, <1>11, <2>2
    <3>2. d[x] = c[x] /\ c[x] = Beyond[x - (T + 1)]
      BY <1>8, <1>10, <3>1
    <3> QED
      BY <1>2, <3>1, <3>2
  <2> QED
    BY <2>1, <2>2
<1>16. /\ d \in Seq(Chars) /\ T \in Nat /\ Len(d) \in Nat /\ T + 2 <= Len(d)
  BY <1>2, <1>10, <1>11
<1> QED
  BY <1>3, <1>12, <1>13, <1>14, <1>15, <1>16 DEF a

-----------------------------------------------------------------------------
(* The arguments. *)

LEMMA TakersFacts ==
    ASSUME NEW ps
    PROVE  /\ Takers(ps, 0) = 0
           /\ \A n \in Nat : Takers(ps, n) \in Nat
           /\ \A n \in Nat : Takers(ps, n + 1) =
                 IF TakesArgument(ps[n + 1]) THEN Takers(ps, n) + 1 ELSE Takers(ps, n)
           /\ \A m, n \in Nat : m <= n => Takers(ps, m) <= Takers(ps, n)
<1> DEFINE Set(n) == {m \in 1 .. n : TakesArgument(ps[m])}
<1>1. \A n : Takers(ps, n) = Cardinality(Set(n))
  BY DEF Takers
<1>2. ASSUME NEW n \in Nat PROVE IsFiniteSet(Set(n))
  <2>1. IsFiniteSet(1 .. n) /\ Set(n) \subseteq 1 .. n
    BY FS_Interval
  <2> HIDE DEF Set
  <2> QED
    BY <2>1, FS_Subset
<1>3. Set(0) = {}
  OBVIOUS
<1>4. ASSUME NEW n \in Nat
      PROVE  /\ n + 1 \notin Set(n)
             /\ Set(n + 1) = IF TakesArgument(ps[n + 1]) THEN Set(n) \cup {n + 1} ELSE Set(n)
  <2>1. \A m : m \in 1 .. n + 1 <=> m \in 1 .. n \/ m = n + 1
    OBVIOUS
  <2>2. n + 1 \notin 1 .. n
    OBVIOUS
  <2>3. CASE TakesArgument(ps[n + 1])
    BY <2>1, <2>2, <2>3, Zenon
  <2>4. CASE ~TakesArgument(ps[n + 1])
    BY <2>1, <2>2, <2>4, Zenon
  <2> QED
    BY <2>3, <2>4, Zenon
<1>5. ASSUME NEW m \in Nat, NEW n \in Nat, m <= n PROVE Set(m) \subseteq Set(n)
  BY <1>5
<1> HIDE DEF Set
<1>6. \A n \in Nat : Cardinality(Set(n)) \in Nat
  BY <1>2, FS_CardinalityType
<1>7. ASSUME NEW n \in Nat
      PROVE  Cardinality(Set(n + 1)) =
                IF TakesArgument(ps[n + 1]) THEN Cardinality(Set(n)) + 1 ELSE Cardinality(Set(n))
  <2>1. CASE TakesArgument(ps[n + 1])
    <3>1. Set(n + 1) = Set(n) \cup {n + 1} /\ n + 1 \notin Set(n) /\ IsFiniteSet(Set(n))
      BY <1>2, <1>4, <2>1
    <3>2. Cardinality(Set(n) \cup {n + 1}) = Cardinality(Set(n)) + 1
      BY <3>1, FS_AddElement
    <3> QED
      BY <2>1, <3>1, <3>2
  <2>2. CASE ~TakesArgument(ps[n + 1])
    BY <1>4, <2>2
  <2> QED
    BY <2>1, <2>2
<1>8. ASSUME NEW m \in Nat, NEW n \in Nat, m <= n
      PROVE  Cardinality(Set(m)) <= Cardinality(Set(n))
  BY <1>2, <1>5, <1>8, FS_Subset
<1>9. Cardinality(Set(0)) = 0
  BY <1>3, FS_EmptySet
<1> QED
  BY <1>1, <1>6, <1>7, <1>8, <1>9

\* The argument the nth piece takes is there.
LEMMA ArgumentFacts ==
    ASSUME CallInv, NEW n \in Nat, n + 1 \in 1 .. Len(pieces), TakesArgument(pieces[n + 1])
    PROVE  args[Takers(pieces, n) + 1] \in Argument
<1>1. args \in Seq(Argument) /\ Takers(pieces, Len(pieces)) <= Len(args)
  BY ArgumentsAssumption, Zenon DEF CallInv
<1>2. Len(pieces) \in Nat
  BY PieceFacts
<1>3. /\ Takers(pieces, n) \in Nat /\ Takers(pieces, n + 1) = Takers(pieces, n) + 1
      /\ Takers(pieces, n + 1) <= Takers(pieces, Len(pieces))
      /\ Takers(pieces, Len(pieces)) \in Nat
  <2>1. n + 1 \in Nat /\ n + 1 <= Len(pieces)
    BY <1>2
  <2>2. Takers(pieces, n + 1) = Takers(pieces, n) + 1
    BY TakersFacts, Zenon
  <2> QED
    BY <1>2, <2>1, <2>2, TakersFacts, Zenon
<1>4. args \in Seq(Argument)
  BY <1>1
<1>5. Len(args) \in Nat
  BY <1>4
<1>6. Takers(pieces, n) + 1 \in 1 .. Len(args)
  BY <1>1, <1>3, <1>5
<1> QED
  BY <1>4, <1>6

-----------------------------------------------------------------------------
(* The format is read piece by piece. *)

Ls == LetterSeqs(pieces)

\* Places, of the sequence after the first n.
LEMMA NextPlace ==
    ASSUME NEW S, NEW seqs \in Seq(Seq(S)), NEW n \in 0 .. Len(seqs) - 1
    PROVE  /\ Len(seqs[n + 1]) \in Nat /\ Place(seqs, n) \in Nat
           /\ Place(seqs, n + 1) = Place(seqs, n) + Len(seqs[n + 1])
           /\ Place(seqs, n + 1) <= Len(Join(seqs))
           /\ \A x \in 1 .. Len(seqs[n + 1]) : Join(seqs)[Place(seqs, n) + x] = seqs[n + 1][x]
<1>1. n + 1 \in 1 .. Len(seqs) /\ (n + 1) - 1 = n
  <2>1. Len(seqs) \in Nat
    OBVIOUS
  <2> QED
    BY <2>1
<1>2. /\ Len(seqs[n + 1]) \in Nat
      /\ Place(seqs, (n + 1) - 1) \in Nat
      /\ Place(seqs, n + 1) = Place(seqs, (n + 1) - 1) + Len(seqs[n + 1])
      /\ Place(seqs, n + 1) <= Len(Join(seqs))
      /\ \A x \in 1 .. Len(seqs[n + 1]) :
            Join(seqs)[Place(seqs, (n + 1) - 1) + x] = seqs[n + 1][x]
  BY <1>1, Places, Zenon
<1> QED
  BY <1>1, <1>2, Zenon

\* Behind the first n pieces, before this one.
AtPiece(n, piece, longs) ==
    /\ CallInv
    /\ n \in 0 .. Len(pieces) - 1
    /\ p = Place(Ls, n)
    /\ piece = pieces[n + 1] /\ longs = piece.longs

\* What is in memory where a piece begins, and where the next one does.
LEMMA ReadPiece ==
    ASSUME NEW n, NEW piece, NEW longs, AtPiece(n, piece, longs)
    PROVE  /\ p \in Nat /\ longs \in Nat /\ piece.ch \in Chars
           /\ Place(Ls, n + 1) <= Len(FormatText(pieces))
           /\ ~piece.conversion =>
                 fmt[p + 1] = piece.ch /\ piece.ch \notin {"", "%"} /\ Place(Ls, n + 1) = p + 1
           /\ piece.conversion =>
                 /\ fmt[p + 1] = "%"
                 /\ \A m \in 0 .. longs - 1 : fmt[p + 2 + m] = "l"
                 /\ fmt[p + 2 + longs] = piece.ch
                 /\ piece.ch # "l"
                 /\ piece.ch = "" => n + 1 = Len(pieces)
                 /\ Place(Ls, n + 1) = p + 1 + longs + (IF piece.ch = "" THEN 0 ELSE 1)
<1> DEFINE T == Len(FormatText(pieces))
           t == Letters(piece)
<1>0. /\ CallInv /\ n \in 0 .. Len(pieces) - 1 /\ p = Place(Ls, n)
      /\ piece = pieces[n + 1] /\ longs = piece.longs
  BY DEF AtPiece
<1>1. /\ Len(pieces) \in Nat /\ n \in Nat /\ n + 1 \in 1 .. Len(pieces)
      /\ piece \in Piece /\ longs \in Nat /\ piece.ch \in Chars /\ piece.conversion \in BOOLEAN
      /\ piece.conversion => piece.ch # "l"
      /\ piece.conversion /\ piece.ch = "" => n + 1 = Len(pieces)
      /\ ~piece.conversion => piece.ch \notin {"", "%"}
  <2>1. Len(pieces) \in Nat
    BY <1>0, PieceFacts
  <2>2. n \in Nat /\ n + 1 \in 1 .. Len(pieces)
    BY <1>0, <2>1
  <2> QED
    BY <1>0, <2>1, <2>2, PieceFacts, Zenon
<1>2. /\ Len(t) \in Nat /\ p \in Nat
      /\ Place(Ls, n + 1) = p + Len(t)
      /\ Place(Ls, n + 1) <= T
      /\ \A x \in 1 .. Len(t) : FormatText(pieces)[p + x] = t[x]
  <2>1. /\ Ls \in Seq(Seq(Chars)) /\ Len(Ls) = Len(pieces) /\ Ls[n + 1] = t
        /\ FormatText(pieces) = Join(Ls)
    BY <1>0, <1>1, LetterSeqsFacts, Zenon DEF Ls
  <2>2. n \in 0 .. Len(Ls) - 1
    BY <1>0, <2>1, Zenon
  <2>3. Ls \in Seq(Seq(Chars))
    BY <2>1
  <2> HIDE DEF t, T
  <2>4. /\ Len(Ls[n + 1]) \in Nat /\ Place(Ls, n) \in Nat
        /\ Place(Ls, n + 1) = Place(Ls, n) + Len(Ls[n + 1])
        /\ Place(Ls, n + 1) <= Len(Join(Ls))
        /\ \A x \in 1 .. Len(Ls[n + 1]) : Join(Ls)[Place(Ls, n) + x] = Ls[n + 1][x]
    BY <2>2, <2>3, NextPlace, Zenon
  <2> QED
    BY <1>0, <2>1, <2>4, Zenon DEF T
<1>3. /\ T \in Nat /\ fmt[T + 1] = ""
      /\ \A x \in 1 .. T : fmt[x] = FormatText(pieces)[x]
  BY <1>0, MemoryFacts
<1>4. \A x \in 1 .. Len(t) : fmt[p + x] = t[x]
  <2> HIDE DEF t, T
  <2>0. Len(t) \in Nat /\ p \in Nat /\ p + Len(t) <= T /\ T \in Nat
    BY <1>2, <1>3, Zenon
  <2>1. \A x \in 1 .. Len(t) : p + x \in 1 .. T
    BY <2>0
  <2> QED
    BY <1>2, <1>3, <2>1, Zenon
<1>5. ASSUME ~piece.conversion
      PROVE  fmt[p + 1] = piece.ch /\ Place(Ls, n + 1) = p + 1
  <2>1. Len(t) = 1 /\ t[1] = piece.ch
    <3>1. piece.ch # ""
      BY <1>1, <1>5
    <3> QED
      BY <1>0, <1>1, <1>5, <3>1, LettersFacts, Zenon
  <2> HIDE DEF t
  <2>2. 1 \in 1 .. Len(t)
    BY <2>1
  <2> QED
    BY <1>2, <1>4, <2>1, <2>2, Zenon
<1>6. ASSUME piece.conversion
      PROVE  /\ fmt[p + 1] = "%"
             /\ \A m \in 0 .. longs - 1 : fmt[p + 2 + m] = "l"
             /\ fmt[p + 2 + longs] = piece.ch
             /\ Place(Ls, n + 1) = p + 1 + longs + (IF piece.ch = "" THEN 0 ELSE 1)
  <2>1. /\ Len(t) = 1 + longs + (IF piece.ch = "" THEN 0 ELSE 1)
        /\ t[1] = "%"
        /\ \A m \in 1 .. longs : t[1 + m] = "l"
        /\ piece.ch # "" => t[2 + longs] = piece.ch
    BY <1>0, <1>1, <1>6, LettersFacts, Zenon
  <2> DEFINE e == IF piece.ch = "" THEN 0 ELSE 1
  <2> HIDE DEF t, T
  <2>e. e \in {0, 1} /\ (piece.ch = "" => e = 0) /\ (piece.ch # "" => e = 1)
    OBVIOUS
  <2>0. /\ Place(Ls, n + 1) = p + Len(t) /\ Len(t) = 1 + longs + e
        /\ p \in Nat /\ longs \in Nat /\ T \in Nat
    BY <1>1, <1>2, <1>3, <2>1, Zenon
  <2>9. e \in {0, 1}
    BY <2>e
  <2> HIDE DEF e
  <2>7. Place(Ls, n + 1) = p + 1 + longs + e /\ Len(t) \in Nat
    BY <2>0, <2>9
  <2>2. Place(Ls, n + 1) = p + 1 + longs + (IF piece.ch = "" THEN 0 ELSE 1)
    BY <2>7, Zenon DEF e
  <2>3. fmt[p + 1] = "%"
    <3>1. 1 \in 1 .. Len(t)
      BY <2>0, <2>9
    <3> QED
      BY <1>4, <2>1, <3>1, Zenon
  <2>4. ASSUME NEW m \in 0 .. longs - 1 PROVE fmt[p + 2 + m] = "l"
    <3>0. m \in Nat /\ m < longs
      BY <2>0
    <3>1. m + 1 \in 1 .. longs
      BY <2>0, <3>0
    <3>3. 1 + (m + 1) \in 1 .. Len(t)
      BY <2>0, <2>9, <3>0
    <3>4. p + (1 + (m + 1)) = p + 2 + m
      BY <2>0, <3>0
    <3>2. fmt[p + (1 + (m + 1))] = t[1 + (m + 1)] /\ t[1 + (m + 1)] = "l"
      BY <1>4, <2>1, <3>1, <3>3, Zenon
    <3> QED
      BY <3>2, <3>4, Zenon
  <2>5. CASE piece.ch # ""
    <3>0. e = 1
      BY <2>5, <2>e, Zenon
    <3>1. 2 + longs \in 1 .. Len(t) /\ p + (2 + longs) = p + 2 + longs
      BY <2>0, <3>0
    <3>2. fmt[p + (2 + longs)] = t[2 + longs] /\ t[2 + longs] = piece.ch
      BY <1>4, <2>1, <2>5, <3>1, Zenon
    <3> QED
      BY <2>2, <2>3, <2>4, <3>1, <3>2, Zenon
  \* The letter is the NUL behind the format.
  <2>6. CASE piece.ch = ""
    <3>1. n + 1 = Len(pieces)
      BY <1>1, <1>6, <2>6
    <3>2. T = Place(Ls, n + 1)
      BY <1>0, <3>1, LetterSeqsFacts, Zenon DEF T, Ls
    <3>0. e = 0
      BY <2>6, <2>e, Zenon
    <3>3. T = p + Len(t)
      BY <2>0, <3>2, Zenon
    <3>5. Len(t) = 1 + longs /\ longs \in Nat /\ p \in Nat
      BY <2>0, <3>0
    <3>4. p + 2 + longs = T + 1
      BY <3>3, <3>5
    <3> QED
      BY <1>3, <2>2, <2>3, <2>4, <2>6, <3>4, Zenon
  <2> QED
    BY <2>5, <2>6
<1> QED
  BY <1>1, <1>2, <1>5, <1>6, Zenon

\* The switch sees the letter of the piece.
LEMMA ReadConversion ==
    ASSUME NEW n, NEW piece, NEW longs, AtPiece(n, piece, longs), piece.conversion
    PROVE  LongCount = longs /\ Conversion = piece.ch
<1> DEFINE Good(x) == fmt[p + 2 + x] # "l" /\ \A m \in 0 .. x - 1 : fmt[p + 2 + m] = "l"
<1>0. /\ p \in Nat /\ longs \in Nat /\ piece.ch \in Chars
      /\ Place(Ls, n + 1) <= Len(FormatText(pieces))
      /\ ~piece.conversion =>
            fmt[p + 1] = piece.ch /\ piece.ch \notin {"", "%"} /\ Place(Ls, n + 1) = p + 1
      /\ piece.conversion =>
            /\ fmt[p + 1] = "%"
            /\ \A m \in 0 .. longs - 1 : fmt[p + 2 + m] = "l"
            /\ fmt[p + 2 + longs] = piece.ch
            /\ piece.ch # "l"
            /\ piece.ch = "" => n + 1 = Len(pieces)
            /\ Place(Ls, n + 1) = p + 1 + longs + (IF piece.ch = "" THEN 0 ELSE 1)
  BY ReadPiece, Zenon
<1>1. /\ p \in Nat /\ longs \in Nat
      /\ Place(Ls, n + 1) <= Len(FormatText(pieces))
      /\ \A m \in 0 .. longs - 1 : fmt[p + 2 + m] = "l"
      /\ fmt[p + 2 + longs] = piece.ch /\ piece.ch # "l"
      /\ Place(Ls, n + 1) = p + 1 + longs + (IF piece.ch = "" THEN 0 ELSE 1)
  BY <1>0, Zenon
<1>2. Len(fmt) \in Nat /\ Len(FormatText(pieces)) + 2 <= Len(fmt) /\ Len(FormatText(pieces)) \in Nat
  BY MemoryFacts, Zenon DEF AtPiece
<1> DEFINE e == IF piece.ch = "" THEN 0 ELSE 1
<1>7. e \in {0, 1}
  OBVIOUS
<1>8. Place(Ls, n + 1) = p + 1 + longs + e /\ Place(Ls, n + 1) <= Len(FormatText(pieces))
      /\ p \in Nat /\ longs \in Nat
  BY <1>1, Zenon
<1> HIDE DEF e
<1>3. longs \in 0 .. Len(fmt)
  BY <1>2, <1>7, <1>8
<1>4. Good(longs)
  BY <1>1, Zenon
<1>5. ASSUME NEW x \in 0 .. Len(fmt), Good(x) PROVE x = longs
  <2>1. CASE x < longs
    <3>1. x \in 0 .. longs - 1
      BY <1>3, <2>1
    <3> QED
      BY <1>1, <1>5, <3>1, Zenon
  <2>2. CASE longs < x
    <3>1. longs \in 0 .. x - 1
      BY <1>3, <2>2
    <3> QED
      BY <1>4, <1>5, <3>1, Zenon
  <2> QED
    BY <1>3, <2>1, <2>2
<1>6. LongCount = CHOOSE x \in 0 .. Len(fmt) : Good(x)
  BY DEF LongCount
<1> HIDE DEF Good
<1>9. LongCount = longs
  BY <1>3, <1>4, <1>5, <1>6, Zenon
<1> QED
  BY <1>1, <1>9, Zenon DEF Conversion

\* Behind the last piece there is the NUL.
LEMMA ReadEnd ==
    ASSUME CallInv, p = Place(Ls, Len(pieces))
    PROVE  fmt[p + 1] = "" /\ p = Len(FormatText(pieces))
BY LetterSeqsFacts, MemoryFacts, Zenon DEF Ls

-----------------------------------------------------------------------------
(* What the format stands for. *)

\* A piece, and the argument it has if it takes one.
WithArgument(n, piece, arg) ==
    /\ CallInv
    /\ n \in 0 .. Len(pieces) - 1
    /\ piece = pieces[n + 1]
    /\ arg = args[Takers(pieces, n) + 1]

LEMMA MeaningOf ==
    ASSUME NEW n, NEW piece, NEW arg, WithArgument(n, piece, arg)
    PROVE  /\ ~piece.conversion => Meaning(n + 1) = <<piece.ch>>
           /\ piece.conversion =>
                 /\ piece.ch = "" => Meaning(n + 1) = <<>>
                 /\ piece.ch = "s" => Meaning(n + 1) = StringOf(arg)
                 /\ piece.ch = "c" => Meaning(n + 1) = <<arg.ch>>
                 /\ piece.ch = "%" => Meaning(n + 1) = <<"%">>
                 /\ piece.ch \in Numeric =>
                       Meaning(n + 1) = NumberText(piece.ch, piece.longs, arg)
                 /\ piece.ch \notin Numeric \cup {"", "s", "c", "%"} =>
                       Meaning(n + 1) = <<"%", piece.ch>>
<1>1. /\ CallInv /\ n \in 0 .. Len(pieces) - 1 /\ piece = pieces[n + 1]
      /\ arg = args[Takers(pieces, n) + 1]
  BY DEF WithArgument
<1>2. Len(pieces) \in Nat
  BY <1>1, PieceFacts
<1>3. n \in Nat /\ (n + 1) - 1 = n
  BY <1>1, <1>2
<1>4. Takers(pieces, n) \in Nat
  BY <1>3, TakersFacts
<1>5. 1 + Takers(pieces, n) = Takers(pieces, n) + 1
  BY <1>4
<1>6. args[1 + Takers(pieces, (n + 1) - 1)] = arg
  BY <1>1, <1>3, <1>5, Zenon
<1> DEFINE M(pp, ar) ==
               IF ~pp.conversion THEN <<pp.ch>> ELSE
               CASE pp.ch = "" -> <<>>
                 [] pp.ch = "s" -> StringOf(ar)
                 [] pp.ch = "c" -> <<ar.ch>>
                 [] pp.ch = "%" -> <<"%">>
                 [] pp.ch \in Numeric -> NumberText(pp.ch, pp.longs, ar)
                 [] OTHER -> <<"%", pp.ch>>
           m == M(piece, arg)
<1>7. Meaning(n + 1) = m
  <2>1. Meaning(n + 1) = M(pieces[n + 1], args[1 + Takers(pieces, (n + 1) - 1)])
    BY DEF Meaning
  <2> HIDE DEF M
  <2> QED
    BY <1>1, <1>6, <2>1, Zenon
<1>8. CASE ~piece.conversion
  <2>1. m = <<piece.ch>>
    BY <1>8
  <2> QED
    BY <1>7, <1>8, <2>1, Zenon
<1>9. CASE piece.conversion
  <2>1. piece.ch = "" => m = <<>>
    BY <1>9 DEF Numeric
  <2>2. piece.ch = "s" => m = StringOf(arg)
    BY <1>9 DEF Numeric
  <2>3. piece.ch = "c" => m = <<arg.ch>>
    BY <1>9 DEF Numeric
  <2>4. piece.ch = "%" => m = <<"%">>
    BY <1>9 DEF Numeric
  <2>5. piece.ch \in Numeric => m = NumberText(piece.ch, piece.longs, arg)
    BY <1>9 DEF Numeric
  <2>6. piece.ch \notin Numeric \cup {"", "s", "c", "%"} => m = <<"%", piece.ch>>
    BY <1>9 DEF Numeric
  <2> HIDE DEF m
  <2> QED
    BY <1>7, <1>9, <2>1, <2>2, <2>3, <2>4, <2>5, <2>6, Zenon
<1> QED
  BY <1>8, <1>9, Zenon

\* Where a piece takes an argument, there is one.
LEMMA ArgumentIsThere ==
    ASSUME NEW n, NEW piece, NEW arg, WithArgument(n, piece, arg),
           piece.conversion, piece.ch \in Numeric \cup {"s", "c"}
    PROVE  /\ arg \in Argument /\ arg.ch \in Chars
           /\ Takers(pieces, n + 1) = Takers(pieces, n) + 1
<1>1. /\ CallInv /\ n \in 0 .. Len(pieces) - 1 /\ piece = pieces[n + 1]
      /\ arg = args[Takers(pieces, n) + 1]
  BY DEF WithArgument
<1>2. Len(pieces) \in Nat
  BY <1>1, PieceFacts
<1>3. n \in Nat /\ n + 1 \in 1 .. Len(pieces)
  BY <1>1, <1>2
<1>4. TakesArgument(pieces[n + 1])
  BY <1>1, Zenon DEF TakesArgument
<1>5. arg \in Argument
  BY <1>1, <1>3, <1>4, ArgumentFacts, Zenon
<1>6. arg.ch \in Chars
  BY <1>5 DEF Argument
<1>7. Takers(pieces, n + 1) = Takers(pieces, n) + 1
  BY <1>3, <1>4, TakersFacts, Zenon
<1> QED
  BY <1>5, <1>6, <1>7

LEMMA NoArgument ==
    ASSUME NEW n, NEW piece, NEW arg, WithArgument(n, piece, arg),
           ~(piece.conversion /\ piece.ch \in Numeric \cup {"s", "c"})
    PROVE  Takers(pieces, n + 1) = Takers(pieces, n)
<1>1. /\ CallInv /\ n \in 0 .. Len(pieces) - 1 /\ piece = pieces[n + 1]
  BY DEF WithArgument
<1>2. Len(pieces) \in Nat
  BY <1>1, PieceFacts
<1>3. n \in Nat
  BY <1>1, <1>2
<1>4. ~TakesArgument(pieces[n + 1])
  BY <1>1, Zenon DEF TakesArgument
<1> QED
  BY <1>3, <1>4, TakersFacts, Zenon

LEMMA MeaningIsText ==
    ASSUME NEW n, NEW piece, NEW arg, WithArgument(n, piece, arg)
    PROVE  Meaning(n + 1) \in Seq(Chars)
<1>1. /\ CallInv /\ n \in 0 .. Len(pieces) - 1 /\ piece = pieces[n + 1]
  BY DEF WithArgument
<1>2. Len(pieces) \in Nat
  BY <1>1, PieceFacts
<1>3. n + 1 \in 1 .. Len(pieces)
  BY <1>1, <1>2
<1>4. piece.ch \in Chars /\ piece.longs \in Nat /\ "%" \in Chars
  BY <1>1, <1>3, PieceFacts, LettersAreChars, Zenon
<1>5. CASE ~piece.conversion
  BY <1>4, <1>5, MeaningOf, ShortTexts, Zenon
<1>6. CASE piece.conversion
  <2>1. CASE piece.ch = ""
    BY <1>6, <2>1, MeaningOf, ShortTexts, Zenon
  <2>2. CASE piece.ch = "s"
    <3>1. arg \in Argument
      BY <1>6, <2>2, ArgumentIsThere, Zenon
    <3>2. Meaning(n + 1) = StringOf(arg)
      BY <1>6, <2>2, MeaningOf, Zenon
    <3> QED
      BY <3>1, <3>2, StringIsText, Zenon
  <2>3. CASE piece.ch = "c"
    <3>1. arg.ch \in Chars
      BY <1>6, <2>3, ArgumentIsThere, Zenon
    <3>2. Meaning(n + 1) = <<arg.ch>>
      BY <1>6, <2>3, MeaningOf, Zenon
    <3> QED
      BY <3>1, <3>2, ShortTexts, Zenon
  <2>4. CASE piece.ch = "%"
    <3>1. Meaning(n + 1) = <<"%">>
      BY <1>6, <2>4, MeaningOf, Zenon
    <3> QED
      BY <1>4, <3>1, ShortTexts, Zenon
  <2>5. CASE piece.ch \in Numeric
    <3>1. arg \in Argument
      BY <1>6, <2>5, ArgumentIsThere, Zenon
    <3>2. Meaning(n + 1) = NumberText(piece.ch, piece.longs, arg)
      BY <1>6, <2>5, MeaningOf, Zenon
    <3> QED
      BY <1>4, <2>5, <3>1, <3>2, NumberIsText, Zenon
  <2>6. CASE piece.ch \notin Numeric \cup {"", "s", "c", "%"}
    <3>1. Meaning(n + 1) = <<"%", piece.ch>>
      BY <1>6, <2>6, MeaningOf, Zenon
    <3> QED
      BY <1>4, <3>1, ShortTexts, Zenon
  <2> QED
    BY <2>1, <2>2, <2>3, <2>4, <2>5, <2>6, Zenon
<1> QED
  BY <1>5, <1>6

Ms == MeaningSeqs

LEMMA MeaningSeqsFacts ==
    ASSUME CallInv
    PROVE  /\ Ms \in Seq(Seq(Chars))
           /\ Len(Ms) = Len(pieces)
           /\ \A k \in 1 .. Len(pieces) : Ms[k] = Meaning(k)
           /\ Expansion = Join(Ms)
           /\ Len(Expansion) = Place(Ms, Len(pieces)) /\ Len(Expansion) \in Nat
<1>1. Len(pieces) \in Nat /\ DOMAIN pieces = 1 .. Len(pieces)
  BY PieceFacts, Zenon
<1>2. ASSUME NEW k \in 1 .. Len(pieces) PROVE Meaning(k) \in Seq(Chars)
  <2>1. k - 1 \in 0 .. Len(pieces) - 1 /\ (k - 1) + 1 = k
    BY <1>1
  <2>2. WithArgument(k - 1, pieces[(k - 1) + 1], args[Takers(pieces, k - 1) + 1])
    BY <2>1, Zenon DEF WithArgument
  <2>3. Meaning((k - 1) + 1) \in Seq(Chars)
    BY <2>2, MeaningIsText, Zenon
  <2> QED
    BY <2>1, <2>3, Zenon
<1>3. Ms = [k \in 1 .. Len(pieces) |-> Meaning(k)]
  BY <1>1, Zenon DEF Ms, MeaningSeqs
<1>4. Ms \in Seq(Seq(Chars)) /\ Len(Ms) = Len(pieces)
  BY <1>1, <1>2, <1>3
<1>5. \A k \in 1 .. Len(pieces) : Ms[k] = Meaning(k)
  BY <1>3, Zenon
<1>6. Expansion = Join(Ms)
  BY Zenon DEF Expansion, Ms, MeaningSeqs
<1>7. Expansion = UpTo(Ms, Len(pieces))
  BY <1>4, <1>6, JoinIsUpTo, Zenon
<1>8. Expansion \in Seq(Chars)
  <2>1. Len(pieces) \in 0 .. Len(pieces)
    BY <1>1
  <2>2. UpTo(Ms, Len(pieces)) \in Seq(Chars)
    BY <1>4, <2>1, UpToStep, Zenon
  <2> QED
    BY <1>7, <2>2, Zenon
<1>9. Len(Expansion) \in Nat
  BY <1>8
<1> QED
  BY <1>4, <1>5, <1>6, <1>7, <1>9, Zenon DEF Place

\* The meaning of a piece is in its place.
LEMMA MeaningPlace ==
    ASSUME CallInv, NEW n \in 0 .. Len(pieces) - 1
    PROVE  /\ Len(Meaning(n + 1)) \in Nat /\ Place(Ms, n) \in Nat
           /\ Place(Ms, n + 1) = Place(Ms, n) + Len(Meaning(n + 1))
           /\ Place(Ms, n + 1) <= Len(Expansion)
           /\ \A x \in 1 .. Len(Meaning(n + 1)) : Expansion[Place(Ms, n) + x] = Meaning(n + 1)[x]
<1>1. Len(pieces) \in Nat
  BY PieceFacts, Zenon
<1>2. n + 1 \in 1 .. Len(pieces)
  BY <1>1
<1>3. Ms \in Seq(Seq(Chars)) /\ n \in 0 .. Len(Ms) - 1 /\ Ms[n + 1] = Meaning(n + 1) /\ Expansion = Join(Ms)
  BY <1>2, MeaningSeqsFacts, Zenon
<1>4. /\ Len(Ms[n + 1]) \in Nat /\ Place(Ms, n) \in Nat
      /\ Place(Ms, n + 1) = Place(Ms, n) + Len(Ms[n + 1])
      /\ Place(Ms, n + 1) <= Len(Join(Ms))
      /\ \A x \in 1 .. Len(Ms[n + 1]) : Join(Ms)[Place(Ms, n) + x] = Ms[n + 1][x]
  BY <1>3, NextPlace, Zenon
<1> QED
  BY <1>3, <1>4, Zenon

-----------------------------------------------------------------------------
(* The invariant. *)

Resting == src = <<>> /\ i = 0 /\ l = 0

\* Behind n pieces, with all their text in the buffer, or all that it holds.
Between(n) ==
    /\ n \in 0 .. Len(pieces)
    /\ pc \in {"loop", "break", "done"} /\ Resting
    /\ p = Place(Ls, n) /\ taken = Takers(pieces, n)
    /\ o <= Place(Ms, n)
    /\ rem > 0 => o = Place(Ms, n)
    /\ pc = "break" => n = Len(pieces)
    /\ pc = "done" => n = Len(pieces) \/ rem = 0

\* Inside the nth piece: what is still to be copied goes to its place.
Copying(n) ==
    /\ n \in 1 .. Len(pieces)
    /\ pc \in {"string", "number"}
    /\ p + 1 = Place(Ls, n) /\ taken = Takers(pieces, n)
    /\ src \in Seq(Chars)
    /\ written + Len(src) = Place(Ms, n)
    /\ \A x \in 1 .. Len(src) : src[x] = Expansion[written + x]
    /\ pc = "string" => i = 0 /\ l = 0
    /\ pc = "number" => l <= Len(src) /\ (l < Len(src) => l = rem)

Shown == \A j \in 0 .. o - 1 : out[j] = Expansion[j + 1]

\* Behind the NUL of a format that ends in %l.
Behind ==
    /\ TrailingL(pieces)
    /\ pc \in {"loop", "done"} /\ Resting
    /\ p \in Len(FormatText(pieces)) + 1 .. Len(fmt) - 1

Ended == pc = "done" /\ out_sz > 0 => out[o] = ""

Inv ==
    /\ CallInv
    /\ TypeOK /\ CountersAgree /\ StaysInside
    /\ Ended
    /\ \/ Behind
       \/ Shown /\ \E n \in 0 .. Len(pieces) : Between(n) \/ Copying(n)

-----------------------------------------------------------------------------
(* What every step leaves alone, and what storing does. *)

LEMMA Bounds ==
    ASSUME Inv
    PROVE  /\ CallInv /\ TypeOK /\ CountersAgree /\ StaysInside
           /\ out_sz \in Nat /\ o \in Nat /\ rem \in Nat /\ written \in Nat
           /\ i \in Nat /\ l \in Nat /\ p \in Nat /\ taken \in Nat
           /\ i <= l /\ l <= rem /\ o = written + i
           /\ out_sz > 0 => written + rem = out_sz - 1
           /\ out_sz = 0 => written = 0 /\ rem = 0
           /\ ~reported
<1>1. CallInv /\ TypeOK /\ CountersAgree /\ StaysInside
  BY DEF Inv
<1>2. out_sz \in Nat
  BY <1>1, SizesAssumption DEF CallInv
<1>3. /\ o \in 0 .. out_sz /\ rem \in 0 .. out_sz /\ written \in 0 .. out_sz
      /\ p \in Nat /\ taken \in Nat /\ l \in 0 .. rem /\ i \in 0 .. l
  BY <1>1, Zenon DEF TypeOK
<1>4. /\ o = written + i
      /\ rem = (IF out_sz > 0 THEN out_sz - 1 ELSE 0) - written
      /\ ~reported
  BY <1>1, Zenon DEF CountersAgree
<1>5. /\ o \in Nat /\ rem \in Nat /\ written \in Nat /\ p \in Nat /\ taken \in Nat
      /\ i \in Nat /\ l \in Nat /\ i <= l /\ l <= rem
  BY <1>2, <1>3
<1>6. out_sz > 0 => written + rem = out_sz - 1
  BY <1>2, <1>4, <1>5
<1>7. out_sz = 0 => written = 0 /\ rem = 0
  BY <1>2, <1>3
<1> QED
  BY <1>1, <1>2, <1>4, <1>5, <1>6, <1>7

LEMMA SameCall ==
    ASSUME UNCHANGED call
    PROVE  /\ CallInv => CallInv'
           /\ pieces' = pieces /\ args' = args /\ out_sz' = out_sz /\ fmt' = fmt
           /\ Ls' = Ls /\ Ms' = Ms /\ Expansion' = Expansion
<1>1. pieces' = pieces /\ args' = args /\ out_sz' = out_sz /\ fmt' = fmt
  BY DEF call
<1>2. Ls' = Ls
  BY <1>1 DEF Ls
<1>3. \A k : Meaning(k)' = Meaning(k)
  BY <1>1 DEF Meaning
<1>4. Ms' = Ms
  BY <1>1, <1>3 DEF Ms, MeaningSeqs
<1>5. Expansion' = Expansion
  BY <1>1, <1>3 DEF Expansion
<1> QED
  BY <1>1, <1>2, <1>4, <1>5 DEF CallInv

\* The parts of the invariant in the next state, about the same call.
LEMMA NextParts ==
    ASSUME UNCHANGED call
    PROVE  /\ \A n : Between(n)' <=>
                 /\ n \in 0 .. Len(pieces)
                 /\ pc' \in {"loop", "break", "done"} /\ src' = <<>> /\ i' = 0 /\ l' = 0
                 /\ p' = Place(Ls, n) /\ taken' = Takers(pieces, n)
                 /\ o' <= Place(Ms, n)
                 /\ rem' > 0 => o' = Place(Ms, n)
                 /\ pc' = "break" => n = Len(pieces)
                 /\ pc' = "done" => n = Len(pieces) \/ rem' = 0
           /\ \A n : Copying(n)' <=>
                 /\ n \in 1 .. Len(pieces)
                 /\ pc' \in {"string", "number"}
                 /\ p' + 1 = Place(Ls, n) /\ taken' = Takers(pieces, n)
                 /\ src' \in Seq(Chars)
                 /\ written' + Len(src') = Place(Ms, n)
                 /\ \A x \in 1 .. Len(src') : src'[x] = Expansion[written' + x]
                 /\ pc' = "string" => i' = 0 /\ l' = 0
                 /\ pc' = "number" => l' <= Len(src') /\ (l' < Len(src') => l' = rem')
           /\ Shown' <=> \A j \in 0 .. o' - 1 : out'[j] = Expansion[j + 1]
           /\ Behind' <=>
                 /\ TrailingL(pieces)
                 /\ pc' \in {"loop", "done"} /\ src' = <<>> /\ i' = 0 /\ l' = 0
                 /\ p' \in Len(FormatText(pieces)) + 1 .. Len(fmt) - 1
<1>1. /\ pieces' = pieces /\ args' = args /\ out_sz' = out_sz /\ fmt' = fmt
      /\ Ls' = Ls /\ Ms' = Ms /\ Expansion' = Expansion
  BY SameCall
<1>2. \A n : Place(Ls, n)' = Place(Ls, n) /\ Place(Ms, n)' = Place(Ms, n)
  BY <1>1
<1>3. \A n : Takers(pieces, n)' = Takers(pieces, n)
  BY <1>1
<1>4. TrailingL(pieces)' <=> TrailingL(pieces)
  BY <1>1 DEF TrailingL
<1>5. FormatText(pieces)' = FormatText(pieces)
  BY <1>1
<1>6. \A n : Between(n)' <=>
                 /\ n \in 0 .. Len(pieces)
                 /\ pc' \in {"loop", "break", "done"} /\ src' = <<>> /\ i' = 0 /\ l' = 0
                 /\ p' = Place(Ls, n) /\ taken' = Takers(pieces, n)
                 /\ o' <= Place(Ms, n)
                 /\ rem' > 0 => o' = Place(Ms, n)
                 /\ pc' = "break" => n = Len(pieces)
                 /\ pc' = "done" => n = Len(pieces) \/ rem' = 0
  BY <1>1, <1>2, <1>3, Zenon DEF Between, Resting
<1>7. \A n : Copying(n)' <=>
                 /\ n \in 1 .. Len(pieces)
                 /\ pc' \in {"string", "number"}
                 /\ p' + 1 = Place(Ls, n) /\ taken' = Takers(pieces, n)
                 /\ src' \in Seq(Chars)
                 /\ written' + Len(src') = Place(Ms, n)
                 /\ \A x \in 1 .. Len(src') : src'[x] = Expansion[written' + x]
                 /\ pc' = "string" => i' = 0 /\ l' = 0
                 /\ pc' = "number" => l' <= Len(src') /\ (l' < Len(src') => l' = rem')
  BY <1>1, <1>2, <1>3, Zenon DEF Copying
<1>8. Shown' <=> \A j \in 0 .. o' - 1 : out'[j] = Expansion[j + 1]
  BY <1>1, Zenon DEF Shown
<1>9. Behind' <=>
                 /\ TrailingL(pieces)
                 /\ pc' \in {"loop", "done"} /\ src' = <<>> /\ i' = 0 /\ l' = 0
                 /\ p' \in Len(FormatText(pieces)) + 1 .. Len(fmt) - 1
  BY <1>1, <1>4, <1>5, Zenon DEF Behind, Resting
<1> QED
  BY <1>6, <1>7, <1>8, <1>9

\* Characters are stored that fit.
Stores(text) ==
    /\ Inv
    /\ i = 0 /\ l = 0
    /\ text \in Seq(Chars) /\ Len(text) <= rem
    /\ Store(text)
    /\ UNCHANGED <<call, i, l, reported>>
    /\ pc' \in {"loop", "string"} /\ p' \in Nat /\ taken' \in Nat

LEMMA Stored ==
    ASSUME NEW text, Stores(text)
    PROVE  /\ CallInv' /\ TypeOK' /\ CountersAgree' /\ StaysInside' /\ Ended'
           /\ Len(text) \in Nat
           /\ o' = o + Len(text) /\ rem' = rem - Len(text) /\ written' = written + Len(text)
           /\ \A j \in 0 .. o - 1 : out'[j] = out[j]
           /\ \A x \in 1 .. Len(text) : out'[o + (x - 1)] = text[x]
<1>0. /\ Inv /\ i = 0 /\ l = 0 /\ text \in Seq(Chars) /\ Len(text) <= rem
      /\ Store(text) /\ UNCHANGED call /\ i' = i /\ l' = l /\ reported' = reported
      /\ pc' \in {"loop", "string"} /\ p' \in Nat /\ taken' \in Nat
  BY DEF Stores
<1>1. /\ CallInv /\ TypeOK /\ CountersAgree /\ StaysInside
      /\ out_sz \in Nat /\ o \in Nat /\ rem \in Nat /\ written \in Nat
      /\ o = written + i
      /\ out_sz > 0 => written + rem = out_sz - 1
      /\ out_sz = 0 => written = 0 /\ rem = 0
      /\ ~reported
  BY <1>0, Bounds, Zenon
<1>2. CallInv' /\ out_sz' = out_sz
  BY <1>0, <1>1, SameCall
<1>3. text \in Seq(Chars)
  BY <1>0
<1>4. Len(text) \in Nat /\ \A x \in 1 .. Len(text) : text[x] \in Chars
  BY <1>3
<1> DEFINE s == Len(text)
<1>5. /\ o' = o + s /\ rem' = rem - s /\ written' = written + s
      /\ out' = [k \in DOMAIN out |->
                    IF k >= o /\ k < o + s THEN text[k - o + 1] ELSE out[k]]
  BY <1>0, Zenon DEF Store
<1>6. out \in [0 .. out_sz -> Chars \cup {Unset}] /\ out[out_sz] = Unset
  BY <1>1 DEF TypeOK, StaysInside
<1>7. s \in Nat /\ s <= rem
  BY <1>0, <1>4
<1> HIDE DEF s
<1>8. s > 0 => o + s < out_sz
  BY <1>0, <1>1, <1>7
<1>9. \A k \in 0 .. out_sz : out'[k] = IF k >= o /\ k < o + s THEN text[k - o + 1] ELSE out[k]
  BY <1>5, <1>6
<1>10. out' \in [0 .. out_sz -> Chars \cup {Unset}]
  <2>1. ASSUME NEW k \in 0 .. out_sz
        PROVE  (IF k >= o /\ k < o + s THEN text[k - o + 1] ELSE out[k]) \in Chars \cup {Unset}
    <3>1. CASE k >= o /\ k < o + s
      <4>1. k - o + 1 \in 1 .. Len(text)
        BY <1>1, <1>7, <3>1 DEF s
      <4> QED
        BY <1>4, <3>1, <4>1
    <3>2. CASE ~(k >= o /\ k < o + s)
      BY <1>6, <3>2
    <3> QED
      BY <3>1, <3>2
  <2>2. DOMAIN out = 0 .. out_sz
    BY <1>6
  <2> QED
    BY <1>5, <2>1, <2>2
<1>11. out'[out_sz] = Unset
  <2>1. out_sz \in 0 .. out_sz /\ ~(out_sz >= o /\ out_sz < o + s)
    BY <1>1, <1>7, <1>8
  <2> QED
    BY <1>6, <1>9, <2>1
<1>12. o' \in 0 .. out_sz /\ rem' \in 0 .. out_sz /\ written' \in 0 .. out_sz
  BY <1>0, <1>1, <1>5, <1>7
<1>13. l' \in 0 .. rem' /\ i' \in 0 .. l'
  BY <1>0, <1>1, <1>5, <1>7
<1>14. TypeOK'
  BY <1>0, <1>1, <1>2, <1>10, <1>12, <1>13 DEF TypeOK
<1>15. CountersAgree'
  <2>1. o' = written' + i'
    BY <1>0, <1>1, <1>5, <1>7
  <2>2. rem' = (IF out_sz > 0 THEN out_sz - 1 ELSE 0) - written'
    BY <1>1, <1>5, <1>7
  <2> QED
    BY <1>0, <1>1, <1>2, <2>1, <2>2 DEF CountersAgree
<1>16. StaysInside' /\ Ended'
  BY <1>0, <1>2, <1>11 DEF StaysInside, Ended
<1>17. \A j \in 0 .. o - 1 : out'[j] = out[j]
  <2>1. \A j \in 0 .. o - 1 : j \in 0 .. out_sz /\ ~(j >= o /\ j < o + s)
    <3>1. o <= out_sz
      BY <1>1, <1>6 DEF TypeOK
    <3> QED
      BY <1>1, <3>1
  <2> QED
    BY <1>9, <2>1
<1>18. ASSUME NEW x \in 1 .. s PROVE out'[o + (x - 1)] = text[x]
  <2>1. o + (x - 1) \in 0 .. out_sz /\ o + (x - 1) >= o /\ o + (x - 1) < o + s
        /\ (o + (x - 1)) - o + 1 = x
    BY <1>1, <1>7, <1>8
  <2> QED
    BY <1>9, <2>1
<1> QED
  BY <1>2, <1>4, <1>5, <1>14, <1>15, <1>16, <1>17, <1>18 DEF s

\* What is stored is what is to be shown.
LEMMA StoredShown ==
    ASSUME NEW text, Stores(text), Shown,
           \A x \in 1 .. Len(text) : text[x] = Expansion[o + x]
    PROVE  Shown'
<1>1. /\ o \in Nat /\ Len(text) \in Nat /\ o' = o + Len(text)
      /\ \A j \in 0 .. o - 1 : out'[j] = out[j]
      /\ \A x \in 1 .. Len(text) : out'[o + (x - 1)] = text[x]
      /\ UNCHANGED call
  BY Stored, Bounds DEF Stores
<1>2. ASSUME NEW j \in 0 .. o' - 1 PROVE out'[j] = Expansion[j + 1]
  <2>1. CASE j < o
    <3>1. j \in 0 .. o - 1
      BY <1>1, <2>1
    <3> QED
      BY <1>1, <3>1, Zenon DEF Shown
  <2>2. CASE j >= o
    <3> DEFINE x == j - o + 1
    <3>1. x \in 1 .. Len(text) /\ o + (x - 1) = j /\ o + x = j + 1
      BY <1>1, <2>2
    <3> HIDE DEF x
    <3>2. out'[o + (x - 1)] = text[x] /\ text[x] = Expansion[o + x]
      BY <1>1, <3>1, Zenon
    <3> QED
      BY <3>1, <3>2, Zenon
  <2> QED
    BY <1>1, <2>1, <2>2
<1> QED
  BY <1>1, <1>2, NextParts, Zenon

-----------------------------------------------------------------------------
(* The steps between two pieces. *)

\* In the loop, and not behind the format, a piece is next.
LEMMA LoopPiece ==
    ASSUME Inv, pc = "loop", ~Behind
    PROVE  /\ Shown
           /\ \E n \in 0 .. Len(pieces) :
                 /\ Between(n)
                 /\ fmt[p + 1] = "" <=> n = Len(pieces)
                 /\ n # Len(pieces) =>
                       /\ n \in 0 .. Len(pieces) - 1
                       /\ AtPiece(n, pieces[n + 1], pieces[n + 1].longs)
                       /\ WithArgument(n, pieces[n + 1], Arg)
<1>1. CallInv /\ Shown /\ \E n \in 0 .. Len(pieces) : Between(n) \/ Copying(n)
  BY Zenon DEF Inv
<1>2. PICK n \in 0 .. Len(pieces) : Between(n) \/ Copying(n)
  BY <1>1
<1>3. Between(n)
  BY <1>2 DEF Copying
<1>4. p = Place(Ls, n) /\ taken = Takers(pieces, n)
  BY <1>3, Zenon DEF Between
<1>5. Len(pieces) \in Nat
  BY <1>1, PieceFacts, Zenon
<1>6. ASSUME n # Len(pieces)
      PROVE  /\ n \in 0 .. Len(pieces) - 1
             /\ AtPiece(n, pieces[n + 1], pieces[n + 1].longs)
             /\ WithArgument(n, pieces[n + 1], Arg)
             /\ fmt[p + 1] # ""
  <2>1. n \in 0 .. Len(pieces) - 1
    BY <1>2, <1>5, <1>6
  <2>2. AtPiece(n, pieces[n + 1], pieces[n + 1].longs)
    BY <1>1, <1>4, <2>1, Zenon DEF AtPiece
  <2>3. Arg = args[Takers(pieces, n) + 1]
    BY <1>4, Zenon DEF Arg
  <2>4. WithArgument(n, pieces[n + 1], Arg)
    BY <1>1, <2>1, <2>3, Zenon DEF WithArgument
  <2>5. /\ ~pieces[n + 1].conversion => fmt[p + 1] = pieces[n + 1].ch /\ pieces[n + 1].ch \notin {"", "%"}
        /\ pieces[n + 1].conversion => fmt[p + 1] = "%"
    BY <2>2, ReadPiece, Zenon
  <2>6. "%" # ""
    OBVIOUS
  <2>7. fmt[p + 1] # ""
    BY <2>5, <2>6, Zenon
  <2> QED
    BY <2>1, <2>2, <2>4, <2>7, Zenon
<1>7. n = Len(pieces) => fmt[p + 1] = ""
  BY <1>1, <1>4, ReadEnd, Zenon
<1> QED
  BY <1>1, <1>2, <1>3, <1>6, <1>7, Zenon

\* Behind the format there is no percent sign, and a NUL in the end.
LEMMA ReadBehind ==
    ASSUME Inv, Behind
    PROVE  /\ fmt[p + 1] \in Chars /\ fmt[p + 1] # "%"
           /\ fmt[p + 1] # "" => p + 1 \in Len(FormatText(pieces)) + 1 .. Len(fmt) - 1
<1> DEFINE T == Len(FormatText(pieces))
<1>1. CallInv /\ p \in T + 1 .. Len(fmt) - 1
  BY Zenon DEF Inv, Behind
<1>2. /\ fmt \in Seq(Chars) /\ T \in Nat /\ Len(fmt) \in Nat
      /\ \A x \in T + 2 .. Len(fmt) : fmt[x] # "%"
      /\ fmt[Len(fmt)] = ""
  BY <1>1, MemoryFacts, Zenon
<1>3. T \in Nat /\ Len(fmt) \in Nat
  BY <1>2, Zenon
<1> HIDE DEF T
<1>4. p + 1 \in T + 2 .. Len(fmt) /\ p + 1 \in 1 .. Len(fmt)
  BY <1>1, <1>3
<1>5. fmt[p + 1] # "%"
  BY <1>2, <1>4, Zenon
<1>6. fmt[p + 1] \in Chars
  <2>1. fmt \in Seq(Chars)
    BY <1>2, Zenon
  <2> QED
    BY <1>4, <2>1
<1>7. ASSUME fmt[p + 1] # "" PROVE p + 1 \in T + 1 .. Len(fmt) - 1
  <2>1. p + 1 # Len(fmt)
    BY <1>2, <1>7, Zenon
  <2> QED
    BY <1>3, <1>4, <2>1
<1> QED
  BY <1>5, <1>6, <1>7, Zenon DEF T

\* The text of the next piece is stored, or as much of it as there is room for.
StoresPiece(n, text) ==
    /\ n \in 0 .. Len(pieces) - 1 /\ Between(n) /\ Shown
    /\ Stores(text) /\ rem > 0
    /\ Len(text) <= Len(Meaning(n + 1))
    /\ \A x \in 1 .. Len(text) : text[x] = Meaning(n + 1)[x]
    /\ rem > Len(text) => Len(text) = Len(Meaning(n + 1))
    /\ pc' = "loop" /\ src' = src
    /\ p' = Place(Ls, n + 1) /\ taken' = Takers(pieces, n + 1)

LEMMA PieceStored ==
    ASSUME NEW n, NEW text, StoresPiece(n, text)
    PROVE  Inv'
<1>1. /\ n \in 0 .. Len(pieces) - 1 /\ Between(n) /\ Shown /\ Stores(text) /\ rem > 0
      /\ Len(text) <= Len(Meaning(n + 1))
      /\ \A x \in 1 .. Len(text) : text[x] = Meaning(n + 1)[x]
      /\ rem > Len(text) => Len(text) = Len(Meaning(n + 1))
      /\ pc' = "loop" /\ src' = src
      /\ p' = Place(Ls, n + 1) /\ taken' = Takers(pieces, n + 1)
  BY DEF StoresPiece
<1>2. Inv /\ UNCHANGED call /\ i' = i /\ l' = l
  BY <1>1 DEF Stores
<1>3. /\ CallInv' /\ TypeOK' /\ CountersAgree' /\ StaysInside' /\ Ended'
      /\ Len(text) \in Nat /\ o' = o + Len(text) /\ rem' = rem - Len(text)
  BY <1>1, Stored, Zenon
<1>4. /\ CallInv /\ o \in Nat /\ rem \in Nat
  BY <1>2, Bounds, Zenon
<1>5. o = Place(Ms, n) /\ src = <<>> /\ i = 0 /\ l = 0
  BY <1>1, Zenon DEF Between, Resting
<1>6. /\ Len(Meaning(n + 1)) \in Nat /\ Place(Ms, n) \in Nat
      /\ Place(Ms, n + 1) = Place(Ms, n) + Len(Meaning(n + 1))
      /\ \A x \in 1 .. Len(Meaning(n + 1)) : Expansion[Place(Ms, n) + x] = Meaning(n + 1)[x]
  BY <1>1, <1>4, MeaningPlace, Zenon
<1>7. \A x \in 1 .. Len(text) : text[x] = Expansion[o + x]
  <2>1. Len(text) <= Len(Meaning(n + 1)) /\ Len(text) \in Nat /\ Len(Meaning(n + 1)) \in Nat
    BY <1>1, <1>3, <1>6, Zenon
  <2>2. \A x \in 1 .. Len(text) : x \in 1 .. Len(Meaning(n + 1))
    BY <2>1
  <2> QED
    BY <1>1, <1>5, <1>6, <2>2, Zenon
<1>8. Shown'
  BY <1>1, <1>7, StoredShown, Zenon
<1>9. Len(pieces) \in Nat
  BY <1>4, PieceFacts, Zenon
<1>10. n + 1 \in 0 .. Len(pieces)
  BY <1>1, <1>9
<1>11. o' <= Place(Ms, n + 1) /\ (rem' > 0 => o' = Place(Ms, n + 1))
  <2>1. /\ Len(text) <= Len(Meaning(n + 1)) /\ Len(text) \in Nat /\ Len(Meaning(n + 1)) \in Nat
        /\ rem > Len(text) => Len(text) = Len(Meaning(n + 1))
        /\ o' = o + Len(text) /\ rem' = rem - Len(text) /\ o \in Nat /\ rem \in Nat
        /\ Place(Ms, n + 1) = o + Len(Meaning(n + 1))
    BY <1>1, <1>3, <1>4, <1>5, <1>6, Zenon
  <2> QED
    BY <2>1
<1>12. pc' \in {"loop", "break", "done"} /\ pc' # "break" /\ pc' # "done"
  BY <1>1
<1>13. Between(n + 1)'
  BY <1>1, <1>2, <1>5, <1>10, <1>11, <1>12, NextParts, Zenon
<1>14. \E m \in 0 .. Len(pieces)' : Between(m)' \/ Copying(m)'
  <2>1. pieces' = pieces
    BY <1>2, SameCall, Zenon
  <2>2. Len(pieces)' = Len(pieces)
    BY <2>1
  <2> QED
    BY <1>10, <1>13, <2>2, Zenon
<1> QED
  BY <1>3, <1>8, <1>14, Zenon DEF Inv

LEMMA InvThen ==
    ASSUME UNCHANGED call, CallInv', TypeOK', CountersAgree', StaysInside', Ended', Shown',
           NEW n \in 0 .. Len(pieces), Between(n)' \/ Copying(n)'
    PROVE  Inv'
<1>1. pieces' = pieces
  BY SameCall, Zenon
<1>2. Len(pieces)' = Len(pieces)
  BY <1>1
<1>3. \E m \in 0 .. Len(pieces)' : Between(m)' \/ Copying(m)'
  BY <1>2, Zenon
<1> QED
  BY <1>3, Zenon DEF Inv

\* A step that stores nothing, between two copies.
Quiet ==
    /\ Inv
    /\ UNCHANGED <<call, out, o, rem, written, reported>>
    /\ i = 0 /\ i' = 0 /\ l' \in 0 .. rem
    /\ p' \in Nat /\ taken' \in Nat
    /\ pc' \in {"loop", "string", "number", "break"}

LEMMA QuietKeeps ==
    ASSUME Quiet
    PROVE  /\ UNCHANGED call
           /\ CallInv' /\ TypeOK' /\ CountersAgree' /\ StaysInside' /\ Ended'
           /\ Shown => Shown'
<1>1. /\ Inv /\ UNCHANGED call /\ out' = out /\ o' = o /\ rem' = rem /\ written' = written
      /\ reported' = reported /\ i = 0 /\ i' = 0 /\ l' \in 0 .. rem
      /\ p' \in Nat /\ taken' \in Nat
      /\ pc' \in {"loop", "string", "number", "break"}
  BY DEF Quiet
<1>2. CallInv /\ TypeOK /\ CountersAgree /\ StaysInside /\ rem \in Nat
  BY <1>1, Bounds, Zenon
<1>3. CallInv' /\ out_sz' = out_sz
  BY <1>1, <1>2, SameCall, Zenon
<1>4. l' \in Nat /\ i' \in 0 .. l'
  BY <1>1, <1>2
<1>5. pc' \in {"loop", "string", "number", "break", "done"} /\ pc' # "done"
  BY <1>1
<1>6. TypeOK'
  BY <1>1, <1>2, <1>3, <1>4, <1>5, Zenon DEF TypeOK
<1>7. CountersAgree'
  BY <1>1, <1>2, <1>3, Zenon DEF CountersAgree
<1>8. StaysInside' /\ Ended'
  BY <1>1, <1>2, <1>3, <1>5, Zenon DEF StaysInside, Ended
<1>9. Shown => Shown'
  BY <1>1, NextParts, Zenon DEF Shown
<1> QED
  BY <1>1, <1>3, <1>6, <1>7, <1>8, <1>9

LEMMA PlainKeeps == ASSUME Inv, Plain PROVE Inv'
<1>1. /\ pc = "loop" /\ fmt[p + 1] # "" /\ rem > 0 /\ fmt[p + 1] # "%"
      /\ Store(<<fmt[p + 1]>>) /\ p' = p + 1
      /\ UNCHANGED call /\ taken' = taken /\ src' = src /\ i' = i /\ l' = l
      /\ reported' = reported /\ pc' = pc
  BY DEF Plain, InLoop, copying
<1> DEFINE text == <<fmt[p + 1]>>
<1>2. /\ CallInv /\ rem \in Nat /\ p \in Nat /\ taken \in Nat
  BY Bounds, Zenon
<1>3. p' \in Nat /\ taken' \in Nat /\ pc' \in {"loop", "string"} /\ rem >= 1
  <2>1. p' = p + 1 /\ taken' = taken /\ rem > 0 /\ rem \in Nat /\ p \in Nat /\ taken \in Nat
    BY <1>1, <1>2, Zenon
  <2>2. p' \in Nat /\ taken' \in Nat /\ rem >= 1
    BY <2>1
  <2>3. pc' \in {"loop", "string"}
    BY <1>1, Zenon
  <2> QED
    BY <2>2, <2>3
<1>4. Len(text) = 1 /\ text[1] = fmt[p + 1]
  OBVIOUS
<1>5. ASSUME fmt[p + 1] \in Chars, i = 0, l = 0 PROVE Stores(text)
  <2>1. text \in Seq(Chars)
    BY <1>5, ShortTexts, Zenon
  <2>2. Len(text) <= rem
    BY <1>3, <1>4
  <2> QED
    BY <1>1, <1>3, <1>5, <2>1, <2>2, Zenon DEF Stores
<1>6. CASE Behind
  <2>1. /\ TrailingL(pieces) /\ src = <<>> /\ i = 0 /\ l = 0
    BY <1>6, Zenon DEF Behind, Resting
  <2>2. /\ fmt[p + 1] \in Chars
        /\ p + 1 \in Len(FormatText(pieces)) + 1 .. Len(fmt) - 1
    BY <1>1, <1>6, ReadBehind, Zenon
  <2>3. CallInv' /\ TypeOK' /\ CountersAgree' /\ StaysInside' /\ Ended'
    BY <1>5, <2>1, <2>2, Stored, Zenon
  <2>4. pc' \in {"loop", "done"}
    BY <1>1
  <2>5. Behind'
    BY <1>1, <2>1, <2>2, <2>4, NextParts, Zenon
  <2> QED
    BY <2>3, <2>5, Zenon DEF Inv
<1>7. CASE ~Behind
  <2>1. PICK n \in 0 .. Len(pieces) :
           /\ Between(n) /\ n # Len(pieces)
           /\ n \in 0 .. Len(pieces) - 1
           /\ AtPiece(n, pieces[n + 1], pieces[n + 1].longs)
           /\ WithArgument(n, pieces[n + 1], Arg)
    BY <1>1, <1>7, LoopPiece, Zenon
  <2> DEFINE piece == pieces[n + 1]
  <2>2. Shown
    BY <1>1, <1>7, LoopPiece, Zenon
  <2>3. ~piece.conversion
    BY <1>1, <2>1, ReadPiece, Zenon
  <2>4. fmt[p + 1] = piece.ch /\ piece.ch \in Chars /\ Place(Ls, n + 1) = p + 1
    BY <2>1, <2>3, ReadPiece, Zenon
  <2>5. Meaning(n + 1) = <<piece.ch>> /\ Takers(pieces, n + 1) = Takers(pieces, n)
    BY <2>1, <2>3, MeaningOf, NoArgument, Zenon
  <2>6. src = <<>> /\ i = 0 /\ l = 0 /\ taken = Takers(pieces, n)
    BY <2>1, Zenon DEF Between, Resting
  <2>7. Stores(text)
    BY <1>5, <2>4, <2>6, Zenon
  <2>8. Meaning(n + 1) = text
    BY <2>4, <2>5, Zenon
  <2>9. Len(text) <= Len(text)
    BY <1>4
  <2> HIDE DEF text, piece
  <2>10. StoresPiece(n, text)
    BY <1>1, <2>1, <2>2, <2>4, <2>5, <2>6, <2>7, <2>8, <2>9, Zenon DEF StoresPiece
  <2> QED
    BY <2>10, PieceStored, Zenon
<1> QED
  BY <1>6, <1>7

\* A percent sign is never behind the format.
LEMMA ConversionPiece ==
    ASSUME Inv, InLoop, fmt[p + 1] = "%"
    PROVE  /\ Shown
           /\ \E n \in 0 .. Len(pieces) - 1 : \E piece, longs :
                 /\ Between(n)
                 /\ AtPiece(n, piece, longs) /\ WithArgument(n, piece, Arg)
                 /\ piece.conversion
                 /\ LongCount = longs /\ Conversion = piece.ch
                 /\ i = 0 /\ l = 0 /\ src = <<>>
                 /\ taken = Takers(pieces, n) /\ o = Place(Ms, n)
                 /\ n + 1 \in 0 .. Len(pieces) /\ n + 1 \in 1 .. Len(pieces)
<1>1. pc = "loop" /\ fmt[p + 1] # "" /\ rem > 0
  BY DEF InLoop
<1>2. ~Behind
  BY ReadBehind, Zenon
<1>3. Shown
  BY <1>1, <1>2, LoopPiece, Zenon
<1>4. PICK n \in 0 .. Len(pieces) :
           /\ Between(n) /\ n # Len(pieces)
           /\ n \in 0 .. Len(pieces) - 1
           /\ AtPiece(n, pieces[n + 1], pieces[n + 1].longs)
           /\ WithArgument(n, pieces[n + 1], Arg)
  BY <1>1, <1>2, LoopPiece, Zenon
<1>5. pieces[n + 1].conversion
  BY <1>4, ReadPiece, Zenon
<1>6. LongCount = pieces[n + 1].longs /\ Conversion = pieces[n + 1].ch
  BY <1>4, <1>5, ReadConversion, Zenon
<1>7. i = 0 /\ l = 0 /\ src = <<>> /\ taken = Takers(pieces, n) /\ o = Place(Ms, n)
  BY <1>1, <1>4, Zenon DEF Between, Resting
<1>8. Len(pieces) \in Nat
  <2>1. CallInv
    BY Zenon DEF Inv
  <2> QED
    BY <2>1, PieceFacts, Zenon
<1>9. n + 1 \in 0 .. Len(pieces) /\ n + 1 \in 1 .. Len(pieces)
  BY <1>4, <1>8
<1> QED
  BY <1>3, <1>4, <1>5, <1>6, <1>7, <1>9, Zenon

\* What ReadPiece says of a conversion.
IsConversion(n, piece, longs) ==
    /\ longs \in Nat
    /\ \A m \in 0 .. longs - 1 : fmt[p + 2 + m] = "l"
    /\ fmt[p + 2 + longs] = piece.ch
    /\ piece.ch = "" => n + 1 = Len(pieces)
    /\ piece.ch = "" => Place(Ls, n + 1) = p + 1 + longs
    /\ piece.ch # "" => Place(Ls, n + 1) = p + 1 + longs + 1
    /\ Place(Ls, n + 1) <= Len(FormatText(pieces))

LEMMA ConversionText ==
    ASSUME NEW n, NEW piece, NEW longs, AtPiece(n, piece, longs), piece.conversion
    PROVE  IsConversion(n, piece, longs)
<1> DEFINE e == IF piece.ch = "" THEN 0 ELSE 1
<1>1. /\ p \in Nat /\ longs \in Nat
      /\ Place(Ls, n + 1) <= Len(FormatText(pieces))
      /\ piece.conversion =>
            /\ \A m \in 0 .. longs - 1 : fmt[p + 2 + m] = "l"
            /\ fmt[p + 2 + longs] = piece.ch
            /\ piece.ch = "" => n + 1 = Len(pieces)
            /\ Place(Ls, n + 1) = p + 1 + longs + e
  BY ReadPiece, ZenonT(40)
<1>2. p + 1 + longs + 0 = p + 1 + longs
  <2>1. p \in Nat /\ longs \in Nat
    BY <1>1, Zenon
  <2> QED
    BY <2>1
<1>3. (piece.ch = "" => e = 0) /\ (piece.ch # "" => e = 1)
  OBVIOUS
<1> HIDE DEF e
<1>4. Place(Ls, n + 1) = p + 1 + longs + e
  BY <1>1, Zenon
<1>5. piece.ch = "" => Place(Ls, n + 1) = p + 1 + longs
  BY <1>2, <1>3, <1>4, Zenon
<1>6. piece.ch # "" => Place(Ls, n + 1) = p + 1 + longs + 1
  BY <1>3, <1>4, Zenon
<1> QED
  BY <1>1, <1>5, <1>6, Zenon DEF IsConversion

LEMMA PercentEndKeeps == ASSUME Inv, PercentEnd PROVE Inv'
<1>1. /\ InLoop /\ fmt[p + 1] = "%" /\ fmt[p + 2] = ""
      /\ p' = p + 1 /\ pc' = "break"
      /\ UNCHANGED call /\ out' = out /\ o' = o /\ rem' = rem /\ written' = written
      /\ taken' = taken /\ src' = src /\ i' = i /\ l' = l /\ reported' = reported
  BY DEF PercentEnd, copying
<1>2. PICK n, piece, longs :
                 /\ n \in 0 .. Len(pieces) - 1
                 /\ Between(n)
                 /\ AtPiece(n, piece, longs) /\ WithArgument(n, piece, Arg)
                 /\ piece.conversion
                 /\ i = 0 /\ l = 0 /\ src = <<>>
                 /\ taken = Takers(pieces, n) /\ o = Place(Ms, n)
                 /\ n + 1 \in 0 .. Len(pieces) /\ n + 1 \in 1 .. Len(pieces)
  BY <1>1, ConversionPiece, Zenon
<1>3. CallInv /\ p \in Nat /\ rem \in Nat /\ taken \in Nat /\ Shown
  BY <1>1, Bounds, ConversionPiece, Zenon
<1>4. /\ longs \in Nat
      /\ \A m \in 0 .. longs - 1 : fmt[p + 2 + m] = "l"
      /\ fmt[p + 2 + longs] = piece.ch
      /\ piece.ch = "" => n + 1 = Len(pieces)
      /\ piece.ch = "" => Place(Ls, n + 1) = p + 1 + longs
  <2>1. IsConversion(n, piece, longs)
    BY <1>2, ConversionText, Zenon
  <2> QED
    BY <2>1, Zenon DEF IsConversion
<1>5. longs = 0
  <2>1. CASE longs # 0
    <3>0. longs \in Nat /\ p \in Nat
      BY <1>3, <1>4, Zenon
    <3>1. 0 \in 0 .. longs - 1 /\ p + 2 + 0 = p + 2
      BY <2>1, <3>0
    <3>2. fmt[p + 2] = "l"
      BY <1>4, <3>1, Zenon
    <3>3. "l" # ""
      OBVIOUS
    <3> QED
      BY <1>1, <3>2, <3>3, Zenon
  <2> QED
    BY <2>1
<1>6. piece.ch = "" /\ n + 1 = Len(pieces) /\ Place(Ls, n + 1) = p + 1
  <2>1. p + 2 + longs = p + 2 /\ p + 1 + longs = p + 1
    BY <1>3, <1>5
  <2>2. piece.ch = ""
    BY <1>1, <1>4, <2>1, Zenon
  <2>3. Place(Ls, n + 1) = p + 1 + longs
    BY <1>4, <2>2, Zenon
  <2> QED
    BY <1>4, <2>1, <2>2, <2>3, Zenon
<1>7. Meaning(n + 1) = <<>> /\ Takers(pieces, n + 1) = Takers(pieces, n)
  <2>1. Meaning(n + 1) = <<>>
    BY <1>2, <1>6, MeaningOf, Zenon
  <2>2. "" \notin Numeric \cup {"s", "c"}
    BY DEF Numeric
  <2>3. Takers(pieces, n + 1) = Takers(pieces, n)
    BY <1>2, <1>6, <2>2, NoArgument, Zenon
  <2> QED
    BY <2>1, <2>3
<1>8. Place(Ms, n + 1) = Place(Ms, n) /\ Place(Ms, n) \in Nat
  <2>1. Place(Ms, n + 1) = Place(Ms, n) + Len(Meaning(n + 1)) /\ Place(Ms, n) \in Nat
    BY <1>2, <1>3, MeaningPlace, Zenon
  <2>2. Len(Meaning(n + 1)) = 0
    BY <1>7
  <2> QED
    BY <2>1, <2>2
<1>9. Quiet
  <2>1. p' \in Nat /\ taken' \in Nat /\ l' \in 0 .. rem /\ i' = 0
    <3>1. p' = p + 1 /\ taken' = taken /\ l' = 0 /\ i' = 0
      BY <1>1, <1>2, Zenon
    <3> QED
      BY <1>3, <3>1
  <2>2. pc' \in {"loop", "string", "number", "break"}
    BY <1>1
  <2> QED
    BY <1>1, <1>2, <2>1, <2>2, Zenon DEF Quiet
<1>10. Between(n + 1)'
  <2>1. o' <= Place(Ms, n + 1) /\ o' = Place(Ms, n + 1)
    <3>1. o' = Place(Ms, n)
      BY <1>1, <1>2, Zenon
    <3> QED
      BY <1>8, <3>1
  <2>2. pc' \in {"loop", "break", "done"} /\ pc' # "done"
    BY <1>1
  <2>3. p' = Place(Ls, n + 1) /\ taken' = Takers(pieces, n + 1)
    BY <1>1, <1>2, <1>6, <1>7, Zenon
  <2> QED
    BY <1>1, <1>2, <1>6, <2>1, <2>2, <2>3, NextParts, Zenon
<1> QED
  BY <1>1, <1>2, <1>3, <1>9, <1>10, QuietKeeps, InvThen, Zenon

\* A string or a number is about to be copied.
BeginsCopy(n, piece, longs, text) ==
    /\ n \in 0 .. Len(pieces) - 1 /\ Between(n) /\ Shown
    /\ AtPiece(n, piece, longs) /\ WithArgument(n, piece, Arg)
    /\ piece.conversion /\ piece.ch \in Numeric \cup {"s"}
    /\ o = Place(Ms, n)
    /\ text = Meaning(n + 1)
    /\ src' = text
    /\ taken' = taken + 1
    /\ p' = p + 1 + longs
    /\ l' \in 0 .. rem /\ i = 0 /\ i' = 0
    /\ pc' \in {"string", "number"}
    /\ pc' = "string" => l' = 0
    /\ pc' = "number" => l' = IF Len(text) > rem THEN rem ELSE Len(text)
    /\ UNCHANGED <<call, out, o, rem, written, reported>>

LEMMA CopyBegun == ASSUME Inv, NEW n, NEW piece, NEW longs, NEW text, BeginsCopy(n, piece, longs, text) PROVE Inv'
<1>1. /\ n \in 0 .. Len(pieces) - 1 /\ Between(n) /\ Shown
      /\ AtPiece(n, piece, longs)
      /\ WithArgument(n, piece, Arg)
      /\ piece.conversion /\ piece.ch \in Numeric \cup {"s"}
      /\ o = Place(Ms, n)
      /\ text = Meaning(n + 1)
      /\ src' = text
      /\ taken' = taken + 1
      /\ p' = p + 1 + longs
      /\ l' \in 0 .. rem /\ i = 0 /\ i' = 0
      /\ pc' \in {"string", "number"}
      /\ pc' = "string" => l' = 0
      /\ pc' = "number" => l' = IF Len(text) > rem THEN rem ELSE Len(text)
      /\ UNCHANGED <<call, out, o, rem, written, reported>>
  BY DEF BeginsCopy
<1>2. /\ CallInv /\ p \in Nat /\ rem \in Nat /\ taken \in Nat /\ written \in Nat
      /\ o \in Nat /\ o = written + i
  BY Bounds, Zenon
<1>3. piece.ch # ""
  BY <1>1 DEF Numeric
<1>4. IsConversion(n, piece, longs)
  BY <1>1, ConversionText, Zenon
<1>5. Place(Ls, n + 1) = p + 1 + longs + 1 /\ longs \in Nat
  BY <1>3, <1>4, Zenon DEF IsConversion
<1>6. p' = p + 1 + longs
  BY <1>1, Zenon
<1>7. longs \in Nat
  BY <1>5, Zenon
<1>8. p' + 1 = Place(Ls, n + 1) /\ p' \in Nat
  BY <1>2, <1>5, <1>6, <1>7
<1>9. taken' = Takers(pieces, n + 1) /\ taken' \in Nat
  <2>1. taken = Takers(pieces, n)
    BY <1>1, Zenon DEF Between
  <2>2. piece.ch \in Numeric \cup {"s", "c"}
    BY <1>1, Zenon
  <2>3. Takers(pieces, n + 1) = Takers(pieces, n) + 1
    BY <1>1, <2>2, ArgumentIsThere, Zenon
  <2>4. taken' = taken + 1
    BY <1>1, Zenon
  <2>5. taken' \in Nat
    BY <1>2, <2>4
  <2> QED
    BY <2>1, <2>3, <2>4, <2>5, Zenon
<1>10. text \in Seq(Chars)
  BY <1>1, MeaningIsText, Zenon
<1>11. Len(text) \in Nat
  BY <1>10
<1>12. /\ Place(Ms, n + 1) = Place(Ms, n) + Len(text) /\ Place(Ms, n) \in Nat
       /\ \A x \in 1 .. Len(text) : Expansion[Place(Ms, n) + x] = text[x]
  BY <1>1, <1>2, MeaningPlace, Zenon
<1>13. written = o
  <2>1. i = 0
    BY <1>1, Zenon
  <2> QED
    BY <1>2, <2>1
<1>14. written' = written
  BY <1>1
<1>15. written' + Len(src') = Place(Ms, n + 1)
  BY <1>1, <1>12, <1>13, <1>14, Zenon
<1>16. \A x \in 1 .. Len(src') : src'[x] = Expansion[written' + x]
  BY <1>1, <1>12, <1>13, <1>14, Zenon
<1>17. Len(pieces) \in Nat
  BY <1>2, PieceFacts, Zenon
<1>18. n + 1 \in 1 .. Len(pieces) /\ n + 1 \in 0 .. Len(pieces)
  <2>1. n \in 0 .. Len(pieces) - 1
    BY <1>1, Zenon
  <2> QED
    BY <1>17, <2>1
<1>19. pc' = "number" => l' <= Len(src') /\ (l' < Len(src') => l' = rem')
  <2>1. ASSUME pc' = "number" PROVE l' <= Len(src') /\ (l' < Len(src') => l' = rem')
    <3>1. l' = (IF Len(text) > rem THEN rem ELSE Len(text)) /\ src' = text /\ rem' = rem
      BY <1>1, <2>1
    <3>2. l' <= Len(text) /\ (l' < Len(text) => l' = rem)
      BY <1>2, <1>11, <3>1
    <3> QED
      BY <3>1, <3>2, Zenon
  <2> QED
    BY <2>1, Zenon
<1>20. Copying(n + 1)'
  <2>1. UNCHANGED call
    BY <1>1
  <2> QED
    BY <1>1, <1>8, <1>9, <1>10, <1>15, <1>16, <1>18, <1>19, <2>1, NextParts, Zenon
<1>21. Quiet
  <2>1. pc' \in {"loop", "string", "number", "break"}
    BY <1>1
  <2> QED
    BY <1>1, <1>8, <1>9, <2>1, Zenon DEF Quiet
<1> QED
  BY <1>1, <1>18, <1>20, <1>21, QuietKeeps, InvThen, Zenon

LEMMA ConvStringKeeps == ASSUME Inv, ConvString PROVE Inv'
<1>1. /\ InLoop /\ fmt[p + 1] = "%" /\ Conversion = "s"
      /\ src' = StringOf(Arg) /\ taken' = taken + 1 /\ p' = p + 1 + LongCount
      /\ pc' = "string"
      /\ UNCHANGED <<call, out, o, rem, written, reported>> /\ i' = i /\ l' = l
  BY DEF ConvString, AtConversion
<1>2. PICK n, piece, longs :
                 /\ n \in 0 .. Len(pieces) - 1
                 /\ Between(n)
                 /\ AtPiece(n, piece, longs) /\ WithArgument(n, piece, Arg)
                 /\ piece.conversion
                 /\ LongCount = longs /\ Conversion = piece.ch
                 /\ i = 0 /\ l = 0 /\ o = Place(Ms, n)
  BY <1>1, ConversionPiece, Zenon
<1>3. rem \in Nat /\ Shown
  BY <1>1, Bounds, ConversionPiece, Zenon
<1>4. piece.ch = "s"
  BY <1>1, <1>2, Zenon
<1>5. Meaning(n + 1) = StringOf(Arg)
  BY <1>2, <1>4, MeaningOf, Zenon
<1>6. l' \in 0 .. rem /\ l' = 0 /\ i' = 0
  <2>1. l' = 0 /\ i' = 0
    BY <1>1, <1>2, Zenon
  <2> QED
    BY <1>3, <2>1
<1>7. pc' \in {"string", "number"} /\ pc' # "number" /\ piece.ch \in Numeric \cup {"s"}
  BY <1>1, <1>4
<1>8. BeginsCopy(n, piece, longs, StringOf(Arg))
  BY <1>1, <1>2, <1>3, <1>5, <1>6, <1>7, Zenon DEF BeginsCopy
<1> QED
  BY <1>8, CopyBegun, Zenon

LEMMA ConvNumberKeeps == ASSUME Inv, ConvNumber PROVE Inv'
<1> DEFINE text == NumberText(Conversion, LongCount, Arg)
<1>1. /\ InLoop /\ fmt[p + 1] = "%" /\ Conversion \in Numeric
      /\ src' = text /\ taken' = taken + 1 /\ p' = p + 1 + LongCount
      /\ l' = (IF Len(text) > rem THEN rem ELSE Len(text)) /\ i' = 0
      /\ pc' = "number"
      /\ UNCHANGED <<call, out, o, rem, written, reported>>
  BY Zenon DEF ConvNumber, AtConversion
<1>2. PICK n, piece, longs :
                 /\ n \in 0 .. Len(pieces) - 1
                 /\ Between(n)
                 /\ AtPiece(n, piece, longs) /\ WithArgument(n, piece, Arg)
                 /\ piece.conversion
                 /\ LongCount = longs /\ Conversion = piece.ch
                 /\ i = 0 /\ l = 0 /\ o = Place(Ms, n)
  BY <1>1, ConversionPiece, Zenon
<1>3. rem \in Nat /\ Shown
  BY <1>1, Bounds, ConversionPiece, Zenon
<1>4. piece.ch \in Numeric
  BY <1>1, <1>2, Zenon
<1>5. Meaning(n + 1) = text
  <2>1. Meaning(n + 1) = NumberText(piece.ch, piece.longs, Arg)
    BY <1>2, <1>4, MeaningOf, Zenon
  <2>2. piece.longs = longs
    BY <1>2, Zenon DEF AtPiece
  <2> QED
    BY <1>2, <2>1, <2>2, Zenon
<1>6. l' \in 0 .. rem
  <2>1. text \in Seq(Chars)
    BY <1>2, <1>5, MeaningIsText, Zenon
  <2> HIDE DEF text
  <2>2. Len(text) \in Nat
    BY <2>1
  <2>3. l' = (IF Len(text) > rem THEN rem ELSE Len(text))
    BY <1>1, Zenon
  <2> QED
    BY <1>3, <2>2, <2>3
<1>7. pc' \in {"string", "number"} /\ pc' # "string" /\ piece.ch \in Numeric \cup {"s"}
  BY <1>1, <1>4
<1> HIDE DEF text
<1>8. BeginsCopy(n, piece, longs, text)
  BY <1>1, <1>2, <1>3, <1>5, <1>6, <1>7, Zenon DEF BeginsCopy
<1> QED
  BY <1>8, CopyBegun, Zenon

-----------------------------------------------------------------------------
(* The steps that store what a conversion of one character stands for. *)

ConvStores(n, piece, longs, text) ==
    /\ n \in 0 .. Len(pieces) - 1 /\ Between(n) /\ Shown
    /\ AtPiece(n, piece, longs)
    /\ i = 0 /\ l = 0 /\ rem > 0
    /\ text \in Seq(Chars) /\ Len(text) <= rem
    /\ Store(text)
    /\ UNCHANGED <<call, i, l, reported, pc, src>>
    /\ pc = "loop"
    /\ piece.conversion /\ piece.ch # ""
    /\ p' = p + 2 + longs /\ taken' = Takers(pieces, n + 1)
    /\ Len(text) <= Len(Meaning(n + 1))
    /\ \A x \in 1 .. Len(text) : text[x] = Meaning(n + 1)[x]
    /\ rem > Len(text) => Len(text) = Len(Meaning(n + 1))

LEMMA ConvStored ==
    ASSUME Inv, NEW n, NEW piece, NEW longs, NEW text, ConvStores(n, piece, longs, text)
    PROVE  Inv'
<1>1. /\ n \in 0 .. Len(pieces) - 1 /\ Between(n) /\ Shown
      /\ AtPiece(n, piece, longs)
      /\ i = 0 /\ l = 0 /\ rem > 0
      /\ text \in Seq(Chars) /\ Len(text) <= rem
      /\ Store(text)
      /\ UNCHANGED call /\ i' = i /\ l' = l /\ reported' = reported /\ pc' = pc /\ src' = src
      /\ pc = "loop"
      /\ piece.conversion /\ piece.ch # ""
      /\ p' = p + 2 + longs /\ taken' = Takers(pieces, n + 1)
      /\ Len(text) <= Len(Meaning(n + 1))
      /\ \A x \in 1 .. Len(text) : text[x] = Meaning(n + 1)[x]
      /\ rem > Len(text) => Len(text) = Len(Meaning(n + 1))
  BY DEF ConvStores
<1>2. p \in Nat /\ CallInv
  BY Bounds, Zenon
<1>3. IsConversion(n, piece, longs)
  BY <1>1, ConversionText, Zenon
<1>4. longs \in Nat /\ Place(Ls, n + 1) = p + 1 + longs + 1
  BY <1>1, <1>3, Zenon DEF IsConversion
<1>5. p + 2 + longs = p + 1 + longs + 1 /\ p + 2 + longs \in Nat
  <2>1. longs \in Nat /\ p \in Nat
    BY <1>2, <1>4, Zenon
  <2> QED
    BY <2>1
<1>6. p' \in Nat /\ p' = Place(Ls, n + 1)
  BY <1>1, <1>4, <1>5, Zenon
<1>7. taken' \in Nat
  <2>1. Len(pieces) \in Nat
    BY <1>2, PieceFacts, Zenon
  <2>2. n \in 0 .. Len(pieces) - 1
    BY <1>1, Zenon
  <2>3. n + 1 \in Nat
    BY <2>1, <2>2
  <2> QED
    BY <1>1, <2>3, TakersFacts, Zenon
<1>8. pc' = "loop" /\ pc' \in {"loop", "string"}
  BY <1>1
<1>9. Stores(text)
  BY <1>1, <1>6, <1>7, <1>8, Zenon DEF Stores
<1>10. StoresPiece(n, text)
  BY <1>1, <1>6, <1>8, <1>9, Zenon DEF StoresPiece
<1> QED
  BY <1>10, PieceStored, Zenon

LEMMA ConvCharKeeps == ASSUME Inv, ConvChar PROVE Inv'
<1>1. /\ InLoop /\ fmt[p + 1] = "%" /\ Conversion = "c"
      /\ Store(<<Arg.ch>>) /\ taken' = taken + 1 /\ p' = p + 2 + LongCount
      /\ UNCHANGED <<call, i, l, reported, pc, src>>
  BY DEF ConvChar, AtConversion, copying
<1>2. PICK n, piece, longs :
                 /\ n \in 0 .. Len(pieces) - 1
                 /\ Between(n)
                 /\ AtPiece(n, piece, longs) /\ WithArgument(n, piece, Arg)
                 /\ piece.conversion
                 /\ LongCount = longs /\ Conversion = piece.ch
                 /\ i = 0 /\ l = 0 /\ taken = Takers(pieces, n)
  BY <1>1, ConversionPiece, Zenon
<1>3. rem \in Nat /\ Shown
  BY <1>1, Bounds, ConversionPiece, Zenon
<1>4. pc = "loop" /\ rem > 0
  BY <1>1, Zenon DEF InLoop
<1>5. piece.ch = "c" /\ piece.ch # ""
  BY <1>1, <1>2
<1> DEFINE text == <<Arg.ch>>
<1>6. Meaning(n + 1) = text
  BY <1>2, <1>5, MeaningOf, Zenon
<1>7. Arg.ch \in Chars /\ Takers(pieces, n + 1) = Takers(pieces, n) + 1
  <2>1. piece.ch \in Numeric \cup {"s", "c"}
    BY <1>5
  <2> QED
    BY <1>2, <2>1, ArgumentIsThere, Zenon
<1>8. text \in Seq(Chars)
  BY <1>7, ShortTexts, Zenon
<1>9. Len(text) <= rem /\ Len(text) <= Len(text)
  <2>1. Len(text) = 1
    OBVIOUS
  <2> HIDE DEF text
  <2> QED
    BY <1>3, <1>4, <2>1
<1>10. Store(text)
  BY <1>1
<1> HIDE DEF text
<1>11. ConvStores(n, piece, longs, text)
  BY <1>1, <1>2, <1>3, <1>4, <1>5, <1>6, <1>7, <1>8, <1>9, <1>10, Zenon DEF ConvStores
<1> QED
  BY <1>11, ConvStored, Zenon

LEMMA ConvPercentKeeps == ASSUME Inv, ConvPercent PROVE Inv'
<1>1. /\ InLoop /\ fmt[p + 1] = "%" /\ Conversion = "%"
      /\ Store(<<"%">>) /\ taken' = taken /\ p' = p + 2 + LongCount
      /\ UNCHANGED <<call, i, l, reported, pc, src>>
  BY DEF ConvPercent, AtConversion, copying
<1>2. PICK n, piece, longs :
                 /\ n \in 0 .. Len(pieces) - 1
                 /\ Between(n)
                 /\ AtPiece(n, piece, longs) /\ WithArgument(n, piece, Arg)
                 /\ piece.conversion
                 /\ LongCount = longs /\ Conversion = piece.ch
                 /\ i = 0 /\ l = 0 /\ taken = Takers(pieces, n)
  BY <1>1, ConversionPiece, Zenon
<1>3. rem \in Nat /\ Shown
  BY <1>1, Bounds, ConversionPiece, Zenon
<1>4. pc = "loop" /\ rem > 0
  BY <1>1, Zenon DEF InLoop
<1>5. piece.ch = "%" /\ piece.ch # ""
  BY <1>1, <1>2
<1> DEFINE text == <<"%">>
<1>6. Meaning(n + 1) = text
  BY <1>2, <1>5, MeaningOf, Zenon
<1>7. Takers(pieces, n + 1) = Takers(pieces, n)
  <2>1. piece.ch \notin Numeric \cup {"s", "c"}
    BY <1>5 DEF Numeric
  <2> QED
    BY <1>2, <2>1, NoArgument, Zenon
<1>8. text \in Seq(Chars)
  BY LettersAreChars, ShortTexts, Zenon
<1>9. Len(text) <= rem /\ Len(text) <= Len(text)
  <2>1. Len(text) = 1
    OBVIOUS
  <2> HIDE DEF text
  <2> QED
    BY <1>3, <1>4, <2>1
<1>10. Store(text)
  BY <1>1
<1> HIDE DEF text
<1>11. ConvStores(n, piece, longs, text)
  BY <1>1, <1>2, <1>3, <1>4, <1>5, <1>6, <1>7, <1>8, <1>9, <1>10, Zenon DEF ConvStores
<1> QED
  BY <1>11, ConvStored, Zenon

\* A conversion nobody knows, and the NUL behind %l.
LEMMA ConvOtherKeeps == ASSUME Inv, ConvOther PROVE Inv'
<1> DEFINE text == IF rem > 1 THEN <<"%", Conversion>> ELSE <<"%">>
<1>1. /\ InLoop /\ fmt[p + 1] = "%" /\ fmt[p + 2] # ""
      /\ Conversion \notin Numeric \cup {"s", "c", "%"}
      /\ Store(text) /\ taken' = taken /\ p' = p + 2 + LongCount
      /\ UNCHANGED <<call, i, l, reported, pc, src>>
  BY DEF ConvOther, AtConversion, copying
<1>2. PICK n, piece, longs :
                 /\ n \in 0 .. Len(pieces) - 1
                 /\ Between(n)
                 /\ AtPiece(n, piece, longs) /\ WithArgument(n, piece, Arg)
                 /\ piece.conversion
                 /\ LongCount = longs /\ Conversion = piece.ch
                 /\ i = 0 /\ l = 0 /\ src = <<>> /\ taken = Takers(pieces, n)
  BY <1>1, ConversionPiece, Zenon
<1>3. CallInv /\ rem \in Nat /\ p \in Nat /\ taken \in Nat /\ Shown
  BY <1>1, Bounds, ConversionPiece, Zenon
<1>4. pc = "loop" /\ rem > 0
  BY <1>1, Zenon DEF InLoop
<1>5. piece.ch \notin Numeric \cup {"s", "c", "%"} /\ piece.ch \in Chars
  BY <1>1, <1>2, ReadPiece, Zenon
<1>6. text \in Seq(Chars) /\ Len(text) <= rem /\ Len(text) \in {1, 2}
      /\ (rem > Len(text) => Len(text) = 2) /\ text[1] = "%"
      /\ (Len(text) = 2 => text[2] = piece.ch)
  <2>1. CASE rem > 1
    <3>1. text = <<"%", piece.ch>>
      BY <1>2, <2>1, Zenon
    <3>2. text \in Seq(Chars)
      BY <1>5, <3>1, LettersAreChars, ShortTexts, Zenon
    <3>3. Len(text) = 2 /\ text[1] = "%" /\ text[2] = piece.ch
      BY <3>1
    <3> HIDE DEF text
    <3>4. Len(text) <= rem /\ Len(text) \in {1, 2}
      BY <1>3, <2>1, <3>3
    <3> QED
      BY <3>2, <3>3, <3>4, Zenon
  <2>2. CASE ~(rem > 1)
    <3>1. text = <<"%">>
      BY <2>2, Zenon
    <3>2. text \in Seq(Chars)
      BY <3>1, LettersAreChars, ShortTexts, Zenon
    <3>3. Len(text) = 1 /\ text[1] = "%"
      BY <3>1
    <3> HIDE DEF text
    <3>4. rem = 1
      BY <1>3, <1>4, <2>2
    <3>5. Len(text) <= rem /\ Len(text) \in {1, 2} /\ ~(rem > Len(text)) /\ Len(text) # 2
      BY <3>3, <3>4
    <3> QED
      BY <3>2, <3>3, <3>5, Zenon
  <2> QED
    BY <2>1, <2>2
<1>7. Store(text)
  BY <1>1
<1> HIDE DEF text
<1>8. CASE piece.ch # ""
  <2>1. Meaning(n + 1) = <<"%", piece.ch>>
    <3>1. piece.ch \notin Numeric \cup {"", "s", "c", "%"}
      BY <1>5, <1>8, Zenon
    <3> QED
      BY <1>2, <3>1, MeaningOf, Zenon
  <2>2. Len(Meaning(n + 1)) = 2 /\ Meaning(n + 1)[1] = "%" /\ Meaning(n + 1)[2] = piece.ch
    BY <2>1
  <2>3. Len(text) \in {1, 2} /\ Len(Meaning(n + 1)) = 2
    BY <1>6, <2>2, Zenon
  <2>4. Len(text) <= Len(Meaning(n + 1))
        /\ \A x \in 1 .. Len(text) : x = 1 \/ (x = 2 /\ Len(text) = 2)
    <3>1. CASE Len(text) = 1
      BY <2>3, <3>1
    <3>2. CASE Len(text) = 2
      BY <2>3, <3>2
    <3> QED
      BY <2>3, <3>1, <3>2, Zenon
  <2>5. \A x \in 1 .. Len(text) : text[x] = Meaning(n + 1)[x]
    BY <1>6, <2>2, <2>4, Zenon
  <2>6. Takers(pieces, n + 1) = Takers(pieces, n)
    <3>1. ~(piece.conversion /\ piece.ch \in Numeric \cup {"s", "c"})
      BY <1>5, Zenon
    <3> QED
      BY <1>2, <3>1, NoArgument, Zenon
  <2>7. rem > Len(text) => Len(text) = Len(Meaning(n + 1))
    BY <1>6, <2>2, Zenon
  <2>8. ConvStores(n, piece, longs, text)
    BY <1>1, <1>2, <1>3, <1>4, <1>6, <1>7, <1>8, <2>4, <2>5, <2>6, <2>7, Zenon DEF ConvStores
  <2> QED
    BY <2>8, ConvStored, Zenon
<1>9. CASE piece.ch = ""
  <2> DEFINE T == Len(FormatText(pieces))
  <2>1. IsConversion(n, piece, longs)
    BY <1>2, ConversionText, Zenon
  <2>2. /\ longs \in Nat /\ n + 1 = Len(pieces) /\ Place(Ls, n + 1) = p + 1 + longs
        /\ fmt[p + 2 + longs] = ""
    BY <1>9, <2>1, Zenon DEF IsConversion
  <2>3. longs > 0
    <3>1. CASE longs = 0
      <4>1. p + 2 + longs = p + 2
        BY <1>3, <3>1
      <4> QED
        BY <1>1, <2>2, <4>1, Zenon
    <3>2. longs \in Nat
      BY <2>2, Zenon
    <3> QED
      BY <3>1, <3>2
  <2>4. TrailingL(pieces)
    <3>1. piece = pieces[Len(pieces)] /\ longs = piece.longs /\ n \in 0 .. Len(pieces) - 1
      BY <1>2, <2>2, Zenon DEF AtPiece
    <3>2. pieces # <<>>
      <4>1. Len(pieces) \in Nat /\ n \in 0 .. Len(pieces) - 1
        BY <1>3, <3>1, PieceFacts, Zenon
      <4>2. Len(pieces) # 0
        BY <4>1
      <4> QED
        BY <4>2
    <3> QED
      BY <1>9, <2>3, <3>1, <3>2, Zenon DEF TrailingL
  <2>5. T = Place(Ls, n + 1)
    BY <1>3, <2>2, LetterSeqsFacts, Zenon DEF Ls
  <2>6. T \in Nat /\ Len(fmt) \in Nat /\ T + 2 <= Len(fmt)
    BY <1>3, MemoryFacts, Zenon
  <2>7. p' = p + 2 + longs
    BY <1>1, <1>2, Zenon
  <2>12. T = p + 1 + longs /\ longs \in Nat /\ p \in Nat
    BY <1>3, <2>2, <2>5, Zenon
  <2> HIDE DEF T
  <2>8. p' \in T + 1 .. Len(fmt) - 1 /\ p' \in Nat
    BY <2>6, <2>7, <2>12
  <2>9. Stores(text)
    <3>1. pc' \in {"loop", "string"}
      BY <1>1, <1>4
    <3>2. taken' \in Nat
      BY <1>1, <1>3, Zenon
    <3> QED
      BY <1>1, <1>2, <1>6, <1>7, <2>8, <3>1, <3>2, Zenon DEF Stores
  <2>10. CallInv' /\ TypeOK' /\ CountersAgree' /\ StaysInside' /\ Ended'
    BY <2>9, Stored, Zenon
  <2>11. Behind'
    <3>1. pc' \in {"loop", "done"}
      BY <1>1, <1>4
    <3>2. UNCHANGED call /\ src' = <<>> /\ i' = 0 /\ l' = 0
      BY <1>1, <1>2, Zenon
    <3> QED
      BY <2>4, <2>8, <3>1, <3>2, NextParts, Zenon DEF T
  <2> QED
    BY <2>10, <2>11, Zenon DEF Inv
<1> QED
  BY <1>8, <1>9

-----------------------------------------------------------------------------
(* The steps that copy. *)

LEMMA CopyPiece ==
    ASSUME Inv, pc \in {"string", "number"}
    PROVE  Shown /\ \E n \in 1 .. Len(pieces) : Copying(n)
<1>1. ~Behind
  BY DEF Behind
<1>2. PICK n \in 0 .. Len(pieces) : Between(n) \/ Copying(n)
  BY <1>1, Zenon DEF Inv
<1>3. Copying(n)
  BY <1>2 DEF Between
<1> QED
  BY <1>1, <1>3, Zenon DEF Inv, Copying

LEMMA CopyStringKeeps == ASSUME Inv, CopyString PROVE Inv'
<1>1. /\ pc = "string" /\ src # <<>> /\ rem > 0
      /\ Store(<<Head(src)>>) /\ src' = Tail(src)
      /\ UNCHANGED <<call, i, l, reported>> /\ p' = p /\ taken' = taken /\ pc' = pc
  BY DEF CopyString
<1>2. Shown /\ \E n \in 1 .. Len(pieces) : Copying(n)
  BY <1>1, CopyPiece
<1>3. PICK n \in 1 .. Len(pieces) : Copying(n)
  BY <1>2
<1>4. /\ p + 1 = Place(Ls, n) /\ taken = Takers(pieces, n)
      /\ src \in Seq(Chars)
      /\ written + Len(src) = Place(Ms, n)
      /\ \A x \in 1 .. Len(src) : src[x] = Expansion[written + x]
      /\ i = 0 /\ l = 0
  BY <1>1, <1>3, Zenon DEF Copying
<1>5. /\ rem \in Nat /\ o \in Nat /\ written \in Nat /\ p \in Nat /\ taken \in Nat
      /\ o = written + i /\ CallInv
  BY Bounds, Zenon
<1>6. o = written
  <2>1. i = 0 /\ o = written + i /\ written \in Nat
    BY <1>4, <1>5, Zenon
  <2> QED
    BY <2>1
<1> DEFINE c == Head(src)
           rest == Tail(src)
           text == <<c>>
<1>7. /\ c \in Chars /\ c = src[1] /\ rest \in Seq(Chars)
      /\ Len(src) \in Nat /\ Len(src) > 0 /\ Len(rest) = Len(src) - 1
      /\ \A x \in 1 .. Len(rest) : rest[x] = src[x + 1]
  <2>1. src \in Seq(Chars) /\ src # <<>>
    BY <1>1, <1>4, Zenon
  <2>2. Len(src) \in Nat /\ Len(src) > 0
    BY <2>1
  <2>3. c = src[1] /\ c \in Chars
    BY <2>1, <2>2
  <2>4. rest \in Seq(Chars) /\ Len(rest) = Len(src) - 1
    BY <2>1, <2>2
  <2>5. \A x \in 1 .. Len(rest) : rest[x] = src[x + 1]
    BY <2>1, <2>2, <2>4
  <2> QED
    BY <2>2, <2>3, <2>4, <2>5
<1>8. text \in Seq(Chars) /\ Len(text) = 1 /\ text[1] = c
  <2>1. c \in Chars
    BY <1>7, Zenon
  <2> HIDE DEF c
  <2>2. text \in Seq(Chars)
    BY <2>1, ShortTexts, Zenon
  <2> QED
    BY <2>2
<1> HIDE DEF c, rest
<1>9. Store(text) /\ src' = rest
  BY <1>1 DEF c, rest
<1> HIDE DEF text
<1>10. Stores(text)
  <2>1. pc' \in {"loop", "string"}
    BY <1>1
  <2>2. Len(text) <= rem
    <3>1. rem > 0 /\ rem \in Nat /\ Len(text) = 1
      BY <1>1, <1>5, <1>8, Zenon
    <3> QED
      BY <3>1
  <2>3. UNCHANGED <<call, i, l, reported>> /\ p' \in Nat /\ taken' \in Nat
    BY <1>1, <1>5, Zenon
  <2> QED
    BY <1>4, <1>8, <1>9, <2>1, <2>2, <2>3, Zenon DEF Stores
<1>11. /\ CallInv' /\ TypeOK' /\ CountersAgree' /\ StaysInside' /\ Ended'
       /\ written' = written + Len(text)
  BY <1>10, Stored, Zenon
<1>12. \A x \in 1 .. Len(text) : text[x] = Expansion[o + x]
  <2>1. 1 \in 1 .. Len(src) /\ \A x \in 1 .. Len(text) : x = 1
    <3>1. Len(src) \in Nat /\ Len(src) > 0 /\ Len(text) = 1
      BY <1>7, <1>8, Zenon
    <3> QED
      BY <3>1
  <2> QED
    BY <1>4, <1>6, <1>7, <1>8, <2>1, Zenon
<1>13. Shown'
  BY <1>2, <1>10, <1>12, StoredShown, Zenon
<1>14. written' + Len(src') = Place(Ms, n)
  <2>1. /\ written' = written + 1 /\ Len(src') = Len(src) - 1
        /\ written \in Nat /\ Len(src) \in Nat /\ written + Len(src) = Place(Ms, n)
    BY <1>4, <1>5, <1>7, <1>8, <1>9, <1>11, Zenon
  <2> QED
    BY <2>1
<1>15. ASSUME NEW x \in 1 .. Len(src') PROVE src'[x] = Expansion[written' + x]
  <2>0. written' = written + 1 /\ Len(src') = Len(src) - 1 /\ Len(src') = Len(rest)
    BY <1>7, <1>8, <1>9, <1>11, Zenon
  <2>1. x + 1 \in 1 .. Len(src) /\ written' + x = written + (x + 1)
    <3>1. written \in Nat /\ Len(src) \in Nat
      BY <1>5, <1>7, Zenon
    <3> QED
      BY <2>0, <3>1
  <2>2. src'[x] = rest[x] /\ rest[x] = src[x + 1]
    BY <1>7, <1>9, <2>0, Zenon
  <2>3. src[x + 1] = Expansion[written + (x + 1)]
    BY <1>4, <2>1, Zenon
  <2> QED
    BY <2>1, <2>2, <2>3, Zenon
<1>16. Copying(n)'
  <2>1. pc' \in {"string", "number"} /\ pc' # "number"
    BY <1>1
  <2>2. UNCHANGED call /\ p' + 1 = Place(Ls, n) /\ taken' = Takers(pieces, n) /\ i' = 0 /\ l' = 0
    BY <1>1, <1>4, Zenon
  <2>3. src' \in Seq(Chars)
    BY <1>7, <1>9, Zenon
  <2> QED
    BY <1>3, <1>14, <1>15, <2>1, <2>2, <2>3, NextParts, Zenon
<1>17. n \in 0 .. Len(pieces)
  <2>1. Len(pieces) \in Nat
    BY <1>5, PieceFacts, Zenon
  <2> QED
    BY <2>1
<1> QED
  BY <1>1, <1>11, <1>13, <1>16, <1>17, InvThen, Zenon

LEMMA EndStringKeeps == ASSUME Inv, EndString PROVE Inv'
<1>1. /\ pc = "string" /\ (src = <<>> \/ rem = 0)
      /\ src' = <<>> /\ p' = p + 1 /\ pc' = "loop"
      /\ UNCHANGED <<call, out, o, rem, written, reported>>
      /\ taken' = taken /\ i' = i /\ l' = l
  BY DEF EndString
<1>2. Shown /\ \E n \in 1 .. Len(pieces) : Copying(n)
  BY <1>1, CopyPiece
<1>3. PICK n \in 1 .. Len(pieces) : Copying(n)
  BY <1>2
<1>4. /\ p + 1 = Place(Ls, n) /\ taken = Takers(pieces, n)
      /\ src \in Seq(Chars)
      /\ written + Len(src) = Place(Ms, n)
      /\ i = 0 /\ l = 0
  BY <1>1, <1>3, Zenon DEF Copying
<1>5. /\ rem \in Nat /\ o \in Nat /\ written \in Nat /\ p \in Nat /\ taken \in Nat
      /\ o = written + i /\ CallInv
  BY Bounds, Zenon
<1>6. o <= Place(Ms, n) /\ (rem > 0 => o = Place(Ms, n))
  <2>1. Len(src) \in Nat /\ (src = <<>> => Len(src) = 0)
    BY <1>4
  <2>2. i = 0 /\ o = written + i /\ written \in Nat /\ rem \in Nat /\ written + Len(src) = Place(Ms, n)
    BY <1>4, <1>5, Zenon
  <2>3. Len(src) = 0 \/ rem = 0
    BY <1>1, <2>1, Zenon
  <2> QED
    BY <2>1, <2>2, <2>3
<1>7. n \in 0 .. Len(pieces)
  <2>1. Len(pieces) \in Nat
    BY <1>5, PieceFacts, Zenon
  <2> QED
    BY <2>1
<1>8. Between(n)'
  <2>1. pc' \in {"loop", "break", "done"} /\ pc' # "break" /\ pc' # "done"
    BY <1>1
  <2>2. UNCHANGED call /\ o' = o /\ rem' = rem /\ src' = <<>> /\ i' = 0 /\ l' = 0
        /\ p' = Place(Ls, n) /\ taken' = Takers(pieces, n)
    BY <1>1, <1>4, Zenon
  <2> QED
    BY <1>6, <1>7, <2>1, <2>2, NextParts, Zenon
<1>9. Quiet
  <2>1. p' = p + 1 /\ l' = 0
    BY <1>1, <1>4, Zenon
  <2>2. p' \in Nat /\ l' \in 0 .. rem
    BY <1>5, <2>1
  <2>3. pc' \in {"loop", "string", "number", "break"} /\ taken' \in Nat
    BY <1>1, <1>5
  <2> QED
    BY <1>1, <1>4, <2>2, <2>3, Zenon DEF Quiet
<1> QED
  BY <1>2, <1>7, <1>8, <1>9, QuietKeeps, InvThen, Zenon

\* A digit; the message of a pointer out of bounds is never logged.
LEMMA CopyDigitKeeps == ASSUME Inv, CopyDigit PROVE Inv'
<1>1. /\ pc = "number" /\ i < l
      /\ IF o >= out_sz
         THEN /\ reported' = TRUE
              /\ i' = l
              /\ UNCHANGED <<out, o>>
         ELSE /\ out' = [out EXCEPT ![o] = src[i + 1]]
              /\ o' = o + 1
              /\ i' = i + 1
              /\ UNCHANGED reported
      /\ UNCHANGED <<call, rem, written>> /\ p' = p /\ taken' = taken /\ src' = src
      /\ l' = l /\ pc' = pc
  BY Zenon DEF CopyDigit
<1>2. Shown /\ \E n \in 1 .. Len(pieces) : Copying(n)
  BY <1>1, CopyPiece
<1>3. PICK n \in 1 .. Len(pieces) : Copying(n)
  BY <1>2
<1>4. /\ p + 1 = Place(Ls, n) /\ taken = Takers(pieces, n)
      /\ src \in Seq(Chars)
      /\ written + Len(src) = Place(Ms, n)
      /\ \A x \in 1 .. Len(src) : src[x] = Expansion[written + x]
      /\ l <= Len(src) /\ (l < Len(src) => l = rem)
  BY <1>1, <1>3, Zenon DEF Copying
<1>5. /\ CallInv /\ TypeOK /\ CountersAgree /\ StaysInside
      /\ out_sz \in Nat /\ o \in Nat /\ rem \in Nat /\ written \in Nat
      /\ i \in Nat /\ l \in Nat /\ p \in Nat /\ taken \in Nat
      /\ i <= l /\ l <= rem /\ o = written + i
      /\ out_sz > 0 => written + rem = out_sz - 1
      /\ out_sz = 0 => written = 0 /\ rem = 0
      /\ ~reported
  BY Bounds, Zenon
<1>6. o + 1 < out_sz /\ i + 1 <= l /\ o + 1 = written + (i + 1)
  <2>1. i < l
    BY <1>1, Zenon
  <2>2. /\ out_sz \in Nat /\ o \in Nat /\ rem \in Nat /\ written \in Nat /\ i \in Nat /\ l \in Nat
        /\ l <= rem /\ o = written + i
        /\ out_sz > 0 => written + rem = out_sz - 1
        /\ out_sz = 0 => written = 0 /\ rem = 0
    BY <1>5, Zenon
  <2> QED
    BY <2>1, <2>2
<1>7. out' = [out EXCEPT ![o] = src[i + 1]] /\ o' = o + 1 /\ i' = i + 1 /\ reported' = reported
  <2>1. ~(o >= out_sz)
    BY <1>5, <1>6
  <2> QED
    BY <1>1, <2>1, Zenon
<1>8. src[i + 1] \in Chars /\ src[i + 1] = Expansion[o + 1] /\ i + 1 \in 1 .. Len(src)
  <2>1. src \in Seq(Chars)
    BY <1>4, Zenon
  <2>2. Len(src) \in Nat
    BY <2>1
  <2>3. l <= Len(src) /\ i \in Nat /\ l \in Nat
    BY <1>4, <1>5, Zenon
  <2>4. i + 1 \in 1 .. Len(src)
    BY <1>6, <2>2, <2>3
  <2>5. src[i + 1] \in Chars
    BY <2>1, <2>4
  <2>6. src[i + 1] = Expansion[written + (i + 1)]
    BY <1>4, <2>4, Zenon
  <2>7. src[i + 1] = Expansion[o + 1]
    BY <1>6, <2>6
  <2> QED
    BY <2>4, <2>5, <2>7, Zenon
<1>9. out \in [0 .. out_sz -> Chars \cup {Unset}] /\ out[out_sz] = Unset
  BY <1>5 DEF TypeOK, StaysInside
<1>10. /\ out' \in [0 .. out_sz -> Chars \cup {Unset}] /\ out'[out_sz] = Unset
       /\ \A j \in 0 .. o - 1 : out'[j] = out[j]
       /\ out'[o] = src[i + 1]
  <2> DEFINE c == src[i + 1]
  <2>1. c \in Chars /\ out' = [out EXCEPT ![o] = c]
    BY <1>7, <1>8
  <2> HIDE DEF c
  <2>2. o \in 0 .. out_sz /\ out_sz \in 0 .. out_sz /\ o # out_sz
        /\ \A j \in 0 .. o - 1 : j \in 0 .. out_sz /\ j # o
    BY <1>5, <1>6
  <2>3. /\ out' \in [0 .. out_sz -> Chars \cup {Unset}] /\ out'[out_sz] = Unset
        /\ \A j \in 0 .. o - 1 : out'[j] = out[j]
        /\ out'[o] = c
    BY <1>9, <2>1, <2>2
  <2> QED
    BY <2>3 DEF c
<1>11. CallInv' /\ out_sz' = out_sz
  BY <1>1, <1>5, SameCall, Zenon
<1>12. /\ o' \in 0 .. out_sz /\ rem' = rem /\ written' = written /\ l' \in 0 .. rem /\ i' \in 0 .. l'
  <2>1. rem' = rem /\ written' = written /\ l' = l
    BY <1>1, Zenon
  <2>2. out_sz \in Nat /\ o \in Nat /\ rem \in Nat /\ i \in Nat /\ l \in Nat /\ l <= rem
    BY <1>5, Zenon
  <2> QED
    BY <1>6, <1>7, <2>1, <2>2
<1>13. TypeOK'
  <2>1. rem' \in 0 .. out_sz /\ written' \in 0 .. out_sz /\ pc' \in {"loop", "string", "number", "break", "done"}
        /\ reported' \in BOOLEAN /\ p' \in Nat /\ taken' \in Nat
    BY <1>1, <1>5, <1>7, Zenon DEF TypeOK
  <2> QED
    BY <1>10, <1>11, <1>12, <2>1, Zenon DEF TypeOK
<1>14. CountersAgree'
  <2>1. o' = written' + i' /\ rem' = (IF out_sz > 0 THEN out_sz - 1 ELSE 0) - written'
    BY <1>5, <1>6, <1>7, <1>12, Zenon DEF CountersAgree
  <2> QED
    BY <1>5, <1>7, <1>11, <2>1, Zenon DEF CountersAgree
<1>15. StaysInside' /\ Ended'
  <2>1. pc' # "done"
    BY <1>1
  <2> QED
    BY <1>10, <1>11, <2>1, Zenon DEF StaysInside, Ended
<1>16. Shown'
  <2>1. ASSUME NEW j \in 0 .. o' - 1 PROVE out'[j] = Expansion[j + 1]
    <3>1. j \in 0 .. o - 1 \/ j = o
      BY <1>5, <1>7
    <3>2. CASE j \in 0 .. o - 1
      BY <1>2, <1>10, <3>2, Zenon DEF Shown
    <3>3. CASE j = o
      BY <1>8, <1>10, <3>3, Zenon
    <3> QED
      BY <3>1, <3>2, <3>3
  <2> QED
    BY <1>1, <2>1, NextParts, Zenon
<1>17. Copying(n)'
  <2>1. pc' \in {"string", "number"} /\ pc' # "string"
    BY <1>1
  <2>2. /\ UNCHANGED call /\ p' = p /\ taken' = taken /\ src' = src /\ l' = l
        /\ rem' = rem /\ written' = written
    BY <1>1, Zenon
  <2> QED
    BY <1>3, <1>4, <2>1, <2>2, NextParts, Zenon
<1>18. n \in 0 .. Len(pieces)
  <2>1. Len(pieces) \in Nat
    BY <1>5, PieceFacts, Zenon
  <2> QED
    BY <2>1
<1>19. UNCHANGED call
  BY <1>1, Zenon
<1> QED
  BY <1>11, <1>13, <1>14, <1>15, <1>16, <1>17, <1>18, <1>19, InvThen, Zenon

LEMMA EndNumberKeeps == ASSUME Inv, EndNumber PROVE Inv'
<1>1. /\ pc = "number" /\ i = l
      /\ rem' = rem - l /\ written' = written + l
      /\ src' = <<>> /\ i' = 0 /\ l' = 0
      /\ p' = p + 1 /\ pc' = "loop"
      /\ UNCHANGED <<call, out, o, reported>> /\ taken' = taken
  BY DEF EndNumber
<1>2. Shown /\ \E n \in 1 .. Len(pieces) : Copying(n)
  BY <1>1, CopyPiece
<1>3. PICK n \in 1 .. Len(pieces) : Copying(n)
  BY <1>2
<1>4. /\ p + 1 = Place(Ls, n) /\ taken = Takers(pieces, n)
      /\ src \in Seq(Chars)
      /\ written + Len(src) = Place(Ms, n)
      /\ l <= Len(src) /\ (l < Len(src) => l = rem)
  BY <1>1, <1>3, Zenon DEF Copying
<1>5. /\ CallInv /\ TypeOK /\ StaysInside
      /\ out_sz \in Nat /\ o \in Nat /\ rem \in Nat /\ written \in Nat
      /\ i \in Nat /\ l \in Nat /\ p \in Nat /\ taken \in Nat
      /\ l <= rem /\ o = written + i
      /\ out_sz > 0 => written + rem = out_sz - 1
      /\ out_sz = 0 => written = 0 /\ rem = 0
      /\ ~reported
  BY Bounds, Zenon
<1>6. Len(src) \in Nat
  BY <1>4
<1>7. /\ o = written + l /\ rem' = rem - l /\ written' = written + l /\ o' = o
      /\ out_sz \in Nat /\ o \in Nat /\ rem \in Nat /\ written \in Nat /\ l \in Nat
      /\ l <= rem /\ l <= Len(src) /\ (l < Len(src) => l = rem)
      /\ written + Len(src) = Place(Ms, n)
      /\ out_sz > 0 => written + rem = out_sz - 1
      /\ out_sz = 0 => written = 0 /\ rem = 0
  BY <1>1, <1>4, <1>5, Zenon
<1>8. o' <= Place(Ms, n) /\ (rem' > 0 => o' = Place(Ms, n))
  BY <1>6, <1>7
<1>9. /\ rem' \in Nat /\ written' \in Nat /\ o' = written'
      /\ rem' \in 0 .. out_sz /\ written' \in 0 .. out_sz
      /\ 0 \in 0 .. rem' /\ 0 \in 0 .. 0
      /\ rem' = (IF out_sz > 0 THEN out_sz - 1 ELSE 0) - written'
  BY <1>7
<1>10. p' \in Nat
  <2>1. p' = p + 1 /\ p \in Nat
    BY <1>1, <1>5, Zenon
  <2> QED
    BY <2>1
<1>11. CallInv' /\ out_sz' = out_sz
  BY <1>1, <1>5, SameCall, Zenon
<1>12. pc' = "loop" /\ pc' # "break" /\ pc' # "done" /\ pc' \in {"loop", "string", "number", "break", "done"}
       /\ pc' \in {"loop", "break", "done"}
  BY <1>1
<1>13. TypeOK'
  <2>1. /\ out' \in [0 .. out_sz -> Chars \cup {Unset}] /\ o' \in 0 .. out_sz
        /\ reported' \in BOOLEAN /\ taken' \in Nat
    BY <1>1, <1>5, Zenon DEF TypeOK
  <2>2. l' = 0 /\ i' = 0
    BY <1>1
  <2> QED
    BY <1>9, <1>10, <1>11, <1>12, <2>1, <2>2, Zenon DEF TypeOK
<1>14. CountersAgree'
  <2>1. o' = written' + i'
    <3>1. i' = 0 /\ o' = written' /\ written' \in Nat
      BY <1>1, <1>9, Zenon
    <3>2. \A x \in Nat : x = x + 0
      OBVIOUS
    <3> QED
      BY <3>1, <3>2, Zenon
  <2>2. ~reported'
    BY <1>1, <1>5, Zenon
  <2> QED
    BY <1>9, <1>11, <2>1, <2>2, Zenon DEF CountersAgree
<1>15. StaysInside' /\ Ended'
  BY <1>1, <1>5, <1>11, <1>12, Zenon DEF StaysInside, Ended
<1>16. UNCHANGED call /\ out' = out
  BY <1>1, Zenon
<1>17. Shown'
  BY <1>2, <1>7, <1>16, NextParts, Zenon DEF Shown
<1>18. n \in 0 .. Len(pieces)
  <2>1. Len(pieces) \in Nat
    BY <1>5, PieceFacts, Zenon
  <2> QED
    BY <2>1
<1>19. Between(n)'
  <2>1. p' = Place(Ls, n) /\ taken' = Takers(pieces, n) /\ src' = <<>> /\ i' = 0 /\ l' = 0
    BY <1>1, <1>4, Zenon
  <2> QED
    BY <1>8, <1>12, <1>16, <1>18, <2>1, NextParts, Zenon
<1> QED
  BY <1>11, <1>13, <1>14, <1>15, <1>16, <1>17, <1>18, <1>19, InvThen, Zenon

-----------------------------------------------------------------------------
(* The end, the beginning, and the whole call. *)

LEMMA TerminateKeeps == ASSUME Inv, Terminate PROVE Inv'
<1>1. /\ pc = "break" \/ (pc = "loop" /\ ~InLoop)
      /\ out' = IF out_sz = 0 THEN out
                ELSE [out EXCEPT ![IF written < out_sz THEN o ELSE out_sz - 1] = ""]
      /\ pc' = "done"
      /\ UNCHANGED call /\ o' = o /\ p' = p /\ rem' = rem /\ written' = written
      /\ taken' = taken /\ src' = src /\ i' = i /\ l' = l /\ reported' = reported
  BY Zenon DEF Terminate, copying
<1>2. /\ CallInv /\ TypeOK /\ CountersAgree /\ StaysInside
      /\ out_sz \in Nat /\ o \in Nat /\ rem \in Nat /\ written \in Nat
      /\ i \in Nat /\ o = written + i
      /\ out_sz > 0 => written + rem = out_sz - 1
  BY Bounds, Zenon
<1>3. Resting
  <2>1. pc # "string" /\ pc # "number"
    BY <1>1
  <2> QED
    BY <2>1 DEF Inv, Behind, Between, Copying
<1>4. out_sz # 0 => written < out_sz /\ o < out_sz
  <2>1. i = 0
    BY <1>3, Zenon DEF Resting
  <2>2. /\ out_sz \in Nat /\ o \in Nat /\ rem \in Nat /\ written \in Nat
        /\ i \in Nat /\ o = written + i
        /\ out_sz > 0 => written + rem = out_sz - 1
    BY <1>2, Zenon
  <2> QED
    BY <2>1, <2>2
<1>5. out \in [0 .. out_sz -> Chars \cup {Unset}] /\ out[out_sz] = Unset
  BY <1>2 DEF TypeOK, StaysInside
<1>6. /\ out' \in [0 .. out_sz -> Chars \cup {Unset}] /\ out'[out_sz] = Unset
      /\ \A j \in 0 .. o - 1 : out'[j] = out[j]
      /\ out_sz > 0 => out'[o] = ""
  <2>1. CASE out_sz = 0
    <3>1. out' = out
      BY <1>1, <2>1, Zenon
    <3>2. ~(out_sz > 0)
      BY <2>1
    <3> QED
      BY <1>5, <3>1, <3>2, Zenon
  <2>2. CASE out_sz # 0
    <3>1. out' = [out EXCEPT ![o] = ""]
      BY <1>1, <1>4, <2>2, Zenon
    <3>2. o \in 0 .. out_sz /\ out_sz \in 0 .. out_sz /\ o # out_sz
          /\ \A j \in 0 .. o - 1 : j \in 0 .. out_sz /\ j # o
      <4>1. o < out_sz /\ o \in Nat /\ out_sz \in Nat
        BY <1>2, <1>4, <2>2, Zenon
      <4> QED
        BY <4>1
    <3>3. PICK c : c \in Chars /\ c = ""
      BY LettersAreChars, Zenon
    <3>4. out' = [out EXCEPT ![o] = c]
      BY <3>1, <3>3, Zenon
    <3>5. c \in Chars
      BY <3>3, Zenon
    <3>6. /\ out' \in [0 .. out_sz -> Chars \cup {Unset}] /\ out'[out_sz] = Unset
          /\ \A j \in 0 .. o - 1 : out'[j] = out[j]
          /\ out'[o] = c
      BY <1>5, <3>2, <3>4, <3>5
    <3> QED
      BY <3>3, <3>6, Zenon
  <2> QED
    BY <2>1, <2>2
<1>7. CallInv' /\ out_sz' = out_sz
  BY <1>1, <1>2, SameCall, Zenon
<1>8. pc' \in {"loop", "string", "number", "break", "done"} /\ pc' \in {"loop", "break", "done"}
      /\ pc' \in {"loop", "done"} /\ pc' # "break"
  BY <1>1
<1>9. TypeOK'
  BY <1>1, <1>2, <1>6, <1>7, <1>8, Zenon DEF TypeOK
<1>10. CountersAgree'
  BY <1>1, <1>2, <1>7, Zenon DEF CountersAgree
<1>11. StaysInside' /\ Ended'
  BY <1>1, <1>6, <1>7, Zenon DEF StaysInside, Ended
<1>12. src = <<>> /\ i = 0 /\ l = 0
  BY <1>3, Zenon DEF Resting
<1>13. CASE Behind
  <2>1. TrailingL(pieces) /\ p \in Len(FormatText(pieces)) + 1 .. Len(fmt) - 1
    BY <1>13, Zenon DEF Behind
  <2>2. Behind'
    BY <1>1, <1>8, <1>12, <2>1, NextParts, Zenon
  <2> QED
    BY <1>7, <1>9, <1>10, <1>11, <2>2, Zenon DEF Inv
<1>14. CASE ~Behind
  <2>1. Shown
    BY <1>14, Zenon DEF Inv
  <2>2. Shown'
    BY <1>1, <1>6, <2>1, NextParts, Zenon DEF Shown
  <2>3. \E n \in 0 .. Len(pieces) : Between(n) /\ (n = Len(pieces) \/ rem = 0)
    <3>1. CASE pc = "break"
      <4>1. PICK n \in 0 .. Len(pieces) : Between(n) \/ Copying(n)
        BY <1>14, Zenon DEF Inv
      <4>2. Between(n)
        BY <3>1, <4>1 DEF Copying
      <4>3. n = Len(pieces)
        BY <3>1, <4>2, Zenon DEF Between
      <4> QED
        BY <4>2, <4>3
    <3>2. CASE pc = "loop" /\ ~InLoop
      <4>1. PICK n \in 0 .. Len(pieces) : Between(n) /\ (fmt[p + 1] = "" <=> n = Len(pieces))
        BY <1>14, <3>2, LoopPiece, Zenon
      <4>2. fmt[p + 1] = "" \/ ~(rem > 0)
        BY <3>2, Zenon DEF InLoop
      <4>3. ~(rem > 0) => rem = 0
        <5>1. rem \in Nat
          BY <1>2, Zenon
        <5> QED
          BY <5>1
      <4> QED
        BY <4>1, <4>2, <4>3, Zenon
    <3> QED
      BY <1>1, <3>1, <3>2
  <2>4. PICK n \in 0 .. Len(pieces) : Between(n) /\ (n = Len(pieces) \/ rem = 0)
    BY <2>3
  <2>5. /\ p = Place(Ls, n) /\ taken = Takers(pieces, n)
        /\ o <= Place(Ms, n) /\ (rem > 0 => o = Place(Ms, n))
    BY <2>4, Zenon DEF Between
  <2>6. Between(n)'
    BY <1>1, <1>8, <1>12, <2>4, <2>5, NextParts, Zenon
  <2> QED
    BY <1>1, <1>7, <1>9, <1>10, <1>11, <2>2, <2>6, InvThen, Zenon
<1> QED
  BY <1>13, <1>14

LEMMA InitInv == Init => Inv
<1> SUFFICES ASSUME Init PROVE Inv
  OBVIOUS
<1>1. /\ pieces \in Formats /\ args \in Arguments /\ out_sz \in Sizes
      /\ fmt = FormatText(pieces) \o <<"">> \o Beyond \o <<"">>
      /\ out = [k \in 0 .. out_sz |-> Unset]
      /\ o = 0 /\ p = 0
      /\ rem = (IF out_sz > 0 THEN out_sz - 1 ELSE 0) /\ written = 0
      /\ taken = 0 /\ src = <<>> /\ i = 0 /\ l = 0
      /\ reported = FALSE /\ pc = "loop"
  BY DEF Init
<1>2. CallInv
  BY <1>1, Zenon DEF CallInv
<1>15. o = 0 /\ written = 0 /\ i = 0
  BY <1>1, Zenon
<1>3. out_sz \in Nat
  BY <1>1, SizesAssumption
<1>4. rem \in Nat /\ rem \in 0 .. out_sz /\ 0 \in 0 .. out_sz /\ 0 \in 0 .. rem /\ 0 \in 0 .. 0 /\ 0 \in Nat
      /\ rem = (IF out_sz > 0 THEN out_sz - 1 ELSE 0) - 0
  <2>1. rem = (IF out_sz > 0 THEN out_sz - 1 ELSE 0)
    BY <1>1, Zenon
  <2> QED
    BY <1>3, <2>1
<1>5. out \in [0 .. out_sz -> Chars \cup {Unset}] /\ out[out_sz] = Unset
  <2>1. out_sz \in 0 .. out_sz
    BY <1>3
  <2>2. out = [k \in 0 .. out_sz |-> Unset]
    BY <1>1, Zenon
  <2> QED
    BY <2>1, <2>2
<1>6. pc \in {"loop", "string", "number", "break", "done"} /\ pc \in {"loop", "break", "done"}
      /\ pc # "break" /\ pc # "done" /\ reported \in BOOLEAN
  BY <1>1
<1>7. TypeOK
  BY <1>1, <1>4, <1>5, <1>6, Zenon DEF TypeOK
<1>8. CountersAgree
  <2>1. o = written + i
    BY <1>15
  <2>2. rem = (IF out_sz > 0 THEN out_sz - 1 ELSE 0) - written
    BY <1>1, <1>4, Zenon
  <2> QED
    BY <1>1, <2>1, <2>2 DEF CountersAgree
<1>9. StaysInside /\ Ended
  BY <1>5, <1>6, Zenon DEF StaysInside, Ended
<1>10. Shown
  <2>1. \A j \in 0 .. o - 1 : FALSE
    BY <1>15
  <2> QED
    BY <2>1, Zenon DEF Shown
<1>11. Place(Ls, 0) = 0 /\ Place(Ms, 0) = 0
  <2>1. Ls \in Seq(Seq(Chars)) /\ Ms \in Seq(Seq(Chars))
    BY <1>2, LetterSeqsFacts, MeaningSeqsFacts, Zenon DEF Ls
  <2>2. UpTo(Ls, 0) = <<>> /\ UpTo(Ms, 0) = <<>>
    BY <2>1, UpToStep, Zenon
  <2> QED
    BY <2>2 DEF Place
<1>12. Takers(pieces, 0) = 0
  BY TakersFacts, Zenon
<1>13. 0 \in 0 .. Len(pieces)
  <2>1. Len(pieces) \in Nat
    BY <1>2, PieceFacts, Zenon
  <2> QED
    BY <2>1
<1>14. Between(0)
  <2>1. o <= Place(Ms, 0) /\ o = Place(Ms, 0)
    BY <1>11, <1>15
  <2> QED
    BY <1>1, <1>6, <1>11, <1>12, <1>13, <2>1, Zenon DEF Between, Resting
<1> QED
  BY <1>2, <1>7, <1>8, <1>9, <1>10, <1>13, <1>14, Zenon DEF Inv

LEMMA InvKept == Inv /\ [Next]_vars => Inv'
<1> SUFFICES ASSUME Inv, [Next]_vars PROVE Inv'
  OBVIOUS
<1>1. CASE Plain
  BY <1>1, PlainKeeps
<1>2. CASE PercentEnd
  BY <1>2, PercentEndKeeps
<1>3. CASE ConvString
  BY <1>3, ConvStringKeeps
<1>4. CASE CopyString
  BY <1>4, CopyStringKeeps
<1>5. CASE EndString
  BY <1>5, EndStringKeeps
<1>6. CASE ConvNumber
  BY <1>6, ConvNumberKeeps
<1>7. CASE CopyDigit
  BY <1>7, CopyDigitKeeps
<1>8. CASE EndNumber
  BY <1>8, EndNumberKeeps
<1>9. CASE ConvChar
  BY <1>9, ConvCharKeeps
<1>10. CASE ConvPercent
  BY <1>10, ConvPercentKeeps
<1>11. CASE ConvOther
  BY <1>11, ConvOtherKeeps
<1>12. CASE Terminate
  BY <1>12, TerminateKeeps
<1>13. CASE UNCHANGED vars
  <2>1. /\ UNCHANGED call /\ out' = out /\ o' = o /\ p' = p /\ rem' = rem /\ written' = written
        /\ taken' = taken /\ src' = src /\ i' = i /\ l' = l /\ reported' = reported /\ pc' = pc
    BY <1>13 DEF vars, copying
  <2>2. CallInv /\ TypeOK /\ CountersAgree /\ StaysInside /\ Ended
    BY Zenon DEF Inv
  <2>3. CallInv' /\ out_sz' = out_sz
    BY <2>1, <2>2, SameCall, Zenon
  <2>4. TypeOK' /\ CountersAgree' /\ StaysInside' /\ Ended'
    BY <2>1, <2>2, <2>3, Zenon DEF TypeOK, CountersAgree, StaysInside, Ended
  <2>5. CASE Behind
    <3>1. Behind'
      BY <2>1, <2>5, NextParts, Zenon DEF Behind, Resting
    <3> QED
      BY <2>3, <2>4, <3>1, Zenon DEF Inv
  <2>6. CASE ~Behind
    <3>1. Shown'
      <4>1. Shown
        BY <2>6, Zenon DEF Inv
      <4> QED
        BY <2>1, <4>1, NextParts, Zenon DEF Shown
    <3>2. PICK n \in 0 .. Len(pieces) : Between(n) \/ Copying(n)
      BY <2>6, Zenon DEF Inv
    <3>3. Between(n) => Between(n)'
      BY <2>1, NextParts, Zenon DEF Between, Resting
    <3>4. Copying(n) => Copying(n)'
      BY <2>1, NextParts, Zenon DEF Copying
    <3> QED
      BY <2>1, <2>3, <2>4, <3>1, <3>2, <3>3, <3>4, InvThen, Zenon
  <2> QED
    BY <2>5, <2>6
<1>14. CASE Returned
  BY <1>13, <1>14 DEF Returned
<1> QED
  BY <1>1, <1>2, <1>3, <1>4, <1>5, <1>6, <1>7, <1>8, <1>9, <1>10, <1>11, <1>12, <1>13, <1>14
     DEF Next

\* The invariant holds of every call.
THEOREM VsnprintkInvariant == Spec => []Inv
<1>1. Inv /\ [Next]_vars => Inv'
  BY InvKept
<1> QED
  BY <1>1, InitInv, PTL DEF Spec

\* Every variable keeps its type, for every format, buffer and argument: the counters and
\* the pointer never leave 0 .. out_sz.
THEOREM Typed == Spec => []TypeOK
<1>1. Inv => TypeOK
  BY DEF Inv
<1> QED
  BY <1>1, VsnprintkInvariant, PTL

\* The pointer and the two counters agree, and "o pointer out of bounds!" is never logged
\* (vsnprintk.c:30-31, 87-101, 232-237).
THEOREM CountersAlwaysAgree == Spec => []CountersAgree
<1>1. Inv => CountersAgree
  BY DEF Inv
<1> QED
  BY <1>1, VsnprintkInvariant, PTL

\* No character is stored behind the buffer, a buffer of none included
\* (vsnprintk.c:93-98, 232-237).
THEOREM NothingOutside == Spec => []StaysInside
<1>1. Inv => StaysInside
  BY DEF Inv
<1> QED
  BY <1>1, VsnprintkInvariant, PTL

\* No more of the format is read than there is, unless it ends in %l
\* (vsnprintk.c:43-50, 214-229).
THEOREM FormatOnly == Spec => []ReadsOnlyFormat
<1>1. ASSUME Inv PROVE ReadsOnlyFormat
  <2>1. CASE Behind
    BY <2>1, Zenon DEF Behind, ReadsOnlyFormat
  <2>2. CASE ~Behind
    <3> DEFINE T == Len(FormatText(pieces))
    <3>1. CallInv /\ p \in Nat
      BY <1>1, Bounds, Zenon
    <3>2. PICK n \in 0 .. Len(pieces) : Between(n) \/ Copying(n)
      BY <1>1, <2>2, Zenon DEF Inv
    <3>3. p = Place(Ls, n) \/ p + 1 = Place(Ls, n)
      BY <3>2, Zenon DEF Between, Copying
    <3>4. Ls \in Seq(Seq(Chars)) /\ Len(Ls) = Len(pieces) /\ FormatText(pieces) = Join(Ls)
      BY <3>1, LetterSeqsFacts, Zenon DEF Ls
    <3>5. Len(pieces) \in Nat /\ T \in Nat
      BY <3>1, PieceFacts, MemoryFacts, Zenon
    <3>6. Place(Ls, n) <= T
      <4>1. CASE n = 0
        <5>1. UpTo(Ls, 0) = <<>>
          BY <3>4, UpToStep, Zenon
        <5>2. Place(Ls, n) = 0
          BY <4>1, <5>1 DEF Place
        <5> HIDE DEF T
        <5> QED
          BY <3>5, <5>2
      <4>2. CASE n # 0
        <5>1. n \in 1 .. Len(Ls)
          BY <3>4, <3>5, <4>2
        <5> QED
          BY <3>4, <5>1, Places, Zenon
      <4> QED
        BY <4>1, <4>2
    <3>7. Place(Ls, n) \in Int
      BY <3>1, <3>3
    <3> HIDE DEF T
    <3>8. ~(p > T)
      BY <3>1, <3>3, <3>5, <3>6
    <3> QED
      BY <3>8, Zenon DEF ReadsOnlyFormat, T
  <2> QED
    BY <2>1, <2>2
<1> QED
  BY <1>1, VsnprintkInvariant, PTL

\* When the call returns, the buffer holds the text the format stands for, cut to the
\* buffer, and the terminator; its length is what is returned (vsnprintk.c:35-41, 232-240).
THEOREM ExpansionShown == Spec => []ShowsExpansion
<1>1. ASSUME Inv PROVE ShowsExpansion
  <2> DEFINE E == Len(Expansion)
             shown == IF E < out_sz THEN E ELSE out_sz - 1
  <2> SUFFICES ASSUME pc = "done", out_sz > 0, ~TrailingL(pieces)
               PROVE  /\ written = shown
                      /\ \A k \in 0 .. shown - 1 : out[k] = Expansion[k + 1]
                      /\ out[shown] = ""
    BY Zenon DEF ShowsExpansion
  <2>1. ~Behind
    BY Zenon DEF Behind
  <2>2. Shown /\ Ended /\ \E n \in 0 .. Len(pieces) : Between(n) \/ Copying(n)
    BY <1>1, <2>1, Zenon DEF Inv
  <2>3. PICK n \in 0 .. Len(pieces) : Between(n) \/ Copying(n)
    BY <2>2
  <2>4. Between(n)
    BY <2>3 DEF Copying
  <2>5. /\ o <= Place(Ms, n) /\ (rem > 0 => o = Place(Ms, n)) /\ (n = Len(pieces) \/ rem = 0)
        /\ i = 0
    BY <2>4, Zenon DEF Between, Resting
  <2>6. /\ CallInv /\ out_sz \in Nat /\ o \in Nat /\ rem \in Nat /\ written \in Nat /\ i \in Nat
        /\ o = written + i /\ (out_sz > 0 => written + rem = out_sz - 1)
    BY <1>1, Bounds, Zenon
  <2>7. /\ Ms \in Seq(Seq(Chars)) /\ Len(Ms) = Len(pieces) /\ Expansion = Join(Ms)
        /\ E = Place(Ms, Len(pieces)) /\ E \in Nat
    BY <2>6, MeaningSeqsFacts, Zenon
  <2>8. Len(pieces) \in Nat
    BY <2>6, PieceFacts, Zenon
  <2>9. Place(Ms, n) <= E /\ Place(Ms, n) \in Nat
    <3>1. CASE n = 0
      <4>1. UpTo(Ms, 0) = <<>>
        BY <2>7, UpToStep, Zenon
      <4>2. Place(Ms, n) = 0
        BY <3>1, <4>1 DEF Place
      <4>3. E \in Nat
        BY <2>7, Zenon
      <4> HIDE DEF E
      <4> QED
        BY <4>2, <4>3
    <3>2. CASE n # 0
      <4>1. n \in 1 .. Len(Ms)
        BY <2>7, <2>8, <3>2
      <4>2. Place(Ms, n) <= E
        BY <2>7, <4>1, Places, Zenon
      <4>3. n \in 0 .. Len(Ms)
        BY <2>7, <2>8
      <4>4. UpTo(Ms, n) \in Seq(Chars)
        BY <2>7, <4>3, UpToStep, Zenon
      <4>5. Place(Ms, n) \in Nat
        BY <4>4 DEF Place
      <4> QED
        BY <4>2, <4>5
    <3> QED
      BY <3>1, <3>2
  <2>10. n = Len(pieces) => Place(Ms, n) = E
    BY <2>7, Zenon
  <2> HIDE DEF E
  <2>11. /\ out_sz \in Nat /\ o \in Nat /\ rem \in Nat /\ written \in Nat /\ E \in Nat
         /\ o = written + i /\ i = 0 /\ out_sz > 0 /\ written + rem = out_sz - 1
         /\ o <= Place(Ms, n) /\ (rem > 0 => o = Place(Ms, n))
         /\ Place(Ms, n) <= E /\ Place(Ms, n) \in Nat
         /\ rem = 0 \/ Place(Ms, n) = E
    BY <2>5, <2>6, <2>7, <2>9, <2>10, Zenon
  <2>12. o = shown /\ written = shown
    BY <2>11
  <2>13. out[o] = ""
    BY <2>2, Zenon DEF Ended
  <2> HIDE DEF shown
  <2> QED
    BY <2>2, <2>12, <2>13, Zenon DEF Shown
<1> QED
  BY <1>1, VsnprintkInvariant, PTL
=============================================================================
