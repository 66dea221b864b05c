--------------------------- MODULE CmdlineProofs ---------------------------
(***************************************************************************)
(* tty_init selects the devices the command line names, and initialises    *)
(* the devices it selected, for every command line, every number of ports  *)
(* and every width of int.                                                 *)
(*                                                                         *)
(* Selection: what is selected is at any time what the line names before   *)
(* the pointer the parser has reached.  Between where a search begins and  *)
(* the "console=" it finds no device begins (NothingSkipped), that         *)
(* "console=" is the first of its word (KeyFound), and in its parameter    *)
(* only the device that is read next begins before the one after it        *)
(* (TheDevice).                                                            *)
(*                                                                         *)
(* Initialisation: while the loop is at port i, the list of the devices    *)
(* initialised holds the screen, if it is used, and the selected ports     *)
(* below i; all of them are screen or below i, so that port i goes last.   *)
(***************************************************************************)
EXTENDS Cmdline, Induction, SequenceTheorems, TLAPS

-----------------------------------------------------------------------------
(* The devices a line names, as far as the parser has come. *)

\* The tokens the parser compares with.
NoToken == ""
Comma == ","
Space == " "
Key == "console="
Tty0 == "tty0"
TtyS == "ttyS"

\* The tokens first .. last of a line are a device of a parameter.
DeviceIn(l, first, last) ==
    /\ \A n \in first .. last : l[n] # Comma /\ l[n] # Space
    /\ last = Len(l) \/ l[last + 1] = Comma \/ l[last + 1] = Space
    /\ \E k \in 1 .. first - 1 :
          /\ l[k] = Key
          /\ first = k + 1 \/ l[first - 1] = Comma
          /\ \A n \in k .. last : l[n] # Space
          /\ \A m \in 1 .. k - 1 : l[m] = Key => \E n \in m .. k : l[n] = Space

\* They name a device.
Names(l, device, first, last) ==
    /\ DeviceIn(l, first, last)
    /\ Length(SubSeq(l, first, last)) < MaxLen
    /\ IF device = Screen THEN first = last /\ l[first] = Tty0
       ELSE l[first] = TtyS /\ device \in PortNumbers(SubSeq(l, first + 1, last))

\* A device that begins before the pointer q is named.
NamedUpTo(l, device, q) ==
    \E first \in 1 .. Len(l) : \E last \in first .. Len(l) :
        first <= q /\ Names(l, device, first, last)

TooLargeIn(l) ==
    \E first \in 1 .. Len(l) : \E last \in first .. Len(l) : -1 \in PortNumbers(SubSeq(l, first + 1, last))

\* What is selected is what the line names before the pointer q.
Selects(q) ==
    ~TooLargeIn(line) =>
        /\ out_screen <=> NamedUpTo(line, Screen, q)
        /\ \A p \in Ports : out_serial[p] <=> NamedUpTo(line, p, q)

\* The token k is the "console=" of a parameter that ends at the pointer end.
KeyAt(l, k, end) ==
    /\ k \in 1 .. Len(l) /\ l[k] = Key
    /\ end \in k .. Len(l)
    /\ \A n \in k .. end : l[n] # Space
    /\ end = Len(l) \/ l[end + 1] = Space
    /\ \A m \in 1 .. k - 1 : l[m] = Key => \E n \in m .. k : l[n] = Space

\* Where a search begins, and where a device.
SearchAt(l, q) == q \in 0 .. Len(l) /\ (q = 0 \/ q = Len(l) \/ l[q + 1] = Space)

DeviceAt(l, k, s, end) ==
    /\ KeyAt(l, k, end)
    /\ s \in k .. end
    /\ s = k \/ s = end \/ l[s] = Comma

\* The inductive invariant of the selection.
ParseInv ==
    /\ line \in Lines
    /\ out_screen \in BOOLEAN /\ out_serial \in [Ports -> BOOLEAN]
    /\ pc \in {"find", "device", "default"} => line # None
    /\ pc = "find" => SearchAt(line, ptr) /\ Selects(ptr)
    /\ pc = "device" =>
          /\ \E k \in 1 .. Len(line) : DeviceAt(line, k, device_start, param_end)
          /\ Selects(device_start)
    /\ pc = "default" => Selects(Len(line))
    /\ pc = "init" => SelectsTheNamed

LEMMA LineTyped ==
    ASSUME line \in Lines, line # None
    PROVE  /\ line \in Seq(Tokens) /\ Len(line) \in Nat /\ DOMAIN line = 1 .. Len(line)
           /\ \A n \in 1 .. Len(line) : line[n] \in Tokens /\ line[n] # NoToken
<1>1. line \in Seq(Tokens)
  BY LinesAssumption
<1>2. \A t \in Tokens : t # NoToken
  BY Zenon DEF Tokens, Digit, NoToken
<1>3. /\ Len(line) \in Nat /\ DOMAIN line = 1 .. Len(line)
      /\ \A n \in 1 .. Len(line) : line[n] \in Tokens
  BY <1>1
<1> QED
  BY <1>1, <1>2, <1>3

LEMMA TokenAt ==
    \A k : At(k) = IF k < Len(line) THEN line[k + 1] ELSE NoToken
BY Zenon DEF At, NoToken

\* First finds the first token of the set, or the end of the line.
LEMMA FirstFinds ==
    ASSUME line \in Lines, line # None, NEW k \in 0 .. Len(line), NEW set, NoToken \notin set
    PROVE  /\ First(k, set) \in k .. Len(line)
           /\ First(k, set) = Len(line) \/ line[First(k, set) + 1] \in set
           /\ \A n \in k + 1 .. First(k, set) : line[n] \notin set
<1> DEFINE T == {m \in k .. Len(line) : At(m) \in set \cup {NoToken}}
           Found(m) == /\ m \in k .. Len(line)
                       /\ At(m) \in set \cup {NoToken}
                       /\ \A n \in k .. m - 1 : At(n) \notin set
<1>1. Len(line) \in Nat /\ k \in Nat /\ \A n \in 1 .. Len(line) : line[n] # NoToken
  BY LineTyped
<1>2. At(Len(line)) = NoToken
  BY <1>1, TokenAt
<1>3. PICK m \in T : \A n \in T : m <= n
  <2>1. Len(line) \in T /\ T \subseteq Nat
    BY <1>1, <1>2
  <2> HIDE DEF T
  <2> QED
    BY <2>1, LeastElement
<1>4. Found(m)
  <2>1. ASSUME NEW n \in k .. m - 1, At(n) \in set PROVE FALSE
    BY <1>1, <1>3, <2>1
  <2> QED
    BY <1>3, <2>1
<1> DEFINE f == First(k, set)
<1>5. Found(f)
  <2>1. f = CHOOSE x \in k .. Len(line) : /\ At(x) \in set \cup {NoToken}
                                          /\ \A n \in k .. x - 1 : At(n) \notin set
    BY Zenon DEF First, NoToken
  <2> HIDE DEF f
  <2> QED
    BY <1>4, <2>1
<1> HIDE DEF f
<1>6. f \in Nat /\ k <= f /\ f <= Len(line)
  BY <1>1, <1>5
<1>7. f = Len(line) \/ line[f + 1] \in set
  <2> SUFFICES ASSUME f # Len(line) PROVE line[f + 1] \in set
    OBVIOUS
  <2>1. f < Len(line) /\ f + 1 \in 1 .. Len(line)
    BY <1>1, <1>6
  <2>2. At(f) = line[f + 1]
    BY <2>1, TokenAt
  <2> QED
    BY <1>1, <1>5, <2>1, <2>2
<1>8. ASSUME NEW n \in k + 1 .. f PROVE line[n] \notin set
  <2>1. n - 1 \in k .. f - 1 /\ n - 1 < Len(line) /\ (n - 1) + 1 = n
    BY <1>1, <1>6
  <2>2. At(n - 1) = line[n]
    BY <2>1, TokenAt
  <2> QED
    BY <1>5, <2>1, <2>2
<1> QED
  BY <1>1, <1>6, <1>7, <1>8 DEF f

\* A device ends at the first comma behind its begin, or with its parameter.
LEMMA DeviceEnds ==
    ASSUME line \in Lines, line # None, param_end \in 0 .. Len(line),
           NEW s \in 0 .. param_end
    PROVE  /\ DeviceEnd(s) \in s .. param_end
           /\ \A n \in s + 1 .. DeviceEnd(s) : line[n] # Comma
           /\ DeviceEnd(s) = param_end \/ line[DeviceEnd(s) + 1] = Comma
<1> DEFINE comma == First(s, {Comma})
<1>1. Len(line) \in Nat /\ s \in 0 .. Len(line) /\ param_end \in Nat /\ s \in Nat
  BY LineTyped
<1>2. NoToken \notin {Comma}
  BY Zenon DEF NoToken, Comma
<1>3. /\ comma \in s .. Len(line)
      /\ comma = Len(line) \/ line[comma + 1] = Comma
      /\ \A n \in s + 1 .. comma : line[n] # Comma
  <2>1. /\ comma \in s .. Len(line)
        /\ comma = Len(line) \/ line[comma + 1] \in {Comma}
        /\ \A n \in s + 1 .. comma : line[n] \notin {Comma}
    BY <1>1, <1>2, FirstFinds
  <2> QED
    BY <2>1
<1>4. DeviceEnd(s) = IF comma < param_end THEN comma ELSE param_end
  BY Zenon DEF DeviceEnd, Comma
<1> DEFINE e == DeviceEnd(s)
<1> HIDE DEF comma, e
<1>5. (comma < param_end /\ e = comma) \/ (param_end <= comma /\ e = param_end)
  BY <1>1, <1>3, <1>4 DEF e
<1>6. comma \in Nat /\ s <= comma /\ comma <= Len(line) /\ s <= param_end /\ param_end <= Len(line)
  BY <1>1, <1>3
<1>7. e \in s .. param_end /\ e <= comma
  BY <1>1, <1>5, <1>6
<1>8. \A n \in s + 1 .. e : line[n] # Comma
  <2> SUFFICES ASSUME NEW n \in s + 1 .. e PROVE n \in s + 1 .. comma
    BY <1>3
  <2> QED
    BY <1>1, <1>6, <1>7
<1>9. e = param_end \/ line[e + 1] = Comma
  BY <1>1, <1>3, <1>5, <1>6
<1> QED
  BY <1>7, <1>8, <1>9 DEF e

\* A text takes room, unless it is empty.
LEMMA LengthPositive ==
    ASSUME NEW t, t \in Seq(Tokens)
    PROVE  Length(t) \in Nat /\ (Length(t) > 0 <=> Len(t) > 0)
<1> DEFINE N == Len(t)
           G == [kv \in (1 .. N) \X Nat |-> kv[2] + Width(t[kv[1]])]
           Eq(f) == f = [k \in 0 .. N |-> IF k = 0 THEN 0 ELSE f[k - 1] + Width(t[k])]
           n == CHOOSE f : Eq(f)
<1>1. \A x : Width(x) \in Nat /\ Width(x) > 0
  BY DEF Width
<1>2. N \in Nat
  OBVIOUS
<1>3. \A k \in 1 .. N, v \in Nat : G[<<k, v>>] = v + Width(t[k]) /\ G[<<k, v>>] \in Nat
  BY <1>1
<1> HIDE DEF G
<1>4. PICK f \in [0 .. N -> Nat] : f[0] = 0 /\ \A k \in 1 .. N : f[k] = G[<<k, f[k - 1]>>]
  <2>1. Loop(N, Nat, 0, G)
    BY <1>2, <1>3 DEF Loop
  <2> QED
    BY <2>1, Iteration
<1>5. ASSUME NEW k \in 0 .. N PROVE f[k] = IF k = 0 THEN 0 ELSE f[k - 1] + Width(t[k])
  <2> SUFFICES ASSUME k # 0 PROVE f[k] = f[k - 1] + Width(t[k])
    BY <1>4
  <2> HIDE DEF N
  <2>1. k \in 1 .. N /\ k - 1 \in 0 .. N
    BY <1>2
  <2>2. f[k - 1] \in Nat
    BY <1>4, <2>1
  <2> QED
    BY <1>3, <1>4, <2>1, <2>2
<1>6. Eq(f)
  <2>1. f = [k \in 0 .. N |-> f[k]]
    BY <1>4
  <2> QED
    BY <1>5, <2>1
<1>7. Eq(n)
  <2> HIDE DEF Eq
  <2> QED
    BY <1>6
<1>8. Length(t) = n[N]
  BY DEF Length
<1> HIDE DEF n
<1>9. \A k \in 0 .. N : n[k] = IF k = 0 THEN 0 ELSE n[k - 1] + Width(t[k])
  BY <1>7
<1> HIDE DEF N
<1>10. \A k \in 0 .. N : n[k] \in Nat
  <2> DEFINE P == {k \in Nat : k <= N => n[k] \in Nat}
  <2>1. 0 \in P
    BY <1>2, <1>9
  <2>2. ASSUME NEW k \in Nat, k \in P PROVE k + 1 \in P
    <3> SUFFICES ASSUME k + 1 <= N PROVE n[k + 1] \in Nat
      OBVIOUS
    <3>1. k + 1 \in 0 .. N /\ k + 1 # 0 /\ (k + 1) - 1 = k /\ n[k] \in Nat
      BY <1>2, <2>2
    <3>2. n[k + 1] = n[k] + Width(t[k + 1])
      BY <1>9, <3>1
    <3> QED
      BY <1>1, <3>1, <3>2
  <2> HIDE DEF P
  <2>3. \A k \in Nat : k \in P
    BY <2>1, <2>2, Induct
  <2> QED
    BY <1>2, <2>3 DEF P
<1>11. CASE N = 0
  BY <1>2, <1>8, <1>9, <1>11 DEF N
<1>12. CASE N > 0
  <2>1. N - 1 \in 0 .. N /\ N \in 0 .. N /\ N # 0
    BY <1>2, <1>12
  <2>2. n[N] = n[N - 1] + Width(t[N]) /\ n[N - 1] \in Nat
    BY <1>9, <1>10, <2>1
  <2> QED
    BY <1>1, <1>8, <1>12, <2>2 DEF N
<1> QED
  BY <1>2, <1>11, <1>12

\* A number that fits is the only one.
LEMMA OneNumber ==
    ASSUME NEW t, -1 \notin PortNumbers(t)
    PROVE  \E x : PortNumbers(t) = {x}
<1>1. -1 \in -IntMax - 1 .. IntMax
  BY NumbersAssumption
<1>2. PortNumbers(t) = -IntMax - 1 .. IntMax \/ \E x : PortNumbers(t) = {x}
  BY Zenon DEF PortNumbers
<1> QED
  BY <1>1, <1>2

\* The definitions of the model, of a line.
LEMMA IsDeviceMeans ==
    /\ \A first, last : IsDevice(first, last) <=> DeviceIn(line, first, last)
    /\ \A first, last : IsDevice(first, last)' <=> DeviceIn(line', first, last)
<1>1. \A first, last : IsDevice(first, last) <=> DeviceIn(line, first, last)
  BY Zenon DEF IsDevice, DeviceIn, Comma, Space, Key
<1>2. \A first, last : IsDevice(first, last)' <=> DeviceIn(line', first, last)
  BY Zenon DEF IsDevice, DeviceIn, Comma, Space, Key
<1> QED
  BY <1>1, <1>2

\* Different tokens.
LEMMA TokensDiffer ==
    /\ Comma # Space /\ Key # Space /\ Key # Comma /\ Tty0 # TtyS
    /\ NoToken \notin {Comma} /\ NoToken \notin {Space} /\ NoToken \notin {Key}
BY Zenon DEF Comma, Space, Key, Tty0, TtyS, NoToken

\* Between where a search begins and what it finds there is no device.
LEMMA NothingSkipped ==
    ASSUME NEW l, Len(l) \in Nat, NEW q, SearchAt(l, q), NEW pos \in q .. Len(l),
           \A n \in q + 1 .. pos : l[n] # Key,
           NEW first \in 1 .. Len(l), NEW last \in first .. Len(l),
           DeviceIn(l, first, last), first <= pos + 1
    PROVE  first <= q
<1> SUFFICES ASSUME q < first PROVE FALSE
  BY DEF SearchAt
<1>1. PICK k \in 1 .. first - 1 : l[k] = Key /\ \A n \in k .. last : l[n] # Space
  BY DEF DeviceIn
<1>2. q \in Nat /\ k \in Nat /\ first \in Nat /\ last \in Nat /\ pos \in Nat
  BY DEF SearchAt
<1>3. k <= q
  <2> SUFFICES ASSUME q < k PROVE FALSE
    BY <1>2
  <2>1. k \in q + 1 .. pos
    BY <1>2
  <2> QED
    BY <1>1, <2>1
<1>4. q # 0 /\ q # Len(l) /\ q + 1 \in k .. last
  BY <1>2, <1>3
<1> QED
  BY <1>1, <1>4 DEF SearchAt

\* A "console=" found from there is the first of its word.
LEMMA KeyFound ==
    ASSUME NEW l, Len(l) \in Nat, NEW q, SearchAt(l, q), NEW pos \in q .. Len(l) - 1,
           \A n \in q + 1 .. pos : l[n] # Key, l[pos + 1] = Key,
           NEW end \in pos + 1 .. Len(l),
           \A n \in pos + 2 .. end : l[n] # Space,
           end = Len(l) \/ l[end + 1] = Space
    PROVE  DeviceAt(l, pos + 1, pos + 1, end)
<1>1. q \in Nat /\ pos \in Nat /\ end \in Nat /\ pos + 1 <= Len(l)
  BY DEF SearchAt
<1>2. \A n \in pos + 1 .. end : l[n] # Space
  <2> SUFFICES ASSUME NEW n \in pos + 1 .. end PROVE l[n] # Space
    OBVIOUS
  <2>1. CASE n = pos + 1
    BY <2>1, TokensDiffer
  <2>2. CASE n # pos + 1
    <3>1. n \in pos + 2 .. end
      BY <1>1, <2>2
    <3> QED
      BY <3>1
  <2> QED
    BY <2>1, <2>2
<1>3. ASSUME NEW m \in 1 .. pos, l[m] = Key PROVE \E n \in m .. pos + 1 : l[n] = Space
  <2>1. m <= q
    <3> SUFFICES ASSUME q < m PROVE FALSE
      BY <1>1
    <3>1. m \in q + 1 .. pos
      BY <1>1
    <3> QED
      BY <1>3, <3>1
  <2>2. q # 0 /\ q # Len(l) /\ q + 1 \in m .. pos + 1
    BY <1>1, <2>1
  <2> QED
    BY <2>2 DEF SearchAt
<1>4. pos + 1 \in 1 .. Len(l) /\ (pos + 1) - 1 = pos /\ pos + 1 \in pos + 1 .. end
  BY <1>1
<1>5. KeyAt(l, pos + 1, end)
  BY <1>2, <1>3, <1>4 DEF KeyAt
<1> QED
  BY <1>4, <1>5 DEF DeviceAt

\* A place that follows: behind the comma, or at the end of the parameter.
After(l, e, t) ==
    \/ e < Len(l) /\ l[e + 1] = Comma /\ t = e + 1
    \/ (e = Len(l) \/ l[e + 1] # Comma) /\ t = e

\* The device that begins at s and ends at e: where the next begins, and that no
\* other begins before that.
LEMMA TheDevice ==
    ASSUME NEW l, Len(l) \in Nat, NEW k, NEW s, NEW end, DeviceAt(l, k, s, end), s < end,
           NEW e \in s .. end, \A n \in s + 1 .. e : l[n] # Comma,
           e = end \/ l[e + 1] = Comma,
           NEW t, After(l, e, t)
    PROVE  /\ DeviceAt(l, k, t, end)
           /\ s < t \/ e > s
           /\ e > s => DeviceIn(l, s + 1, e)
           /\ \A first \in 1 .. Len(l) : \A last \in first .. Len(l) :
                 s < first /\ first <= t /\ DeviceIn(l, first, last) => first = s + 1 /\ last = e
<1>1. /\ KeyAt(l, k, end) /\ k \in Nat /\ k > 0 /\ k <= s /\ k <= end /\ end <= Len(l)
      /\ s \in Nat /\ end \in Nat /\ e \in Nat /\ s <= e /\ e <= end
      /\ s = k \/ l[s] = Comma
  BY DEF DeviceAt, KeyAt
<1>2. \/ e = end /\ t = e
      \/ e < end /\ l[e + 1] = Comma /\ t = e + 1
  <2>1. CASE e = end
    BY <1>1, <2>1, TokensDiffer DEF KeyAt, After
  <2>2. CASE e # end
    BY <1>1, <2>2 DEF After
  <2> QED
    BY <2>1, <2>2
<1>3. t \in k .. end /\ (t = end \/ l[t] = Comma)
  BY <1>1, <1>2
<1>4. \A n \in k .. end : l[n] # Space
  BY <1>1 DEF KeyAt
<1>5. \A n \in s + 1 .. e : l[n] # Comma /\ l[n] # Space
  <2> SUFFICES ASSUME NEW n \in s + 1 .. e PROVE n \in k .. end
    BY <1>4
  <2> QED
    BY <1>1
<1>6. e = Len(l) \/ l[e + 1] = Comma \/ l[e + 1] = Space
  BY <1>1, <1>2 DEF KeyAt
<1>7. ASSUME e > s PROVE DeviceIn(l, s + 1, e)
  <2>1. k \in 1 .. (s + 1) - 1 /\ l[k] = Key /\ (s + 1 = k + 1 \/ l[(s + 1) - 1] = Comma)
    BY <1>1 DEF KeyAt
  <2>2. \A n \in k .. e : l[n] # Space
    <3> SUFFICES ASSUME NEW n \in k .. e PROVE n \in k .. end
      BY <1>4
    <3> QED
      BY <1>1
  <2>3. \A m \in 1 .. k - 1 : l[m] = Key => \E n \in m .. k : l[n] = Space
    BY <1>1 DEF KeyAt
  <2> QED
    BY <1>5, <1>6, <2>1, <2>2, <2>3 DEF DeviceIn
<1>8. ASSUME NEW first \in 1 .. Len(l), NEW last \in first .. Len(l),
             s < first, first <= t, DeviceIn(l, first, last)
      PROVE  first = s + 1 /\ last = e
  <2>1. first \in Nat /\ last \in Nat /\ first <= last /\ last <= Len(l)
    OBVIOUS
  <2>2. first <= e
    <3> SUFFICES ASSUME first = e + 1, l[e + 1] = Comma PROVE FALSE
      BY <1>1, <1>2, <1>8, <2>1
    <3>1. first \in first .. last
      BY <2>1
    <3> QED
      BY <1>8, <3>1 DEF DeviceIn
  <2>3. PICK m \in 1 .. first - 1 :
            /\ l[m] = Key
            /\ first = m + 1 \/ l[first - 1] = Comma
            /\ \A n \in 1 .. m - 1 : l[n] = Key => \E x \in n .. m : l[x] = Space
    BY <1>8 DEF DeviceIn
  <2>4. first = s + 1
    <3>1. CASE l[first - 1] = Comma
      <4> SUFFICES ASSUME first - 1 # s PROVE FALSE
        BY <1>1, <2>1
      <4>1. first - 1 \in s + 1 .. e
        BY <1>1, <1>8, <2>1, <2>2
      <4> QED
        BY <3>1, <4>1
    <3>2. CASE first = m + 1
      <4>1. m \in Nat /\ m >= s /\ m <= end
        BY <1>1, <1>8, <2>1, <2>2, <3>2
      <4>2. CASE m = k
        BY <1>1, <1>8, <2>1, <3>2, <4>1, <4>2
      <4>3. CASE m # k
        <5>1. k \in 1 .. m - 1 /\ l[k] = Key
          BY <1>1, <4>1, <4>3 DEF KeyAt
        <5>2. PICK x \in k .. m : l[x] = Space
          BY <2>3, <5>1
        <5>3. x \in k .. end
          BY <1>1, <4>1
        <5> QED
          BY <1>4, <5>2, <5>3
      <4> QED
        BY <4>2, <4>3
    <3> QED
      BY <2>3, <3>1, <3>2
  <2>5. CASE last < e
    <3>1. last + 1 \in s + 1 .. e /\ last # Len(l)
      BY <1>1, <2>1, <2>4, <2>5
    <3> QED
      BY <1>5, <1>8, <3>1 DEF DeviceIn
  <2>6. CASE e < last
    <3>1. e + 1 \in first .. last /\ e # Len(l)
      BY <1>1, <2>1, <2>2, <2>6
    <3> QED
      BY <1>6, <1>8, <3>1 DEF DeviceIn
  <2> QED
    BY <1>1, <2>1, <2>4, <2>5, <2>6
<1>9. s < t \/ e > s
  BY <1>1, <1>2
<1> QED
  BY <1>1, <1>3, <1>7, <1>8, <1>9 DEF DeviceAt

\* So what is named before the next device is what was named and what this one names.
LEMMA UpToDevice ==
    ASSUME NEW l, Len(l) \in Nat, NEW k, NEW s, NEW end, DeviceAt(l, k, s, end), s < end,
           NEW e \in s .. end, \A n \in s + 1 .. e : l[n] # Comma,
           e = end \/ l[e + 1] = Comma,
           NEW t, After(l, e, t), NEW device
    PROVE  NamedUpTo(l, device, t) <=> NamedUpTo(l, device, s) \/ (e > s /\ Names(l, device, s + 1, e))
<1>1. /\ s \in Nat /\ e \in Nat /\ s <= e /\ e <= Len(l) /\ end \in Nat
      /\ t = e \/ t = e + 1
  BY DEF DeviceAt, KeyAt, After
<1>2. \A first \in 1 .. Len(l) : \A last \in first .. Len(l) :
          s < first /\ first <= t /\ DeviceIn(l, first, last) => first = s + 1 /\ last = e
  BY TheDevice
<1>3. ASSUME NamedUpTo(l, device, t)
      PROVE  NamedUpTo(l, device, s) \/ (e > s /\ Names(l, device, s + 1, e))
  <2>0. PICK first \in 1 .. Len(l) : \E last \in first .. Len(l) : first <= t /\ Names(l, device, first, last)
    BY <1>3 DEF NamedUpTo
  <2>1. PICK last \in first .. Len(l) : first <= t /\ Names(l, device, first, last)
    BY <2>0
  <2>2. CASE first <= s
    BY <2>1, <2>2 DEF NamedUpTo
  <2>3. CASE s < first
    <3>1. DeviceIn(l, first, last)
      BY <2>1 DEF Names
    <3>2. first = s + 1 /\ last = e
      BY <1>2, <2>1, <2>3, <3>1
    <3>3. e > s
      BY <1>1, <3>2
    <3> QED
      BY <2>1, <3>2, <3>3
  <2> QED
    BY <1>1, <2>2, <2>3
<1>4. ASSUME NamedUpTo(l, device, s) PROVE NamedUpTo(l, device, t)
  <2>0. PICK first \in 1 .. Len(l) : \E last \in first .. Len(l) : first <= s /\ Names(l, device, first, last)
    BY <1>4 DEF NamedUpTo
  <2>1. PICK last \in first .. Len(l) : first <= s /\ Names(l, device, first, last)
    BY <2>0
  <2>2. first <= t
    BY <1>1, <2>1
  <2> QED
    BY <2>1, <2>2 DEF NamedUpTo
<1>5. ASSUME e > s, Names(l, device, s + 1, e) PROVE NamedUpTo(l, device, t)
  <2>1. s + 1 \in 1 .. Len(l) /\ e \in s + 1 .. Len(l) /\ s + 1 <= t
    BY <1>1, <1>5
  <2> QED
    BY <1>5, <2>1 DEF NamedUpTo
<1> QED
  BY <1>3, <1>4, <1>5

\* Nothing is named where nothing is skipped.
LEMMA UpToParameter ==
    ASSUME NEW l, Len(l) \in Nat, NEW q, SearchAt(l, q), NEW pos \in q .. Len(l),
           \A n \in q + 1 .. pos : l[n] # Key,
           NEW t, t = pos \/ t = pos + 1, NEW device
    PROVE  NamedUpTo(l, device, t) <=> NamedUpTo(l, device, q)
<1>1. q \in Nat /\ pos \in Nat /\ q <= t
  BY DEF SearchAt
<1>2. ASSUME NEW first \in 1 .. Len(l), NEW last \in first .. Len(l), Names(l, device, first, last)
      PROVE  first <= t <=> first <= q
  <2>1. ASSUME first <= t PROVE first <= q
    <3>1. DeviceIn(l, first, last) /\ first <= pos + 1
      BY <1>1, <1>2, <2>1 DEF Names
    <3> QED
      BY <3>1, NothingSkipped
  <2> QED
    BY <1>1, <2>1
<1> QED
  BY <1>2 DEF NamedUpTo

\* Before the first token nothing is named.
LEMMA NothingYet == \A l, device : ~NamedUpTo(l, device, 0)
BY DEF NamedUpTo

-----------------------------------------------------------------------------
(* The properties and steps of the model in these terms. *)

Meaning ==
    line \in Lines /\ line # None =>
        /\ TooLarge <=> TooLargeIn(line)
        /\ \A device : Named(device) <=> NamedUpTo(line, device, Len(line))

LEMMA MeaningShown == Meaning
<1> SUFFICES ASSUME line \in Lines, line # None
             PROVE  /\ TooLarge <=> TooLargeIn(line)
                    /\ \A device : Named(device) <=> NamedUpTo(line, device, Len(line))
  BY DEF Meaning
<1>1. Len(line) \in Nat /\ DOMAIN line = 1 .. Len(line)
  BY LineTyped
<1>2. TooLarge <=> TooLargeIn(line)
  BY <1>1 DEF TooLarge, TooLargeIn, Text
<1>3. ASSUME NEW first \in 1 .. Len(line), NEW last \in first .. Len(line), NEW device
      PROVE  /\ IsDevice(first, last)
             /\ Length(Text(first - 1, last)) < MaxLen
             /\ IF device = Screen THEN first = last /\ line[first] = "tty0"
                ELSE line[first] = "ttyS" /\ device \in PortNumbers(Text(first, last))
             <=> Names(line, device, first, last)
  <2>1. Text(first - 1, last) = SubSeq(line, first, last) /\ Text(first, last) = SubSeq(line, first + 1, last)
    <3>1. (first - 1) + 1 = first
      OBVIOUS
    <3> QED
      BY <3>1 DEF Text
  <2> QED
    BY <2>1, IsDeviceMeans DEF Names, Tty0, TtyS
<1>4. ASSUME NEW device PROVE Named(device) <=> NamedUpTo(line, device, Len(line))
  BY <1>1, <1>3 DEF Named, NamedUpTo
<1> QED
  BY <1>2, <1>4

LEMMA MeaningShownNext == Meaning'
BY MeaningShown, PTL

\* Device without its abbreviations: the device takes the room of the tokens from
\* device_start to its end e.
Fits(e) == Length(Text(device_start, e)) > 0 /\ Length(Text(device_start, e)) < MaxLen

LEMMA DeviceMoves ==
    ASSUME Device, NEW e, e = DeviceEnd(device_start)
    PROVE  /\ device_start < param_end
           /\ out_screen' = (out_screen \/ (Fits(e) /\ e = device_start + 1 /\ At(device_start) = Tty0))
           /\ Fits(e) /\ At(device_start) = TtyS =>
                 \E n \in PortNumbers(Text(device_start + 1, e)) :
                     out_serial' = [p \in Ports |-> out_serial[p] \/ p = n]
           /\ ~(Fits(e) /\ At(device_start) = TtyS) => out_serial' = out_serial
           /\ device_start' = IF At(e) = Comma THEN e + 1 ELSE e
           /\ pc = "device" /\ pc' = "device" /\ line' = line /\ param_end' = param_end
<1>1. /\ device_start < param_end
      /\ device_start' = IF At(e) = Comma THEN e + 1 ELSE e
      /\ pc = "device" /\ pc' = "device" /\ line' = line /\ param_end' = param_end
  BY Zenon DEF Device, Comma
<1>2. out_screen' = (out_screen \/ (Fits(e) /\ e = device_start + 1 /\ At(device_start) = Tty0))
  BY Zenon DEF Device, Fits, Tty0
<1>3. IF Fits(e) /\ At(device_start) = TtyS
      THEN \E n \in PortNumbers(Text(device_start + 1, e)) :
               out_serial' = [p \in Ports |-> out_serial[p] \/ p = n]
      ELSE UNCHANGED out_serial
  BY Zenon DEF Device, Fits, TtyS
<1> QED
  BY <1>1, <1>2, <1>3

LEMMA ParameterMoves ==
    /\ FindParam =>
          /\ First(ptr, {Key}) < Len(line)
          /\ param_end' = First(First(ptr, {Key}) + 1, {Space})
          /\ device_start' = First(ptr, {Key}) + 1
          /\ pc = "find" /\ pc' = "device"
          /\ line' = line /\ out_screen' = out_screen /\ out_serial' = out_serial
    /\ NoMoreParams =>
          /\ First(ptr, {Key}) = Len(line)
          /\ pc = "find" /\ pc' = "default"
          /\ line' = line /\ out_screen' = out_screen /\ out_serial' = out_serial
<1>1. FindParam =>
          /\ First(ptr, {Key}) < Len(line)
          /\ param_end' = First(First(ptr, {Key}) + 1, {Space})
          /\ device_start' = First(ptr, {Key}) + 1
          /\ pc = "find" /\ pc' = "device"
          /\ line' = line /\ out_screen' = out_screen /\ out_serial' = out_serial
  BY Zenon DEF FindParam, Key, Space, selected
<1>2. NoMoreParams =>
          /\ First(ptr, {Key}) = Len(line)
          /\ pc = "find" /\ pc' = "default"
          /\ line' = line /\ out_screen' = out_screen /\ out_serial' = out_serial
  BY Zenon DEF NoMoreParams, Key, selected
<1> QED
  BY <1>1, <1>2

\* The next device behind a pointer, in the terms of TheDevice.
LEMMA AfterMeans ==
    ASSUME line \in Lines, line # None, NEW e \in 0 .. Len(line),
           NEW t, t = IF At(e) = Comma THEN e + 1 ELSE e
    PROVE  After(line, e, t)
<1>1. Len(line) \in Nat
  BY LineTyped
<1>2. NoToken # Comma
  BY TokensDiffer
<1>3. At(e) = IF e < Len(line) THEN line[e + 1] ELSE NoToken
  BY TokenAt
<1> QED
  BY <1>1, <1>2, <1>3 DEF After

\* The device that is read selects what it names.
LEMMA DeviceSelects ==
    ASSUME ParseInv, Device
    PROVE  ParseInv'
<1> DEFINE s == device_start
           e == DeviceEnd(s)
           t == device_start'
           a == SubSeq(line, s + 1, e)
<1>0. /\ s < param_end /\ line' = line /\ param_end' = param_end /\ pc = "device" /\ pc' = "device"
      /\ t = IF At(e) = Comma THEN e + 1 ELSE e
  BY DeviceMoves
<1>1. /\ line \in Lines /\ line # None /\ out_screen \in BOOLEAN /\ out_serial \in [Ports -> BOOLEAN]
      /\ Selects(s)
  BY <1>0 DEF ParseInv
<1>2. Len(line) \in Nat /\ line \in Seq(Tokens)
  BY <1>1, LineTyped
<1>3. PICK k \in 1 .. Len(line) : DeviceAt(line, k, s, param_end)
  BY <1>0 DEF ParseInv
<1>4. param_end \in 0 .. Len(line) /\ s \in 0 .. param_end /\ k \in Nat /\ param_end \in Nat /\ s \in Nat
  BY <1>2, <1>3 DEF DeviceAt, KeyAt
<1>5. /\ e \in s .. param_end
      /\ \A n \in s + 1 .. e : line[n] # Comma
      /\ e = param_end \/ line[e + 1] = Comma
  BY <1>1, <1>4, DeviceEnds
<1>6. e \in 0 .. Len(line) /\ e \in Nat /\ s <= e
  BY <1>2, <1>4, <1>5
<1>7. After(line, e, t)
  BY <1>0, <1>1, <1>6, AfterMeans
<1> HIDE DEF t, e
<1>8. /\ DeviceAt(line, k, t, param_end)
      /\ e > s => DeviceIn(line, s + 1, e)
  BY <1>0, <1>2, <1>3, <1>5, <1>7, TheDevice
<1>9. \A d : NamedUpTo(line, d, t) <=> NamedUpTo(line, d, s) \/ (e > s /\ Names(line, d, s + 1, e))
  BY <1>0, <1>2, <1>3, <1>5, <1>7, UpToDevice
<1>10. a \in Seq(Tokens) /\ Len(a) = e - s
  <2>1. s + 1 \in 1 .. Len(line) /\ e <= Len(line)
    BY <1>0, <1>2, <1>4, <1>6
  <2>2. \A n \in s + 1 .. e : line[n] \in Tokens
    <3> SUFFICES ASSUME NEW n \in s + 1 .. e PROVE n \in 1 .. Len(line)
      BY <1>1, LineTyped
    <3> QED
      BY <1>2, <1>6, <2>1
  <2>3. s + 1 \in Int /\ e \in Int
    BY <1>4, <1>6
  <2>4. a \in Seq(Tokens) /\ Len(a) = IF s + 1 <= e THEN e - (s + 1) + 1 ELSE 0
    <3> HIDE DEF s
    <3> QED
      BY <2>2, <2>3, SubSeqProperties
  <2> QED
    BY <1>4, <1>6, <2>4
<1>11. Fits(e) <=> e > s /\ Length(a) < MaxLen
  <2>1. Text(s, e) = a
    BY DEF Text
  <2>2. Length(a) > 0 <=> e - s > 0
    BY <1>10, LengthPositive
  <2> HIDE DEF a
  <2> QED
    BY <1>4, <1>6, <2>1, <2>2 DEF Fits
<1>12. At(s) = line[s + 1]
  BY <1>0, <1>2, <1>4, TokenAt
<1>13. out_screen' = (out_screen \/ (Fits(e) /\ e = s + 1 /\ At(s) = Tty0))
  BY DeviceMoves DEF e
<1>14. /\ Fits(e) /\ At(s) = TtyS =>
              \E n \in PortNumbers(Text(s + 1, e)) : out_serial' = [p \in Ports |-> out_serial[p] \/ p = n]
       /\ ~(Fits(e) /\ At(s) = TtyS) => out_serial' = out_serial
  BY DeviceMoves DEF e
<1>15. out_screen' \in BOOLEAN /\ out_serial' \in [Ports -> BOOLEAN]
  <2>1. CASE Fits(e) /\ At(s) = TtyS
    <3>1. PICK n : out_serial' = [p \in Ports |-> out_serial[p] \/ p = n]
      BY <1>14, <2>1
    <3> QED
      BY <1>1, <1>13, <3>1
  <2>2. CASE ~(Fits(e) /\ At(s) = TtyS)
    BY <1>1, <1>13, <1>14, <2>2
  <2> QED
    BY <2>1, <2>2
<1>16. ASSUME ~TooLargeIn(line)
       PROVE  /\ out_screen' <=> NamedUpTo(line, Screen, t)
              /\ \A p \in Ports : out_serial'[p] <=> NamedUpTo(line, p, t)
  <2>1. /\ out_screen <=> NamedUpTo(line, Screen, s)
        /\ \A p \in Ports : out_serial[p] <=> NamedUpTo(line, p, s)
    BY <1>1, <1>16 DEF Selects
  <2>2. out_screen' <=> NamedUpTo(line, Screen, t)
    <3>1. e > s /\ Names(line, Screen, s + 1, e) <=> Fits(e) /\ e = s + 1 /\ At(s) = Tty0
      BY <1>4, <1>6, <1>8, <1>11, <1>12 DEF Names
    <3> QED
      BY <1>9, <1>13, <2>1, <3>1
  <2>3. ASSUME NEW p \in Ports PROVE out_serial'[p] <=> NamedUpTo(line, p, t)
    <3>1. p # Screen
      BY NumbersAssumption DEF Ports, Screen
    <3>2. /\ (s + 1) + 1 = s + 2 /\ Text(s + 1, e) = SubSeq(line, s + 2, e)
          /\ SubSeq(line, (s + 1) + 1, e) = SubSeq(line, s + 2, e)
      BY <1>4 DEF Text
    <3>3. e > s /\ Names(line, p, s + 1, e) <=>
             Fits(e) /\ At(s) = TtyS /\ p \in PortNumbers(SubSeq(line, s + 2, e))
      BY <1>8, <1>11, <1>12, <3>1, <3>2 DEF Names
    <3>4. CASE Fits(e) /\ At(s) = TtyS
      <4>1. e > s /\ s + 1 \in 1 .. Len(line) /\ e \in s + 1 .. Len(line)
        BY <1>2, <1>4, <1>6, <1>11, <3>4
      <4>2. -1 \notin PortNumbers(SubSeq(line, s + 2, e))
        BY <1>16, <3>2, <4>1 DEF TooLargeIn
      <4>3. PICK x : PortNumbers(SubSeq(line, s + 2, e)) = {x}
        BY <4>2, OneNumber
      <4>4. PICK n \in PortNumbers(Text(s + 1, e)) : out_serial' = [q \in Ports |-> out_serial[q] \/ q = n]
        BY <1>14, <3>4
      <4>5. out_serial'[p] <=> out_serial[p] \/ p = n
        BY <4>4
      <4>6. n = x
        BY <3>2, <4>3, <4>4
      <4> QED
        BY <1>9, <2>1, <3>3, <3>4, <4>3, <4>5, <4>6
    <3>5. CASE ~(Fits(e) /\ At(s) = TtyS)
      BY <1>9, <1>14, <2>1, <3>3, <3>5
    <3> QED
      BY <3>4, <3>5
  <2> QED
    BY <2>2, <2>3
<1>17. Selects(device_start)'
  BY <1>0, <1>16 DEF Selects, t
<1>18. \E x \in 1 .. Len(line') : DeviceAt(line', x, device_start', param_end')
  BY <1>0, <1>8 DEF t
<1> QED
  BY <1>0, <1>1, <1>15, <1>17, <1>18 DEF ParseInv

\* The next parameter is the first behind the pointer.
LEMMA ParameterFound ==
    ASSUME ParseInv, FindParam
    PROVE  ParseInv'
<1> DEFINE pos == First(ptr, {Key})
           end == First(pos + 1, {Space})
<1>0. /\ pos < Len(line) /\ param_end' = end /\ device_start' = pos + 1
      /\ pc = "find" /\ pc' = "device"
      /\ line' = line /\ out_screen' = out_screen /\ out_serial' = out_serial
  BY ParameterMoves
<1>1. /\ line \in Lines /\ line # None /\ out_screen \in BOOLEAN /\ out_serial \in [Ports -> BOOLEAN]
      /\ SearchAt(line, ptr) /\ Selects(ptr)
  BY <1>0 DEF ParseInv
<1>2. Len(line) \in Nat
  BY <1>1, LineTyped
<1>3. ptr \in 0 .. Len(line) /\ NoToken \notin {Key} /\ NoToken \notin {Space}
  BY <1>1, TokensDiffer DEF SearchAt
<1>4. /\ pos \in ptr .. Len(line)
      /\ pos = Len(line) \/ line[pos + 1] = Key
      /\ \A n \in ptr + 1 .. pos : line[n] # Key
  <2>1. /\ pos \in ptr .. Len(line)
        /\ pos = Len(line) \/ line[pos + 1] \in {Key}
        /\ \A n \in ptr + 1 .. pos : line[n] \notin {Key}
    BY <1>1, <1>3, FirstFinds
  <2> HIDE DEF pos
  <2> QED
    BY <2>1
<1> HIDE DEF pos
<1>5. pos \in ptr .. Len(line) - 1 /\ pos + 1 \in 0 .. Len(line) /\ line[pos + 1] = Key
  BY <1>0, <1>2, <1>3, <1>4
<1>6. /\ end \in pos + 1 .. Len(line)
      /\ end = Len(line) \/ line[end + 1] = Space
      /\ \A n \in pos + 2 .. end : line[n] # Space
  <2>1. /\ end \in pos + 1 .. Len(line)
        /\ end = Len(line) \/ line[end + 1] \in {Space}
        /\ \A n \in (pos + 1) + 1 .. end : line[n] \notin {Space}
    BY <1>1, <1>3, <1>5, FirstFinds
  <2>2. (pos + 1) + 1 = pos + 2
    BY <1>5
  <2> HIDE DEF end
  <2> QED
    BY <2>1, <2>2
<1> HIDE DEF end
<1>7. DeviceAt(line, pos + 1, pos + 1, end)
  BY <1>1, <1>2, <1>4, <1>5, <1>6, KeyFound
<1>8. \A d : NamedUpTo(line, d, pos + 1) <=> NamedUpTo(line, d, ptr)
  BY <1>1, <1>2, <1>4, UpToParameter
<1>9. Selects(device_start)'
  BY <1>0, <1>1, <1>8 DEF Selects
<1>10. \E k \in 1 .. Len(line') : DeviceAt(line', k, device_start', param_end')
  <2>1. pos + 1 \in 1 .. Len(line)
    BY <1>2, <1>3, <1>5
  <2> QED
    BY <1>0, <1>7, <2>1
<1> QED
  BY <1>0, <1>1, <1>9, <1>10 DEF ParseInv

\* If there is none, all that is named is selected.
LEMMA AllParametersRead ==
    ASSUME ParseInv, NoMoreParams
    PROVE  ParseInv'
<1> DEFINE pos == First(ptr, {Key})
<1>0. /\ pos = Len(line) /\ pc = "find" /\ pc' = "default"
      /\ line' = line /\ out_screen' = out_screen /\ out_serial' = out_serial
  BY ParameterMoves
<1>1. /\ line \in Lines /\ line # None /\ out_screen \in BOOLEAN /\ out_serial \in [Ports -> BOOLEAN]
      /\ SearchAt(line, ptr) /\ Selects(ptr)
  BY <1>0 DEF ParseInv
<1>2. Len(line) \in Nat
  BY <1>1, LineTyped
<1>3. ptr \in 0 .. Len(line) /\ NoToken \notin {Key}
  BY <1>1, TokensDiffer DEF SearchAt
<1>4. pos \in ptr .. Len(line) /\ \A n \in ptr + 1 .. pos : line[n] # Key
  <2>1. /\ pos \in ptr .. Len(line)
        /\ \A n \in ptr + 1 .. pos : line[n] \notin {Key}
    BY <1>1, <1>3, FirstFinds
  <2> HIDE DEF pos
  <2> QED
    BY <2>1
<1> HIDE DEF pos
<1>5. \A d : NamedUpTo(line, d, pos) <=> NamedUpTo(line, d, ptr)
  BY <1>1, <1>2, <1>4, UpToParameter
<1>6. Selects(Len(line))'
  BY <1>0, <1>1, <1>5 DEF Selects
<1> QED
  BY <1>0, <1>1, <1>6 DEF ParseInv

\* The search goes on at the end of the parameter.
LEMMA ParameterRead ==
    ASSUME ParseInv, ParamDone
    PROVE  ParseInv'
<1>0. /\ pc = "device" /\ device_start >= param_end /\ ptr' = param_end /\ pc' = "find"
      /\ line' = line /\ out_screen' = out_screen /\ out_serial' = out_serial
  BY Zenon DEF ParamDone, selected
<1>1. /\ line \in Lines /\ line # None /\ out_screen \in BOOLEAN /\ out_serial \in [Ports -> BOOLEAN]
      /\ Selects(device_start)
  BY <1>0 DEF ParseInv
<1>2. Len(line) \in Nat
  BY <1>1, LineTyped
<1>3. PICK k \in 1 .. Len(line) : DeviceAt(line, k, device_start, param_end)
  BY <1>0 DEF ParseInv
<1>4. device_start = param_end /\ SearchAt(line, param_end)
  BY <1>0, <1>2, <1>3 DEF DeviceAt, KeyAt, SearchAt
<1>5. Selects(ptr)' /\ SearchAt(line', ptr')
  BY <1>0, <1>1, <1>4 DEF Selects
<1> QED
  BY <1>0, <1>1, <1>5 DEF ParseInv

\* A kernel with no device to write to gets the default ones.
LEMMA DefaultsGiven ==
    ASSUME ParseInv, Default
    PROVE  ParseInv'
<1>0. /\ pc = "default" /\ pc' = "init" /\ line' = line /\ screen_built' = screen_built
      /\ IF AnyPort \/ (screen_built /\ out_screen)
         THEN out_screen' = out_screen /\ out_serial' = out_serial
         ELSE /\ out_screen' = IF screen_built THEN TRUE ELSE out_screen
              /\ out_serial' = [out_serial EXCEPT ![0] = TRUE]
  BY Zenon DEF Default, selected
<1>1. /\ line \in Lines /\ line # None /\ out_screen \in BOOLEAN /\ out_serial \in [Ports -> BOOLEAN]
      /\ Selects(Len(line))
  BY <1>0 DEF ParseInv
<1>2. 0 \in Ports /\ Screen \notin Ports /\ 0 .. Screen = Ports \cup {Screen} /\ Screen # 0
  BY NumbersAssumption DEF Ports, Screen
<1>3. out_screen' \in BOOLEAN /\ out_serial' \in [Ports -> BOOLEAN]
  BY <1>0, <1>1, <1>2
<1>4. SelectsTheNamed'
  <2> DEFINE N == {d \in 0 .. Screen : NamedUpTo(line, d, Len(line))}
             usable == IF screen_built THEN N ELSE N \ {Screen}
             expected == IF usable # {} THEN N
                         ELSE N \cup {0} \cup (IF screen_built THEN {Screen} ELSE {})
             devices == {p \in Ports : out_serial'[p]} \cup (IF out_screen' THEN {Screen} ELSE {})
  <2>1. ASSUME ~TooLargeIn(line) PROVE devices = expected
    <3>1. /\ out_screen <=> Screen \in N
          /\ \A p \in Ports : out_serial[p] <=> p \in N
          /\ N \subseteq Ports \cup {Screen}
      BY <1>1, <1>2, <2>1 DEF Selects
    <3> HIDE DEF N
    <3>2. CASE AnyPort \/ (screen_built /\ out_screen)
      <4>1. usable # {}
        BY <1>2, <3>1, <3>2 DEF AnyPort
      <4>2. /\ out_screen' <=> Screen \in N
            /\ \A p \in Ports : out_serial'[p] <=> p \in N
        BY <1>0, <3>1, <3>2
      <4>3. devices = N
        BY <3>1, <4>2
      <4> QED
        BY <4>1, <4>3
    <3>3. CASE ~(AnyPort \/ (screen_built /\ out_screen))
      <4>1. usable = {}
        BY <1>1, <1>2, <3>1, <3>3 DEF AnyPort
      <4>2. /\ out_screen' = IF screen_built THEN TRUE ELSE out_screen
            /\ \A p \in Ports : out_serial'[p] = IF p = 0 THEN TRUE ELSE out_serial[p]
        BY <1>0, <1>1, <1>2, <3>3
      <4>3. devices = N \cup {0} \cup (IF screen_built THEN {Screen} ELSE {})
        BY <1>1, <1>2, <3>1, <4>2
      <4> QED
        BY <4>1, <4>3
    <3> QED
      BY <3>2, <3>3
  <2>2. TooLarge' <=> TooLargeIn(line)
    BY <1>0, <1>1, MeaningShownNext DEF Meaning
  <2>3. {d \in 0 .. Screen : line' # None /\ Named(d)'} = N
    BY <1>0, <1>1, MeaningShownNext DEF Meaning
  <2> HIDE DEF N
  <2>4. ~TooLarge' => devices = LET named == N
                                    use == IF screen_built' THEN named ELSE named \ {Screen}
                                IN  IF line' = None THEN {}
                                    ELSE IF use # {} THEN named
                                    ELSE named \cup {0} \cup (IF screen_built' THEN {Screen} ELSE {})
    BY <1>0, <1>1, <2>1, <2>2
  <2> QED
    BY <2>3, <2>4 DEF SelectsTheNamed
<1> QED
  BY <1>0, <1>1, <1>3, <1>4 DEF ParseInv

LEMMA InitParse == Init => ParseInv
<1> SUFFICES ASSUME Init PROVE ParseInv
  OBVIOUS
<1>1. /\ line \in Lines /\ out_screen = FALSE /\ out_serial = [p \in Ports |-> FALSE]
      /\ ptr = 0 /\ pc = IF line = None THEN "init" ELSE "find"
  BY DEF Init
<1>2. CASE line = None
  <2>1. SelectsTheNamed
    BY <1>1, <1>2 DEF SelectsTheNamed
  <2> QED
    BY <1>1, <1>2, <2>1 DEF ParseInv
<1>3. CASE line # None
  <2>1. Len(line) \in Nat
    BY <1>1, <1>3, LineTyped
  <2>2. SearchAt(line, ptr) /\ Selects(ptr)
    BY <1>1, <2>1, NothingYet DEF SearchAt, Selects
  <2> QED
    BY <1>1, <1>3, <2>2 DEF ParseInv
<1> QED
  BY <1>2, <1>3

\* Once the ports are initialised the line is read no more.
LEMMA LineReadOnce ==
    ASSUME ParseInv, InitScreen \/ InitPort \/ PortsDone
    PROVE  ParseInv'
<1>1. line' = line /\ out_screen' = out_screen /\ out_serial' = out_serial /\ pc' \in {"ports", "done"}
  BY DEF InitScreen, InitPort, PortsDone, selected
<1> QED
  BY <1>1 DEF ParseInv

LEMMA StutterParse ==
    ASSUME ParseInv, UNCHANGED vars
    PROVE  ParseInv'
<1>1. UNCHANGED <<line, screen_built, out_screen, out_serial, ptr, param_end, device_start, pc>>
  BY DEF vars, selected, parsing
<1>2. SelectsTheNamed => SelectsTheNamed'
  BY <1>1, IsDeviceMeans DEF SelectsTheNamed, TooLarge, Named, Text
<1>3. /\ Selects(ptr)' = Selects(ptr)
      /\ Selects(device_start)' = Selects(device_start)
      /\ Selects(Len(line))' = Selects(Len(line))
  BY <1>1 DEF Selects
<1> QED
  BY <1>1, <1>2, <1>3 DEF ParseInv

LEMMA NextParse == ParseInv /\ [Next]_vars => ParseInv'
<1> SUFFICES ASSUME ParseInv, [Next]_vars PROVE ParseInv'
  OBVIOUS
<1>1. CASE FindParam
  BY <1>1, ParameterFound
<1>2. CASE NoMoreParams
  BY <1>2, AllParametersRead
<1>3. CASE Device
  BY <1>3, DeviceSelects
<1>4. CASE ParamDone
  BY <1>4, ParameterRead
<1>5. CASE Default
  BY <1>5, DefaultsGiven
<1>6. CASE InitScreen \/ InitPort \/ PortsDone
  BY <1>6, LineReadOnce
<1>7. CASE UNCHANGED vars
  BY <1>7, StutterParse
<1>8. CASE Returned
  BY <1>7, <1>8 DEF Returned
<1> QED
  BY <1>1, <1>2, <1>3, <1>4, <1>5, <1>6, <1>7, <1>8 DEF Next

\* After the command line is read, the devices it names are selected and no others, or
\* the default ones if it names none that exists (tty.c:157-231).
THEOREM SelectedAreNamed == Spec => []SelectsTheNamed
<1>1. ParseInv => SelectsTheNamed
  BY DEF ParseInv, SelectsTheNamed
<1> QED
  BY <1>1, InitParse, NextParse, PTL DEF Spec

-----------------------------------------------------------------------------
(* The devices that are initialised. *)

Elements(seq) == {seq[k] : k \in DOMAIN seq}

\* What is initialised when the loop is at port b.
Below(b) ==
    {p \in Ports : p < b /\ out_serial[p]}
    \cup (IF screen_built /\ out_screen THEN {Screen} ELSE {})

Ordered ==
    /\ \A k \in 1 .. Len(initialised) - 1 :
          initialised[k] = Screen \/ initialised[k] < initialised[k + 1]
    /\ \A k \in 2 .. Len(initialised) : initialised[k] # Screen

Parsing == {"find", "device", "default", "init"}

\* The inductive invariant of the initialisation.
Inv ==
    /\ pc \in Parsing \cup {"ports", "done"}
    /\ i \in 0 .. MaxSerialDevs
    /\ initialised \in Seq(0 .. Screen)
    /\ pc \in Parsing => i = 0
    /\ pc \in {"ports", "done"} => Elements(initialised) = Below(i) /\ Ordered
    /\ pc = "done" => i = MaxSerialDevs

LEMMA InitInv == Init => Inv
  BY NumbersAssumption DEF Init, Inv, Parsing, Screen

\* A port goes to the end of the list.
LEMMA PortAppended ==
    ASSUME Inv, pc = "ports", i < MaxSerialDevs, out_serial[i],
           initialised' = Append(initialised, i), i' = i + 1,
           UNCHANGED <<screen_built, out_screen, out_serial>>
    PROVE  Elements(initialised)' = Below(i)' /\ Ordered'
<1>1. /\ i \in Ports /\ i \in 0 .. Screen /\ i # Screen /\ Screen \in Nat
      /\ initialised \in Seq(0 .. Screen)
      /\ Elements(initialised) = Below(i) /\ Ordered
  BY NumbersAssumption DEF Inv, Ports, Screen
<1>2. /\ Len(initialised') = Len(initialised) + 1
      /\ \A k \in 1 .. Len(initialised) : initialised'[k] = initialised[k]
      /\ initialised'[Len(initialised) + 1] = i
      /\ DOMAIN initialised' = 1 .. Len(initialised) + 1
      /\ DOMAIN initialised = 1 .. Len(initialised)
      /\ Len(initialised) \in Nat
  BY <1>1
<1>3. Elements(initialised)' = Elements(initialised) \cup {i}
  BY <1>2 DEF Elements
<1>4. Below(i)' = Below(i) \cup {i}
  BY <1>1 DEF Below, Ports, Screen
<1>5. \A k \in 1 .. Len(initialised) : initialised[k] = Screen \/ initialised[k] < i
  BY <1>1, <1>2 DEF Elements, Below
<1>6. Ordered'
  BY <1>1, <1>2, <1>5 DEF Ordered
<1> QED
  BY <1>1, <1>3, <1>4, <1>6

LEMMA NextInv == Inv /\ [Next]_vars => Inv'
<1> SUFFICES ASSUME Inv, [Next]_vars PROVE Inv'
  OBVIOUS
<1> USE DEF Parsing, selected, parsing
<1>1. CASE FindParam \/ NoMoreParams \/ Device \/ ParamDone \/ Default
  BY <1>1 DEF Inv, FindParam, NoMoreParams, Device, ParamDone, Default
<1>2. CASE InitScreen
  <2>1. /\ i = 0 /\ i' = 0 /\ pc' = "ports"
        /\ initialised' = IF screen_built /\ out_screen THEN <<Screen>> ELSE <<>>
        /\ UNCHANGED <<screen_built, out_screen, out_serial>>
    BY <1>2 DEF InitScreen, Inv
  <2>2. Screen \in Nat /\ \A p \in Ports : ~(p < 0)
    BY NumbersAssumption DEF Screen, Ports
  <2>3. Elements(initialised)' = Below(i)'
    BY <2>1, <2>2 DEF Elements, Below
  <2>4. Ordered'
    BY <2>1, <2>2 DEF Ordered
  <2>5. initialised' \in Seq(0 .. Screen) /\ i' \in 0 .. MaxSerialDevs
    <3>1. Screen \in 0 .. Screen /\ i' \in 0 .. MaxSerialDevs
      BY <2>1, <2>2, NumbersAssumption
    <3>2. <<Screen>> \in Seq(0 .. Screen) /\ <<>> \in Seq(0 .. Screen)
      BY <3>1
    <3> QED
      BY <2>1, <3>1, <3>2
  <2> QED
    BY <2>1, <2>3, <2>4, <2>5 DEF Inv
<1>3. CASE InitPort
  <2>1. /\ pc = "ports" /\ pc' = "ports" /\ i < MaxSerialDevs /\ i' = i + 1
        /\ initialised' = IF out_serial[i] THEN Append(initialised, i) ELSE initialised
        /\ UNCHANGED <<screen_built, out_screen, out_serial>>
    BY <1>3 DEF InitPort
  <2>2. i' \in 0 .. MaxSerialDevs /\ initialised' \in Seq(0 .. Screen)
    <3>1. i' \in 0 .. MaxSerialDevs /\ i \in 0 .. Screen /\ initialised \in Seq(0 .. Screen)
      BY <2>1, NumbersAssumption DEF Inv, Screen
    <3>2. Append(initialised, i) \in Seq(0 .. Screen)
      BY <3>1
    <3> QED
      BY <2>1, <3>1, <3>2
  <2>3. Elements(initialised)' = Below(i)' /\ Ordered'
    <3>1. CASE out_serial[i]
      BY <2>1, <3>1, PortAppended
    <3>2. CASE ~out_serial[i]
      <4>1. Below(i)' = Below(i)
        BY <2>1, <3>2, NumbersAssumption DEF Inv, Below, Ports, Screen
      <4> QED
        BY <2>1, <3>2, <4>1 DEF Inv, Elements, Ordered
    <3> QED
      BY <3>1, <3>2
  <2> QED
    BY <2>1, <2>2, <2>3 DEF Inv
<1>4. CASE PortsDone
  BY <1>4 DEF PortsDone, Inv, Elements, Below, Ordered
<1>5. CASE UNCHANGED vars
  BY <1>5 DEF vars, Inv, Elements, Below, Ordered
<1>6. CASE Returned
  BY <1>5, <1>6 DEF Returned
<1> QED
  BY <1>1, <1>2, <1>3, <1>4, <1>5, <1>6 DEF Next

\* tty_init initialises each device that is selected, once, the screen first and the
\* ports in order, and no other (tty.c:233-246).
THEOREM InitialisesTheSelected == Spec => []InitialisedAreUsed
<1>1. Inv => InitialisedAreUsed
  <2> SUFFICES ASSUME Inv, pc = "done" PROVE InitialisedAreUsed
    BY DEF InitialisedAreUsed
  <2>1. Elements(initialised) = Below(MaxSerialDevs) /\ Ordered
    BY DEF Inv
  <2>2. {p \in Ports : p < MaxSerialDevs /\ out_serial[p]} = {p \in Ports : out_serial[p]}
    BY NumbersAssumption DEF Ports
  <2> QED
    BY <2>1, <2>2 DEF InitialisedAreUsed, Elements, Below, Ordered
<1> QED
  BY <1>1, InitInv, NextInv, PTL DEF Spec
=============================================================================
