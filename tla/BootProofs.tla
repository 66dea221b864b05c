----------------------------- MODULE BootProofs -----------------------------
(***************************************************************************)
(* No message of kernel_main is left in the ring buffer when it halts, and *)
(* every module is listed, for every boot loader and every number of       *)
(* modules, names and entries.                                             *)
(*                                                                         *)
(* The argument: what each function of kernel_main prints ends in a line   *)
(* that no name can cut, and such a line takes all that was held with it;  *)
(* only between two modules of the list may something be held.  What was   *)
(* shown or is held lists the modules up to the one the loop stands at.    *)
(***************************************************************************)
EXTENDS Boot, Induction, SequenceTheorems, TLAPS

\* Messages that end in a whole line leave nothing behind.
LEMMA PrintLine ==
    ASSUME NEW S, NEW first \in Seq(S), NEW last \in S, last.newline,
           Emit(first \o <<last>>)
    PROVE  held' = <<>>
<1> DEFINE messages == first \o <<last>>
           ends == {k \in DOMAIN messages : messages[k].newline}
<1>1. /\ messages \in Seq(S) /\ Len(messages) \in Nat /\ Len(messages) = Len(first) + 1
      /\ DOMAIN messages = 1 .. Len(messages)
      /\ messages[Len(messages)] = last
  OBVIOUS
<1> HIDE DEF messages
<1>2. Len(messages) \in ends /\ \A k \in ends : k <= Len(messages) /\ k \in Nat
  BY <1>1
<1>3. (CHOOSE k \in ends : \A m \in ends : m <= k) = Len(messages)
  BY <1>1, <1>2
<1>4. held' = SubSeq(messages, Len(messages) + 1, Len(messages))
  BY <1>2, <1>3 DEF Emit, messages
<1> QED
  BY <1>1, <1>4

\* Emit of one, two, three or four messages, as the functions use it.
LEMMA PrintLines ==
    ASSUME NEW a, NEW b, NEW c, NEW e, e.newline
    PROVE  /\ Emit(<<e>>) => held' = <<>>
           /\ Emit(<<a, e>>) => held' = <<>>
           /\ Emit(<<a, b, e>>) => held' = <<>>
           /\ Emit(<<a, b, c, e>>) => held' = <<>>
<1> DEFINE S == {a, b, c, e}
<1>1. e \in S /\ <<>> \in Seq(S) /\ <<a>> \in Seq(S) /\ <<a, b>> \in Seq(S) /\ <<a, b, c>> \in Seq(S)
  OBVIOUS
<1>2. /\ <<e>> = <<>> \o <<e>> /\ <<a, e>> = <<a>> \o <<e>>
      /\ <<a, b, e>> = <<a, b>> \o <<e>> /\ <<a, b, c, e>> = <<a, b, c>> \o <<e>>
  OBVIOUS
<1> HIDE DEF S
<1> QED
  BY <1>1, <1>2, PrintLine

\* What is held: nothing, but for a module whose path was cut and a message that a
\* serial port does not take.
Inv == pc \notin {"module", "serial_putc spins"} => held = <<>>

LEMMA NextInv == Inv /\ [Next]_vars => Inv'
<1> SUFFICES ASSUME Inv, [Next]_vars PROVE Inv'
  OBVIOUS
<1> USE DEF output, Goto, Fault
<1>0. Blank.newline /\ \A what, value : Line(what, value).newline
  BY DEF Blank, Line
<1>1. CASE TtyInit \/ TtyInitDevices \/ WakeInScreenInit \/ MemoryEntry \/ DisplayASCIIIcon \/ Halt
           \/ WakeAfterHalt
  BY <1>1 DEF Inv, TtyInit, TtyInitDevices, WakeInScreenInit, MemoryEntry, DisplayASCIIIcon, Halt,
              WakeAfterHalt
<1>2. CASE TtyInitLogs
  BY <1>0, <1>2, PrintLines DEF Inv, TtyInitLogs
<1>3. CASE DisplayTitle
  BY <1>0, <1>3, PrintLines DEF Inv, DisplayTitle
<1>4. CASE DisplayBootloaderInfo
  <2>1. CASE Has(given.bootloader)
    <3> DEFINE info == given.bootloader[1]
               name == NameLine("name", info.name)
               version == NameLine("name", info.version)
               S == {Line("bootloader", <<>>), name, version, Blank}
               first == <<Line("bootloader", <<>>)>>
                        \o (IF info.name # Null THEN <<name>> ELSE <<>>)
                        \o (IF info.version # Null THEN <<version>> ELSE <<>>)
    <3>1. Emit(first \o <<Blank>>)
      BY <1>4, <2>1 DEF DisplayBootloaderInfo
    <3>2. first \in Seq(S) /\ Blank \in S
      <4> DEFINE one == <<Line("bootloader", <<>>)>>
                 two == IF info.name # Null THEN <<name>> ELSE <<>>
                 three == IF info.version # Null THEN <<version>> ELSE <<>>
      <4>1. Line("bootloader", <<>>) \in S /\ name \in S /\ version \in S /\ Blank \in S
        OBVIOUS
      <4>2. one \in Seq(S) /\ two \in Seq(S) /\ three \in Seq(S)
        <5> HIDE DEF info, name, version, S
        <5> QED BY <4>1
      <4> HIDE DEF one, two, three, S
      <4>3. (one \o two) \o three \in Seq(S)
        BY <4>2
      <4> QED
        BY <4>1, <4>3 DEF one, two, three
    <3> HIDE DEF first, S
    <3> QED
      BY <1>0, <3>1, <3>2, PrintLine DEF Inv
  <2>2. CASE ~Has(given.bootloader)
    BY <1>4, <2>2 DEF Inv, DisplayBootloaderInfo
  <2> QED
    BY <2>1, <2>2
<1>5. CASE DisplayFramebufferInfo
  BY <1>0, <1>5, PrintLines DEF Inv, DisplayFramebufferInfo
<1>6. CASE DisplayMemoryInfo
  BY <1>0, <1>6, PrintLines DEF Inv, DisplayMemoryInfo
<1>7. CASE MemoryTotals
  BY <1>0, <1>7, PrintLines DEF Inv, MemoryTotals
<1>8. CASE DisplayKernelAddressInfo
  BY <1>0, <1>8, PrintLines DEF Inv, DisplayKernelAddressInfo
<1>9. CASE DisplayAcpiInfo
  BY <1>0, <1>9, PrintLines DEF Inv, DisplayAcpiInfo
<1>10. CASE DisplayModuleInfo
  BY <1>0, <1>10, PrintLines DEF Inv, DisplayModuleInfo
<1>11. CASE ModuleEntry
  BY <1>11 DEF Inv, ModuleEntry
<1>12. CASE ModulesEnd
  BY <1>0, <1>12, PrintLines DEF Inv, ModulesEnd
<1>13. CASE UNCHANGED vars
  BY <1>13 DEF Inv, vars
<1>14. CASE Stopped
  BY <1>13, <1>14 DEF Stopped
<1> QED
  BY <1>1, <1>2, <1>3, <1>4, <1>5, <1>6, <1>7, <1>8, <1>9, <1>10, <1>11, <1>12, <1>13, <1>14
     DEF Next, Main

\* When the kernel halts, every message has left the ring buffer (main.c:190-207).
THEOREM HaltsWithEmptyRing == Spec => []NothingHeldAtHalt
<1>1. Init => Inv
  BY DEF Init, Inv
<1>2. Inv => NothingHeldAtHalt
  BY DEF Inv, NothingHeldAtHalt
<1> QED
  BY <1>1, <1>2, NextInv, PTL DEF Spec

-----------------------------------------------------------------------------
(* The messages of one kind. *)

\* The recursion of Said(s, kinds) over the first k messages of s.
SaidTo(s, kinds, k) ==
    LET said[j \in 0 .. Len(s)] ==
            IF j = 0 THEN <<>>
            ELSE IF s[j].what \in kinds THEN Append(said[j - 1], s[j])
            ELSE said[j - 1]
    IN  said[k]

LEMMA SaidIsSaidTo == \A s, kinds : Said(s, kinds) = SaidTo(s, kinds, Len(s))
BY DEF Said, SaidTo

\* The message is of one of the kinds.
Says(message, kinds) == message.what \in kinds

LEMMA SaidStep ==
    ASSUME NEW S, NEW s \in Seq(S), NEW kinds
    PROVE  /\ SaidTo(s, kinds, 0) = <<>>
           /\ \A k \in 1 .. Len(s) :
                SaidTo(s, kinds, k) = IF Says(s[k], kinds)
                                      THEN Append(SaidTo(s, kinds, k - 1), s[k])
                                      ELSE SaidTo(s, kinds, k - 1)
           /\ \A k \in 0 .. Len(s) : SaidTo(s, kinds, k) \in Seq(S)
<1> DEFINE D == 0 .. Len(s)
           Turn(k, v) == IF s[k].what \in kinds THEN Append(v, s[k]) ELSE v
           Eq(f) == f = [k \in D |-> IF k = 0 THEN <<>>
                                     ELSE IF s[k].what \in kinds THEN Append(f[k - 1], s[k])
                                     ELSE f[k - 1]]
           G == [kv \in D \X Seq(S) |-> Turn(kv[1], kv[2])]
           n == CHOOSE f : Eq(f)
<1>1. Len(s) \in Nat /\ \A k \in 1 .. Len(s) : s[k] \in S /\ k \in D /\ k - 1 \in D /\ k # 0
  OBVIOUS
<1>2. PICK f \in [D -> Seq(S)] : f[0] = <<>> /\ \A k \in 1 .. Len(s) : f[k] = G[<<k, f[k - 1]>>]
  <2>1. \A k \in 1 .. Len(s), v \in Seq(S) : G[<<k, v>>] \in Seq(S)
    <3> SUFFICES ASSUME NEW k \in 1 .. Len(s), NEW v \in Seq(S) PROVE G[<<k, v>>] \in Seq(S)
      OBVIOUS
    <3>1. G[<<k, v>>] = Turn(k, v)
      BY <1>1
    <3>2. Append(v, s[k]) \in Seq(S)
      BY <1>1, AppendProperties
    <3> QED
      BY <3>1, <3>2
  <2>2. <<>> \in Seq(S)
    OBVIOUS
  <2> HIDE DEF G
  <2>3. Loop(Len(s), Seq(S), <<>>, G)
    BY <1>1, <2>1, <2>2 DEF Loop
  <2> QED
    BY <2>3, Iteration
<1>3. ASSUME NEW k \in D PROVE f[k] = IF k = 0 THEN <<>> ELSE Turn(k, f[k - 1])
  <2>1. CASE k = 0
    BY <1>2, <2>1
  <2>2. CASE k # 0
    <3>1. k \in 1 .. Len(s) /\ k - 1 \in D
      BY <1>1, <2>2
    <3>2. f[k - 1] \in Seq(S)
      BY <1>2, <3>1
    <3>3. f[k] = G[<<k, f[k - 1]>>] /\ G[<<k, f[k - 1]>>] = Turn(k, f[k - 1])
      BY <1>2, <3>1, <3>2
    <3> QED
      BY <2>2, <3>3
  <2> QED
    BY <2>1, <2>2
<1>4. Eq(f)
  <2>1. f = [k \in D |-> f[k]]
    BY <1>2
  <2> HIDE DEF D
  <2> QED
    BY <1>3, <2>1
<1>5. Eq(n)
  <2> HIDE DEF Eq
  <2> QED
    BY <1>4
<1>6. \A k : SaidTo(s, kinds, k) = n[k]
  BY DEF SaidTo
<1> HIDE DEF n
<1>7. n[0] = <<>> /\ \A k \in 1 .. Len(s) : n[k] = Turn(k, n[k - 1])
  <2>1. 0 \in D /\ \A k \in 1 .. Len(s) : k \in D /\ k # 0
    BY <1>1
  <2>2. \A k \in D : n[k] = IF k = 0 THEN <<>> ELSE Turn(k, n[k - 1])
    BY <1>5
  <2> HIDE DEF D, Turn
  <2> QED
    BY <2>1, <2>2
<1>8. \A k \in D : n[k] \in Seq(S)
  <2> DEFINE P == {k \in Nat : k \in D => n[k] \in Seq(S)}
  <2>1. 0 \in P
    <3>1. n[0] = <<>> /\ <<>> \in Seq(S)
      BY <1>7
    <3> QED
      BY <3>1
  <2>2. ASSUME NEW k \in Nat, k \in P PROVE k + 1 \in P
    <3> SUFFICES ASSUME k + 1 \in D PROVE n[k + 1] \in Seq(S)
      OBVIOUS
    <3>1. k + 1 \in 1 .. Len(s) /\ n[k] \in Seq(S) /\ (k + 1) - 1 = k
      BY <1>1, <2>2
    <3>2. s[k + 1] \in S /\ n[k + 1] = Turn(k + 1, n[k])
      BY <1>1, <1>7, <3>1
    <3>3. Append(n[k], s[k + 1]) \in Seq(S)
      BY <3>1, <3>2, AppendProperties
    <3> QED
      BY <3>2, <3>3
  <2> HIDE DEF P
  <2>3. \A k \in Nat : k \in P
    BY <2>1, <2>2, Induct
  <2> QED
    BY <1>1, <2>3 DEF P
<1>9. \A k \in 1 .. Len(s) : n[k] = IF Says(s[k], kinds) THEN Append(n[k - 1], s[k]) ELSE n[k - 1]
  BY <1>7 DEF Says
<1> QED
  BY <1>6, <1>7, <1>8, <1>9

\* What is printed later does not change what was said before.
LEMMA SaidPrefix ==
    ASSUME NEW S, NEW s \in Seq(S), NEW t \in Seq(S), NEW kinds
    PROVE  \A k \in 0 .. Len(s) : SaidTo(s \o t, kinds, k) = SaidTo(s, kinds, k)
<1> DEFINE u == s \o t
           P == {k \in Nat : k <= Len(s) => SaidTo(u, kinds, k) = SaidTo(s, kinds, k)}
<1>1. /\ u \in Seq(S) /\ Len(s) \in Nat /\ Len(u) \in Nat /\ Len(u) >= Len(s)
      /\ \A k \in 1 .. Len(s) : u[k] = s[k]
  BY ConcatProperties
<1> HIDE DEF u
<1>2. 0 \in P
  <2>1. SaidTo(u, kinds, 0) = <<>> /\ SaidTo(s, kinds, 0) = <<>>
    BY <1>1, SaidStep
  <2> QED
    BY <2>1
<1>3. ASSUME NEW k \in Nat, k \in P PROVE k + 1 \in P
  <2> SUFFICES ASSUME k + 1 <= Len(s) PROVE SaidTo(u, kinds, k + 1) = SaidTo(s, kinds, k + 1)
    OBVIOUS
  <2>1. /\ k + 1 \in 1 .. Len(s) /\ k + 1 \in 1 .. Len(u) /\ (k + 1) - 1 = k
        /\ SaidTo(u, kinds, k) = SaidTo(s, kinds, k) /\ u[k + 1] = s[k + 1]
    BY <1>1, <1>3
  <2>2. SaidTo(s, kinds, k + 1) = IF Says(s[k + 1], kinds)
                                  THEN Append(SaidTo(s, kinds, (k + 1) - 1), s[k + 1])
                                  ELSE SaidTo(s, kinds, (k + 1) - 1)
    BY <2>1, SaidStep
  <2>3. SaidTo(u, kinds, k + 1) = IF Says(u[k + 1], kinds)
                                  THEN Append(SaidTo(u, kinds, (k + 1) - 1), u[k + 1])
                                  ELSE SaidTo(u, kinds, (k + 1) - 1)
    BY <1>1, <2>1, SaidStep
  <2> QED
    BY <2>1, <2>2, <2>3
<1> HIDE DEF P
<1>4. \A k \in Nat : k \in P
  BY <1>2, <1>3, Induct
<1> QED
  BY <1>1, <1>4 DEF P, u

\* One more message.
LEMMA SaidMore ==
    ASSUME NEW S, NEW s \in Seq(S), NEW x \in S, NEW kinds
    PROVE  /\ Said(s, kinds) \in Seq(S)
           /\ Said(s \o <<x>>, kinds) = IF Says(x, kinds) THEN Append(Said(s, kinds), x)
                                        ELSE Said(s, kinds)
<1> DEFINE u == s \o <<x>>
<1>1. /\ u \in Seq(S) /\ Len(s) \in Nat /\ Len(u) = Len(s) + 1 /\ u[Len(u)] = x
      /\ <<x>> \in Seq(S)
  OBVIOUS
<1>2. SaidTo(u, kinds, Len(s)) = SaidTo(s, kinds, Len(s))
  <2> DEFINE t == <<x>>
  <2>1. t \in Seq(S) /\ Len(s) \in 0 .. Len(s)
    BY <1>1
  <2> HIDE DEF t
  <2>2. SaidTo(s \o t, kinds, Len(s)) = SaidTo(s, kinds, Len(s))
    BY <2>1, SaidPrefix
  <2> QED
    BY <2>2 DEF t
<1> HIDE DEF u
<1>3. Len(u) \in 1 .. Len(u) /\ Len(u) - 1 = Len(s) /\ Len(s) \in 0 .. Len(s)
  BY <1>1
<1>4. SaidTo(u, kinds, Len(u)) = IF Says(u[Len(u)], kinds)
                                 THEN Append(SaidTo(u, kinds, Len(u) - 1), u[Len(u)])
                                 ELSE SaidTo(u, kinds, Len(u) - 1)
  <2>1. ASSUME NEW k \in 1 .. Len(u)
        PROVE  SaidTo(u, kinds, k) = IF Says(u[k], kinds)
                                     THEN Append(SaidTo(u, kinds, k - 1), u[k])
                                     ELSE SaidTo(u, kinds, k - 1)
    BY <1>1, SaidStep
  <2> QED
    BY <1>3, <2>1, Zenon
<1>5. SaidTo(s, kinds, Len(s)) \in Seq(S)
  BY <1>3, SaidStep
<1> QED
  BY <1>1, <1>2, <1>3, <1>4, <1>5, SaidIsSaidTo DEF u

\* Messages of other kinds.
LEMMA SaidNoMore ==
    ASSUME NEW S, NEW s \in Seq(S), NEW t \in Seq(S), NEW kinds,
           \A k \in DOMAIN t : ~Says(t[k], kinds)
    PROVE  Said(s \o t, kinds) = Said(s, kinds)
<1> DEFINE u == s \o t
           P == {k \in Nat : k <= Len(t) => SaidTo(u, kinds, Len(s) + k) = SaidTo(s, kinds, Len(s))}
<1>1. /\ u \in Seq(S) /\ Len(s) \in Nat /\ Len(t) \in Nat /\ Len(u) = Len(s) + Len(t)
      /\ \A k \in 1 .. Len(t) : u[Len(s) + k] = t[k] /\ k \in DOMAIN t
  <2>1. Len(s) \in Nat /\ Len(t) \in Nat /\ DOMAIN t = 1 .. Len(t)
    OBVIOUS
  <2>2. /\ u \in Seq(S) /\ Len(u) = Len(s) + Len(t)
        /\ \A k \in 1 .. Len(s) + Len(t) : u[k] = IF k <= Len(s) THEN s[k] ELSE t[k - Len(s)]
    BY ConcatProperties
  <2> HIDE DEF u
  <2>3. ASSUME NEW k \in 1 .. Len(t) PROVE u[Len(s) + k] = t[k]
    <3>1. Len(s) + k \in 1 .. Len(s) + Len(t) /\ ~(Len(s) + k <= Len(s)) /\ (Len(s) + k) - Len(s) = k
      BY <2>1
    <3> QED
      BY <2>2, <3>1
  <2> QED
    BY <2>1, <2>2, <2>3
<1>2. 0 \in P
  <2>1. Len(s) \in 0 .. Len(s) /\ Len(s) + 0 = Len(s)
    BY <1>1
  <2>2. SaidTo(u, kinds, Len(s)) = SaidTo(s, kinds, Len(s))
    BY <2>1, SaidPrefix
  <2> HIDE DEF u
  <2> QED
    BY <2>1, <2>2
<1> HIDE DEF u
<1>3. ASSUME NEW k \in Nat, k \in P PROVE k + 1 \in P
  <2> SUFFICES ASSUME k + 1 <= Len(t)
               PROVE  SaidTo(u, kinds, Len(s) + (k + 1)) = SaidTo(s, kinds, Len(s))
    OBVIOUS
  <2> DEFINE j == Len(s) + (k + 1)
  <2>1. /\ j \in 1 .. Len(u) /\ j - 1 = Len(s) + k /\ k + 1 \in 1 .. Len(t)
        /\ SaidTo(u, kinds, Len(s) + k) = SaidTo(s, kinds, Len(s))
    BY <1>1, <1>3
  <2>2. ~Says(u[j], kinds)
    BY <1>1, <2>1
  <2> HIDE DEF j
  <2>3. SaidTo(u, kinds, j) = IF Says(u[j], kinds) THEN Append(SaidTo(u, kinds, j - 1), u[j])
                              ELSE SaidTo(u, kinds, j - 1)
    BY <1>1, <2>1, SaidStep
  <2> QED
    BY <2>1, <2>2, <2>3 DEF j
<1> HIDE DEF P
<1>4. \A k \in Nat : k \in P
  BY <1>2, <1>3, Induct
<1>5. SaidTo(u, kinds, Len(u)) = SaidTo(s, kinds, Len(s))
  BY <1>1, <1>4 DEF P
<1> QED
  BY <1>5, SaidIsSaidTo DEF u

LEMMA NothingSaid == \A kinds : Said(<<>>, kinds) = <<>>
<1> SUFFICES ASSUME NEW kinds PROVE Said(<<>>, kinds) = <<>>
  OBVIOUS
<1>1. <<>> \in Seq({}) /\ Len(<<>>) = 0
  OBVIOUS
<1>2. SaidTo(<<>>, kinds, 0) = <<>>
  BY <1>1, SaidStep
<1> QED
  BY <1>1, <1>2, SaidIsSaidTo

-----------------------------------------------------------------------------
(* What was printed, held or shown. *)

Stream == shown \o held

Sequence(s) == \E S : s \in Seq(S)

\* Two sequences over one set.
LEMMA CommonSet ==
    ASSUME NEW s, NEW t, Sequence(s), Sequence(t)
    PROVE  \E S : s \in Seq(S) /\ t \in Seq(S)
<1>1. PICK A, B : s \in Seq(A) /\ t \in Seq(B)
  BY DEF Sequence
<1> DEFINE S == A \cup B
<1>2. A \subseteq S /\ B \subseteq S
  OBVIOUS
<1> HIDE DEF S
<1>3. s \in Seq(S) /\ t \in Seq(S)
  BY <1>1, <1>2, SeqMonotonic
<1> QED
  BY <1>3

\* Emit prints the messages behind what was printed before.
LEMMA EmitPrints ==
    ASSUME NEW m, Sequence(shown), Sequence(held), Sequence(m), Emit(m)
    PROVE  Sequence(shown') /\ Sequence(held') /\ Stream' = Stream \o m
<1>1. PICK A : shown \in Seq(A) /\ held \in Seq(A)
  BY CommonSet
<1>2. PICK B : m \in Seq(B)
  BY DEF Sequence
<1> DEFINE S == A \cup B
<1>3. shown \in Seq(S) /\ held \in Seq(S) /\ m \in Seq(S)
  <2>1. A \subseteq S /\ B \subseteq S
    OBVIOUS
  <2> HIDE DEF S
  <2> QED
    BY <1>1, <1>2, <2>1, SeqMonotonic
<1> HIDE DEF S
<1> DEFINE ends == {k \in DOMAIN m : m[k].newline}
           last == CHOOSE k \in ends : \A n \in ends : n <= k
<1>4. CASE ends = {}
  <2>1. held' = held \o m /\ shown' = shown
    BY <1>4 DEF Emit
  <2>2. held \o m \in Seq(S) /\ (shown \o held) \o m = shown \o (held \o m)
    <3>1. held \o m \in Seq(S)
      BY <1>3, ConcatProperties
    <3>2. (shown \o held) \o m = shown \o (held \o m)
      BY <1>3, ConcatAssociative
    <3> QED
      BY <3>1, <3>2
  <2> QED
    BY <1>3, <2>1, <2>2 DEF Sequence, Stream
<1>5. CASE ends # {}
  <2>1. /\ shown' = shown \o held \o SubSeq(m, 1, last)
        /\ held' = SubSeq(m, last + 1, Len(m))
    BY <1>5 DEF Emit
  <2>2. Len(m) \in Nat /\ DOMAIN m = 1 .. Len(m) /\ \A k \in 1 .. Len(m) : m[k] \in S
    BY <1>3
  <2>3. last \in 1 .. Len(m)
    <3> DEFINE T == {Len(m) - k : k \in ends}
    <3>1. T \subseteq Nat /\ T # {}
      BY <1>5, <2>2
    <3>2. PICK x \in T : \A y \in T : x <= y
      BY <3>1, LeastElement
    <3>3. PICK k \in ends : x = Len(m) - k
      BY <3>2
    <3>4. ASSUME NEW n \in ends PROVE n <= k
      <4>1. Len(m) - k <= Len(m) - n
        BY <3>2, <3>3
      <4> QED
        BY <2>2, <4>1
    <3>5. ends \subseteq 1 .. Len(m)
      BY <2>2
    <3> HIDE DEF ends, T
    <3> QED
      BY <3>4, <3>5
  <2> HIDE DEF last
  <2> DEFINE a == SubSeq(m, 1, last)
             b == SubSeq(m, last + 1, Len(m))
             c == shown \o held
  <2>4. a \in Seq(S) /\ b \in Seq(S) /\ a \o b = m
    <3>1. a \o b = SubSeq(m, 1, Len(m)) /\ SubSeq(m, 1, Len(m)) = m
      <4>1. 1 \in 1 .. Len(m) + 1 /\ last \in 1 - 1 .. Len(m) /\ Len(m) \in last .. Len(m)
        BY <2>2, <2>3
      <4> QED
        BY <1>3, <4>1, ConcatAdjacentSubSeq, SubSeqFull
    <3>2. /\ 1 \in Int /\ last \in Int /\ last + 1 \in Int /\ Len(m) \in Int
          /\ \A k \in 1 .. last : m[k] \in S
          /\ \A k \in last + 1 .. Len(m) : m[k] \in S
      BY <2>2, <2>3
    <3> QED
      BY <3>1, <3>2, SubSeqProperties
  <2>5. c \in Seq(S)
    BY <1>3, ConcatProperties
  <2>6. Stream = c /\ shown' = c \o a /\ held' = b
    BY <2>1 DEF Stream
  <2> HIDE DEF a, b, c
  <2>7. c \o a \in Seq(S) /\ (c \o a) \o b = c \o (a \o b)
    <3>1. c \o a \in Seq(S)
      BY <2>4, <2>5, ConcatProperties
    <3>2. ASSUME NEW x \in Seq(S), NEW y \in Seq(S), NEW z \in Seq(S)
          PROVE  (x \o y) \o z = x \o (y \o z)
      BY ConcatAssociative
    <3>3. (c \o a) \o b = c \o (a \o b)
      BY <2>4, <2>5, <3>2, Zenon
    <3> QED
      BY <3>1, <3>3
  <2> QED
    BY <2>4, <2>6, <2>7 DEF Sequence, Stream
<1> QED
  BY <1>4, <1>5

-----------------------------------------------------------------------------
(* The list of modules. *)

Listing == {"module", "path", "unnamed"}

\* Messages that are no part of the list.
QuietLine(message) == message.what \notin Listing
Quiet(m) == Sequence(m) /\ \A k \in DOMAIN m : QuietLine(m[k])

LEMMA QuietLines ==
    ASSUME NEW a, NEW b, NEW c, NEW e,
           QuietLine(a), QuietLine(b), QuietLine(c), QuietLine(e)
    PROVE  Quiet(<<a>>) /\ Quiet(<<a, b>>) /\ Quiet(<<a, b, c>>) /\ Quiet(<<a, b, c, e>>)
<1> DEFINE S == {x \in {a, b, c, e} : QuietLine(x)}
<1>1. a \in S /\ b \in S /\ c \in S /\ e \in S /\ \A x \in S : QuietLine(x)
  OBVIOUS
<1> HIDE DEF S
<1>2. \A m \in Seq(S) : Quiet(m)
  <2> SUFFICES ASSUME NEW m \in Seq(S), NEW k \in DOMAIN m PROVE m[k] \in S
    BY <1>1 DEF Quiet, Sequence
  <2> QED
    OBVIOUS
<1>3. <<a>> \in Seq(S) /\ <<a, b>> \in Seq(S) /\ <<a, b, c>> \in Seq(S) /\ <<a, b, c, e>> \in Seq(S)
  BY <1>1
<1> QED
  BY <1>2, <1>3

LEMMA SaidByQuiet ==
    ASSUME NEW m, Quiet(m), NEW s, Sequence(s), NEW kinds, kinds \subseteq Listing
    PROVE  Said(s \o m, kinds) = Said(s, kinds)
<1>1. PICK S : s \in Seq(S) /\ m \in Seq(S)
  BY CommonSet DEF Quiet
<1>2. \A k \in DOMAIN m : ~Says(m[k], kinds)
  BY DEF Quiet, QuietLine, Says
<1> QED
  BY <1>1, <1>2, SaidNoMore

\* Quiet messages change nothing about the list.
LEMMA EmitQuiet ==
    ASSUME NEW m, Quiet(m), Emit(m), Sequence(shown), Sequence(held), given' = given
    PROVE  /\ Sequence(shown') /\ Sequence(held')
           /\ \A n : Listed(Stream, n) => Listed(Stream, n)'
<1>1. Sequence(shown') /\ Sequence(held') /\ Stream' = Stream \o m
  BY EmitPrints DEF Quiet
<1>2. Sequence(Stream)
  BY CommonSet, ConcatProperties DEF Stream, Sequence
<1>3. /\ Said(Stream', {"module"}) = Said(Stream, {"module"})
      /\ Said(Stream', {"path", "unnamed"}) = Said(Stream, {"path", "unnamed"})
  BY <1>1, <1>2, SaidByQuiet DEF Listing
<1>4. ASSUME NEW n, Listed(Stream, n) PROVE Listed(Stream, n)'
  BY <1>3, <1>4 DEF Listed
<1> QED
  BY <1>1, <1>4

\* One message more, at the end of what was printed.
LEMMA SaidAtEnd ==
    ASSUME NEW s, Sequence(s), NEW x, NEW kinds
    PROVE  /\ Sequence(s \o <<x>>)
           /\ Said(s \o <<x>>, kinds) = IF Says(x, kinds) THEN Append(Said(s, kinds), x)
                                        ELSE Said(s, kinds)
           /\ Sequence(Said(s, kinds))
<1>1. PICK A : s \in Seq(A)
  BY DEF Sequence
<1> DEFINE S == A \cup {x}
<1>2. A \subseteq S /\ x \in S
  OBVIOUS
<1> HIDE DEF S
<1>3. s \in Seq(S)
  BY <1>1, <1>2, SeqMonotonic
<1>4. <<x>> \in Seq(S)
  BY <1>2
<1>5. s \o <<x>> \in Seq(S)
  BY <1>3, <1>4, ConcatProperties
<1> QED
  BY <1>2, <1>3, <1>5, SaidMore DEF Sequence

LEMMA Pair ==
    ASSUME NEW a, NEW b
    PROVE  <<a>> \o <<b>> = <<a, b>>
<1> DEFINE S == {a, b}
<1>1. <<a>> \in Seq(S) /\ <<b>> \in Seq(S) /\ <<a, b>> \in Seq(S)
  OBVIOUS
<1>2. /\ Len(<<a>>) = 1 /\ Len(<<b>>) = 1 /\ Len(<<a, b>>) = 2
      /\ <<a>>[1] = a /\ <<b>>[1] = b /\ <<a, b>>[1] = a /\ <<a, b>>[2] = b
  OBVIOUS
<1> HIDE DEF S
<1>3. /\ <<a>> \o <<b>> \in Seq(S) /\ Len(<<a>> \o <<b>>) = 2
      /\ (<<a>> \o <<b>>)[1] = a /\ (<<a>> \o <<b>>)[2] = b
  BY <1>1, <1>2, ConcatProperties
<1>4. \A k \in 1 .. 2 : k = 1 \/ k = 2
  OBVIOUS
<1> QED
  BY <1>1, <1>2, <1>3, <1>4, SeqEqual

\* The two messages of a module put it on the list.
LEMMA EmitModule ==
    ASSUME NEW head, NEW name, Emit(<<head, name>>), Sequence(shown), Sequence(held),
           given' = given, NEW n \in Nat, Listed(Stream, n),
           head.what = "module", head.value = <<n + 1>>, NEW path, path = given.modules[1][n + 1],
           name.what = IF path = Null THEN "unnamed" ELSE "path",
           path # Null => IsBaseName(name.value, path)
    PROVE  Sequence(shown') /\ Sequence(held') /\ Listed(Stream, n + 1)'
<1> DEFINE K == {"module"}
           L == {"path", "unnamed"}
           one == Stream \o <<head>>
           two == one \o <<name>>
<1>1. Sequence(Stream)
  BY CommonSet, ConcatProperties DEF Stream, Sequence
<1>2. Sequence(<<head, name>>)
  <2>1. <<head, name>> \in Seq({head, name})
    OBVIOUS
  <2> QED
    BY <2>1 DEF Sequence
<1>3. Sequence(shown') /\ Sequence(held') /\ Stream' = Stream \o <<head, name>>
  BY <1>2, EmitPrints
<1>4. Stream \o <<head, name>> = two
  <2>1. PICK A : Stream \in Seq(A)
    BY <1>1 DEF Sequence
  <2> DEFINE S == A \cup {head, name}
  <2>2. A \subseteq S /\ <<head>> \in Seq(S) /\ <<name>> \in Seq(S)
    OBVIOUS
  <2>3. <<head>> \o <<name>> = <<head, name>>
    BY Pair
  <2> HIDE DEF S
  <2>4. Stream \in Seq(S)
    BY <2>1, <2>2, SeqMonotonic
  <2>5. (Stream \o <<head>>) \o <<name>> = Stream \o (<<head>> \o <<name>>)
    BY <2>2, <2>4, ConcatAssociative
  <2> QED
    BY <2>3, <2>5
<1>5. Says(head, K) /\ ~Says(head, L) /\ ~Says(name, K) /\ Says(name, L)
  BY DEF Says
<1>6. Sequence(one)
  BY <1>1, SaidAtEnd
<1>7. /\ Said(two, K) = Append(Said(Stream, K), head)
      /\ Said(two, L) = Append(Said(Stream, L), name)
      /\ Sequence(Said(Stream, K)) /\ Sequence(Said(Stream, L))
  <2>1. /\ Said(one, K) = Append(Said(Stream, K), head) /\ Said(one, L) = Said(Stream, L)
        /\ Sequence(Said(Stream, K)) /\ Sequence(Said(Stream, L))
    BY <1>1, <1>5, SaidAtEnd
  <2> HIDE DEF one
  <2>2. Said(two, K) = Said(one, K) /\ Said(two, L) = Append(Said(one, L), name)
    BY <1>5, <1>6, SaidAtEnd
  <2> QED
    BY <2>1, <2>2
<1>8. /\ Said(Stream', K) = Append(Said(Stream, K), head)
      /\ Said(Stream', L) = Append(Said(Stream, L), name)
  BY <1>3, <1>4, <1>7
<1> HIDE DEF one, two
<1> DEFINE heads == Said(Stream, K)
           names == Said(Stream, L)
<1>9. /\ Len(heads) = n /\ Len(names) = n
      /\ \A k \in 1 .. n :
            /\ heads[k].value = <<k>>
            /\ names[k].what = IF given.modules[1][k] = Null THEN "unnamed" ELSE "path"
            /\ given.modules[1][k] # Null => IsBaseName(names[k].value, given.modules[1][k])
  BY DEF Listed
<1>10. Sequence(heads) /\ Sequence(names)
  BY <1>7
<1> HIDE DEF heads, names
<1>11. ASSUME NEW s, Sequence(s), Len(s) = n, NEW x
       PROVE  /\ Len(Append(s, x)) = n + 1 /\ Append(s, x)[n + 1] = x
              /\ \A k \in 1 .. n : Append(s, x)[k] = s[k]
  <2>1. PICK A : s \in Seq(A)
    BY <1>11 DEF Sequence
  <2>2. s \in Seq(A \cup {x}) /\ x \in A \cup {x}
    BY <2>1, SeqMonotonic
  <2> QED
    BY <1>11, <2>2, AppendProperties
<1>12. /\ Len(Append(heads, head)) = n + 1 /\ Append(heads, head)[n + 1] = head
       /\ \A k \in 1 .. n : Append(heads, head)[k] = heads[k]
  BY <1>9, <1>10, <1>11
<1>13. /\ Len(Append(names, name)) = n + 1 /\ Append(names, name)[n + 1] = name
       /\ \A k \in 1 .. n : Append(names, name)[k] = names[k]
  BY <1>9, <1>10, <1>11
<1>14. ASSUME NEW k \in 1 .. n + 1
       PROVE  LET p == given.modules[1][k] IN
              /\ Append(heads, head)[k].value = <<k>>
              /\ Append(names, name)[k].what = IF p = Null THEN "unnamed" ELSE "path"
              /\ p # Null => IsBaseName(Append(names, name)[k].value, p)
  <2>1. CASE k \in 1 .. n
    BY <1>9, <1>12, <1>13, <2>1
  <2>2. CASE k = n + 1
    BY <1>12, <1>13, <2>2
  <2>3. k \in 1 .. n \/ k = n + 1
    OBVIOUS
  <2> QED
    BY <2>1, <2>2, <2>3
<1>15. Listed(Stream, n + 1)'
  <2>1. /\ Said(Stream', {"module"}) = Append(heads, head)
        /\ Said(Stream', {"path", "unnamed"}) = Append(names, name)
    BY <1>8 DEF heads, names
  <2>2. ASSUME NEW k \in 1 .. n + 1
        PROVE  LET p == given'.modules[1][k] IN
               /\ Said(Stream', {"module"})[k].value = <<k>>
               /\ Said(Stream', {"path", "unnamed"})[k].what = IF p = Null THEN "unnamed" ELSE "path"
               /\ p # Null => IsBaseName(Said(Stream', {"path", "unnamed"})[k].value, p)
    BY <1>14, <2>1, Zenon
  <2>3. /\ Len(Said(Stream', {"module"})) = n + 1
        /\ Len(Said(Stream', {"path", "unnamed"})) = n + 1
    BY <1>12, <1>13, <2>1
  <2> QED
    BY <2>2, <2>3, Zenon DEF Listed
<1> QED
  BY <1>3, <1>15

\* The list before the first module.
LEMMA ListedNone == Init => Listed(Stream, 0) /\ Sequence(shown) /\ Sequence(held)
<1> SUFFICES ASSUME Init PROVE Listed(Stream, 0) /\ Sequence(shown) /\ Sequence(held)
  OBVIOUS
<1>1. shown = <<>> /\ held = <<>> /\ Stream = <<>>
  BY DEF Init, Stream
<1>2. Len(<<>>) = 0 /\ <<>> \in Seq({}) /\ 1 .. 0 = {}
  OBVIOUS
<1> QED
  BY <1>1, <1>2, NothingSaid DEF Listed, Sequence

-----------------------------------------------------------------------------
(* The name of a module. *)

\* The m-th place behind a, up to b.
LEMMA PlaceBehind ==
    ASSUME NEW a \in Nat, NEW b \in Nat, NEW m \in Nat, 1 <= m, m <= b - a
    PROVE  (a + 1) + m - 1 \in a + 1 .. b
OBVIOUS

LEMMA NameHoldsNoSlash ==
    ASSUME NEW S, NEW path \in Seq(S)
    PROVE  IsBaseName(BaseName(path), path)
<1> DEFINE N == Len(path)
           D == 0 .. N
           Turn(k, v) == IF path[k] = "/" THEN k ELSE v
           Eq(f) == f = [k \in D |-> IF k = 0 THEN 0
                                     ELSE IF path[k] = "/" THEN k ELSE f[k - 1]]
           G == [kv \in D \X D |-> Turn(kv[1], kv[2])]
           n == CHOOSE f : Eq(f)
<1>1. N \in Nat /\ \A k \in 1 .. N : k \in D /\ k - 1 \in D /\ k # 0
  OBVIOUS
<1>2. PICK f \in [D -> D] : f[0] = 0 /\ \A k \in 1 .. N : f[k] = G[<<k, f[k - 1]>>]
  <2>1. \A k \in 1 .. N, v \in D : G[<<k, v>>] \in D
    BY <1>1
  <2> HIDE DEF G
  <2>2. Loop(N, D, 0, G)
    BY <1>1, <2>1 DEF Loop
  <2> HIDE DEF N, D
  <2>3. \E f \in [0 .. N -> D] : f[0] = 0 /\ \A k \in 1 .. N : f[k] = G[<<k, f[k - 1]>>]
    BY <2>2, Iteration
  <2> QED
    BY <2>3 DEF D
<1>3. ASSUME NEW k \in D PROVE f[k] = IF k = 0 THEN 0 ELSE Turn(k, f[k - 1])
  <2>1. CASE k = 0
    BY <1>2, <2>1
  <2>2. CASE k # 0
    <3>1. k \in 1 .. N /\ k - 1 \in D
      BY <1>1, <2>2
    <3>2. f[k - 1] \in D /\ k \in D
      BY <1>2, <3>1
    <3>3. f[k] = G[<<k, f[k - 1]>>] /\ G[<<k, f[k - 1]>>] = Turn(k, f[k - 1])
      BY <1>2, <3>1, <3>2
    <3> QED
      BY <2>2, <3>3
  <2> QED
    BY <2>1, <2>2
<1>4. Eq(f)
  <2>1. f = [k \in D |-> f[k]]
    BY <1>2
  <2> HIDE DEF D
  <2> QED
    BY <1>3, <2>1
<1>5. Eq(n)
  <2> HIDE DEF Eq
  <2> QED
    BY <1>4
<1>6. BaseName(path) = SubSeq(path, n[N] + 1, N)
  BY DEF BaseName
<1> HIDE DEF n
<1>7. n[0] = 0 /\ \A k \in 1 .. N : n[k] = Turn(k, n[k - 1])
  <2>1. 0 \in D /\ \A k \in 1 .. N : k \in D /\ k # 0
    BY <1>1
  <2>2. \A k \in D : n[k] = IF k = 0 THEN 0 ELSE Turn(k, n[k - 1])
    BY <1>5
  <2> HIDE DEF D, Turn
  <2> QED
    BY <2>1, <2>2
<1> DEFINE Last(k, v) == /\ v \in 0 .. k
                         /\ v > 0 => path[v] = "/"
                         /\ \A m \in v + 1 .. k : path[m] # "/"
<1>8. Last(N, n[N])
  <2> DEFINE P == {k \in Nat : k <= N => Last(k, n[k])}
  <2>1. 0 \in P
    BY <1>7
  <2>2. ASSUME NEW k \in Nat, k \in P PROVE k + 1 \in P
    <3> SUFFICES ASSUME k + 1 <= N PROVE Last(k + 1, n[k + 1])
      OBVIOUS
    <3>1. k + 1 \in 1 .. N /\ Last(k, n[k]) /\ (k + 1) - 1 = k
      BY <1>1, <2>2
    <3>2. n[k + 1] = IF path[k + 1] = "/" THEN k + 1 ELSE n[k]
      BY <1>7, <3>1
    <3>3. CASE path[k + 1] = "/"
      BY <3>2, <3>3
    <3>4. CASE path[k + 1] # "/"
      <4>1. n[k + 1] = n[k]
        BY <3>2, <3>4
      <4>2. \A m \in n[k] + 1 .. k + 1 : m = k + 1 \/ m \in n[k] + 1 .. k
        BY <3>1
      <4> QED
        BY <3>1, <3>4, <4>1, <4>2
    <3> QED
      BY <3>3, <3>4
  <2> HIDE DEF P
  <2>3. \A k \in Nat : k \in P
    BY <2>1, <2>2, Induct
  <2> HIDE DEF Last
  <2> QED
    BY <1>1, <2>3 DEF P
<1> DEFINE v == n[N]
           name == SubSeq(path, v + 1, N)
<1>9. v \in 0 .. N /\ (v > 0 => path[v] = "/") /\ \A m \in v + 1 .. N : path[m] # "/"
  BY <1>8
<1> HIDE DEF v
<1>10. \A m \in DOMAIN name : name[m] # "/"
  <2>1. \A k \in v + 1 .. N : path[k] \in S
    BY <1>1, <1>9
  <2>2. v + 1 \in Int /\ N \in Int
    BY <1>1, <1>9
  <2>3. name \in Seq(S) /\ \A m \in 1 .. N - (v + 1) + 1 : name[m] = path[(v + 1) + m - 1]
    BY <2>1, <2>2, SubSeqProperties
  <2>4. Len(name) = IF v + 1 <= N THEN N - (v + 1) + 1 ELSE 0
    BY <2>1, <2>2, SubSeqProperties
  <2>5. DOMAIN name = 1 .. Len(name)
    BY <2>3
  <2> HIDE DEF name, N
  <2> SUFFICES ASSUME NEW m \in DOMAIN name PROVE name[m] # "/"
    OBVIOUS
  <2>6. v + 1 <= N /\ m \in 1 .. N - v
    BY <1>1, <1>9, <2>4, <2>5
  <2>7. N - (v + 1) + 1 = N - v /\ (v + 1) + m - 1 \in v + 1 .. N
    <3>1. v \in Nat /\ N \in Nat
      BY <1>1, <1>9
    <3>2. m \in Nat /\ 1 <= m /\ m <= N - v
      BY <2>6, <3>1
    <3>3. N - (v + 1) + 1 = N - v
      BY <3>1
    <3>4. (v + 1) + m - 1 \in v + 1 .. N
      BY <3>1, <3>2, PlaceBehind
    <3> QED
      BY <3>3, <3>4
  <2> QED
    BY <1>9, <2>3, <2>6, <2>7
<1> QED
  BY <1>6, <1>9, <1>10 DEF IsBaseName, v

-----------------------------------------------------------------------------
(* The list, from the first function to the halt. *)

BeforeList ==
    {"tty_init", "screen_init halts", "tty_init_devices", "tty_init logs", "title",
     "bootloader", "framebuffer", "memory", "entries", "kernel_address", "acpi", "modules"}

\* While the list is printed, it is complete up to the module the loop stands at; before,
\* nothing that is printed belongs to it, and the index the loops share is 1 again.
ListInv ==
    /\ given \in Machines
    /\ Sequence(shown) /\ Sequence(held)
    /\ pc \in BeforeList => Listed(Stream, 0)
    /\ pc \in BeforeList \ {"entries"} => i = 1
    /\ pc = "module" =>
          /\ Has(given.modules)
          /\ i \in 1 .. Len(given.modules[1]) + 1
          /\ Listed(Stream, i - 1)
    /\ pc \in {"icon", "halt", "halted", "returned"} /\ Has(given.modules) =>
          Listed(Stream, Len(given.modules[1]))

\* What is handed to Emit but for the modules.
LEMMA QuietStep ==
    ASSUME [Next]_vars, ~ModuleEntry
    PROVE  UNCHANGED output \/ \E m : Quiet(m) /\ Emit(m)
<1> DEFINE kinds == {"tty initialized", "tty devices", "rule", "version", "bootloader",
                    "framebuffer", "resolution", "bpp", "memory", "total", "usable",
                    "kernel address", "physical", "virtual", "acpi", "rsdp", "modules",
                    "no modules", "count"}
<1>1. ASSUME NEW what \in kinds, NEW value PROVE QuietLine(Line(what, value))
  <2>1. Line(what, value).what = what
    BY DEF Line
  <2>2. what \notin Listing
    BY DEF Listing
  <2> HIDE DEF kinds
  <2> QED
    BY <2>1, <2>2 DEF QuietLine
<1>2. QuietLine(Blank) /\ \A name : QuietLine(NameLine("name", name))
  BY DEF Blank, Line, NameLine, QuietLine, Listing
<1>3. \A value :
        /\ QuietLine(Line("tty initialized", value))
        /\ QuietLine(Line("tty devices", value))
        /\ QuietLine(Line("rule", value))
        /\ QuietLine(Line("version", value))
        /\ QuietLine(Line("bootloader", value))
        /\ QuietLine(Line("framebuffer", value))
        /\ QuietLine(Line("resolution", value))
        /\ QuietLine(Line("bpp", value))
        /\ QuietLine(Line("memory", value))
        /\ QuietLine(Line("total", value))
        /\ QuietLine(Line("usable", value))
        /\ QuietLine(Line("kernel address", value))
        /\ QuietLine(Line("physical", value))
        /\ QuietLine(Line("virtual", value))
        /\ QuietLine(Line("acpi", value))
        /\ QuietLine(Line("rsdp", value))
        /\ QuietLine(Line("modules", value))
        /\ QuietLine(Line("no modules", value))
        /\ QuietLine(Line("count", value))
  <2>1. /\ "tty initialized" \in kinds /\ "tty devices" \in kinds /\ "rule" \in kinds
        /\ "version" \in kinds /\ "bootloader" \in kinds /\ "framebuffer" \in kinds
        /\ "resolution" \in kinds /\ "bpp" \in kinds /\ "memory" \in kinds
        /\ "total" \in kinds /\ "usable" \in kinds /\ "kernel address" \in kinds
        /\ "physical" \in kinds /\ "virtual" \in kinds /\ "acpi" \in kinds
        /\ "rsdp" \in kinds /\ "modules" \in kinds /\ "no modules" \in kinds
        /\ "count" \in kinds
    OBVIOUS
  <2> HIDE DEF kinds
  <2> QED
    BY <1>1, <2>1, Zenon
<1> HIDE DEF kinds
<1>4. CASE TtyInit \/ TtyInitDevices \/ WakeInScreenInit \/ MemoryEntry \/ DisplayASCIIIcon \/ Halt
           \/ WakeAfterHalt
  BY <1>4 DEF TtyInit, TtyInitDevices, WakeInScreenInit, MemoryEntry, DisplayASCIIIcon, Halt,
              WakeAfterHalt
<1>5. CASE TtyInitLogs
  <2>1. QuietLine(Part("tty initialized", <<>>))
    BY DEF Part, QuietLine, Listing
  <2> QED
    BY <1>2, <1>3, <1>5, <2>1, QuietLines DEF TtyInitLogs
<1>6. CASE DisplayTitle
  BY <1>2, <1>3, <1>6, QuietLines DEF DisplayTitle
<1>7. CASE DisplayBootloaderInfo
  <2>1. CASE Has(given.bootloader)
    <3> DEFINE info == given.bootloader[1]
               one == Line("bootloader", <<>>)
               name == NameLine("name", info.name)
               version == NameLine("name", info.version)
               lines == <<one>> \o (IF info.name # Null THEN <<name>> ELSE <<>>)
                                \o (IF info.version # Null THEN <<version>> ELSE <<>>) \o <<Blank>>
    <3>1. Emit(lines)
      BY <1>7, <2>1 DEF DisplayBootloaderInfo
    <3> DEFINE S == {x \in {one, name, version, Blank} : QuietLine(x)}
    <3>2. one \in S /\ name \in S /\ version \in S /\ Blank \in S
      BY <1>2, <1>3
    <3>3. lines \in Seq(S)
      <4> DEFINE two == IF info.name # Null THEN <<name>> ELSE <<>>
                 three == IF info.version # Null THEN <<version>> ELSE <<>>
      <4> HIDE DEF S, info, one, name, version
      <4>1. <<one>> \in Seq(S) /\ two \in Seq(S) /\ three \in Seq(S) /\ <<Blank>> \in Seq(S)
        BY <3>2
      <4> HIDE DEF two, three
      <4>2. <<one>> \o two \in Seq(S)
        BY <4>1, ConcatProperties
      <4>3. (<<one>> \o two) \o three \in Seq(S)
        BY <4>1, <4>2, ConcatProperties
      <4>4. ((<<one>> \o two) \o three) \o <<Blank>> \in Seq(S)
        BY <4>1, <4>3, ConcatProperties
      <4> QED
        BY <4>4 DEF two, three
    <3>4. Quiet(lines)
      <4>1. \A x \in S : QuietLine(x)
        OBVIOUS
      <4> HIDE DEF S, lines
      <4>2. \A k \in DOMAIN lines : lines[k] \in S
        BY <3>3
      <4> QED
        BY <3>3, <4>1, <4>2 DEF Quiet, Sequence
    <3> QED
      BY <3>1, <3>4
  <2>2. CASE ~Has(given.bootloader)
    BY <1>7, <2>2 DEF DisplayBootloaderInfo
  <2> QED
    BY <2>1, <2>2
<1>8. CASE DisplayFramebufferInfo
  BY <1>2, <1>3, <1>8, QuietLines DEF DisplayFramebufferInfo
<1>9. CASE DisplayMemoryInfo
  BY <1>2, <1>3, <1>9, QuietLines DEF DisplayMemoryInfo
<1>10. CASE MemoryTotals
  BY <1>2, <1>3, <1>10, QuietLines DEF MemoryTotals
<1>11. CASE DisplayKernelAddressInfo
  BY <1>2, <1>3, <1>11, QuietLines DEF DisplayKernelAddressInfo
<1>12. CASE DisplayAcpiInfo
  BY <1>2, <1>3, <1>12, QuietLines DEF DisplayAcpiInfo
<1>13. CASE DisplayModuleInfo
  BY <1>2, <1>3, <1>13, QuietLines DEF DisplayModuleInfo
<1>14. CASE ModulesEnd
  BY <1>2, <1>3, <1>14, QuietLines DEF ModulesEnd
<1>15. CASE Stopped \/ UNCHANGED vars
  BY <1>15 DEF Stopped, vars
<1> QED
  BY <1>4, <1>5, <1>6, <1>7, <1>8, <1>9, <1>10, <1>11, <1>12, <1>13, <1>14, <1>15
     DEF Next, Main

\* Where kernel_main goes, and what becomes of the index.
LEMMA ListMoves ==
    ASSUME [Next]_vars, ~ModuleEntry
    PROVE  /\ given' = given
           /\ pc' \in BeforeList => pc \in BeforeList
           /\ pc' \in BeforeList \ {"entries"} => i' = 1 \/ (pc \in BeforeList \ {"entries"} /\ i' = i)
           /\ pc' = "module" =>
                 \/ pc = "module" /\ i' = i
                 \/ pc = "modules" /\ i' = i /\ Has(given.modules)
           /\ pc' \in {"icon", "halt", "halted", "returned"} =>
                 \/ pc \in {"icon", "halt", "halted", "returned"}
                 \/ pc = "module" /\ i > Len(given.modules[1])
                 \/ pc = "modules" /\ (Has(given.modules) => given.modules[1] = <<>>)
<1> USE DEF Goto, Fault, machine, BeforeList, AfterModules
<1>1. CASE TtyInit \/ TtyInitDevices \/ WakeInScreenInit \/ TtyInitLogs
  BY <1>1 DEF TtyInit, TtyInitDevices, WakeInScreenInit, TtyInitLogs
<1>2. CASE DisplayTitle \/ DisplayBootloaderInfo \/ DisplayFramebufferInfo
  BY <1>2 DEF DisplayTitle, DisplayBootloaderInfo, DisplayFramebufferInfo
<1>3. CASE DisplayMemoryInfo \/ MemoryEntry \/ MemoryTotals
  BY <1>3 DEF DisplayMemoryInfo, MemoryEntry, MemoryTotals
<1>4. CASE DisplayKernelAddressInfo \/ DisplayAcpiInfo
  BY <1>4 DEF DisplayKernelAddressInfo, DisplayAcpiInfo
<1>5. CASE DisplayModuleInfo
  BY <1>5 DEF DisplayModuleInfo
<1>6. CASE ModulesEnd
  BY <1>6 DEF ModulesEnd
<1>7. CASE DisplayASCIIIcon \/ Halt \/ WakeAfterHalt
  BY <1>7 DEF DisplayASCIIIcon, Halt, WakeAfterHalt
<1>8. CASE Stopped \/ UNCHANGED vars
  BY <1>8 DEF Stopped, vars
<1> QED
  BY <1>1, <1>2, <1>3, <1>4, <1>5, <1>6, <1>7, <1>8 DEF Next, Main

LEMMA ListNext == ListInv /\ [Next]_vars => ListInv'
<1> SUFFICES ASSUME ListInv, [Next]_vars PROVE ListInv'
  OBVIOUS
<1>1. given \in Machines /\ Sequence(shown) /\ Sequence(held)
  BY DEF ListInv
<1>2. Has(given.modules) => Len(given.modules[1]) \in Nat
  BY <1>1, MachinesAssumption DEF MachineOK
<1>3. CASE ModuleEntry
  <2> DEFINE path == given.modules[1][i]
             head == Part("module", <<i>>)
             name == IF path = Null THEN Line("unnamed", <<>>) ELSE NameLine("path", BaseName(path))
  <2>1. /\ pc = "module" /\ i <= Len(given.modules[1]) /\ Emit(<<head, name>>) /\ i' = i + 1
        /\ given' = given /\ pc' = pc
    BY <1>3 DEF ModuleEntry, machine
  <2>2. /\ Has(given.modules) /\ i \in 1 .. Len(given.modules[1]) /\ Listed(Stream, i - 1)
        /\ Len(given.modules[1]) \in Nat
    BY <1>2, <2>1 DEF ListInv
  <2>3. PICK n \in Nat : n + 1 = i /\ n = i - 1
    <3>1. i - 1 \in Nat /\ (i - 1) + 1 = i
      BY <2>2
    <3> QED
      BY <3>1
  <2>4. head.what = "module" /\ head.value = <<n + 1>>
    BY <2>3 DEF Part
  <2>5. name.what = IF path = Null THEN "unnamed" ELSE "path"
    BY DEF Line, NameLine
  <2>6. path # Null => IsBaseName(name.value, path)
    <3> SUFFICES ASSUME path # Null PROVE IsBaseName(name.value, path)
      OBVIOUS
    <3>1. given.modules[1] \in Seq(Text)
      BY <1>1, <2>2, MachinesAssumption DEF MachineOK
    <3>2. path \in Text
      BY <2>2, <3>1
    <3>3. path \in Seq({"a", "/", "long"})
      BY <3>2 DEF Text
    <3>4. name.value = BaseName(path)
      BY DEF NameLine
    <3> HIDE DEF path, name
    <3> QED
      BY <3>3, <3>4, NameHoldsNoSlash
  <2>7. path = given.modules[1][n + 1] /\ Listed(Stream, n)
    BY <2>2, <2>3
  <2> HIDE DEF path, head, name
  <2>8. Sequence(shown') /\ Sequence(held') /\ Listed(Stream, n + 1)'
    BY <1>1, <2>1, <2>3, <2>4, <2>5, <2>6, <2>7, EmitModule
  <2>9. Listed(Stream, i - 1)'
    <3>1. n + 1 = i' - 1
      BY <2>1, <2>2, <2>3
    <3> QED
      BY <2>8, <3>1 DEF Listed
  <2> QED
    BY <1>1, <2>1, <2>2, <2>8, <2>9 DEF ListInv, BeforeList
<1>4. CASE ~ModuleEntry
  <2>1. given' = given
    BY <1>4, ListMoves
  <2>2. /\ Sequence(shown') /\ Sequence(held')
        /\ \A n : Listed(Stream, n) => Listed(Stream, n)'
    <3>1. CASE UNCHANGED output
      BY <1>1, <2>1, <3>1 DEF output, Stream, Listed, Sequence
    <3>2. CASE \E m : Quiet(m) /\ Emit(m)
      BY <1>1, <2>1, <3>2, EmitQuiet
    <3> QED
      BY <1>4, <3>1, <3>2, QuietStep
  <2>3. pc' \in BeforeList => Listed(Stream, 0)'
    BY <1>4, <2>2, ListMoves DEF ListInv
  <2>4. pc' \in BeforeList \ {"entries"} => i' = 1
    BY <1>4, ListMoves DEF ListInv
  <2>5. pc' = "module" =>
          /\ Has(given'.modules)
          /\ i' \in 1 .. Len(given'.modules[1]) + 1
          /\ Listed(Stream, i - 1)'
    <3> SUFFICES ASSUME pc' = "module"
                 PROVE  /\ Has(given.modules) /\ i \in 1 .. Len(given.modules[1]) + 1 /\ i' = i
                        /\ Listed(Stream, i - 1)
      BY <2>1, <2>2 DEF Listed
    <3>1. i' = i /\ (pc = "module" \/ (pc = "modules" /\ Has(given.modules)))
      BY <1>4, ListMoves
    <3>2. CASE pc = "module"
      BY <3>1, <3>2 DEF ListInv
    <3>3. CASE pc = "modules" /\ Has(given.modules)
      <4>1. i = 1 /\ Listed(Stream, 0)
        BY <3>3 DEF ListInv, BeforeList
      <4>2. i - 1 = 0 /\ i \in 1 .. Len(given.modules[1]) + 1
        BY <1>2, <3>3, <4>1
      <4> QED
        BY <3>1, <3>3, <4>1, <4>2
    <3> QED
      BY <3>1, <3>2, <3>3
  <2>6. pc' \in {"icon", "halt", "halted", "returned"} /\ Has(given'.modules) =>
          Listed(Stream, Len(given.modules[1]))'
    <3> SUFFICES ASSUME pc' \in {"icon", "halt", "halted", "returned"}, Has(given.modules)
                 PROVE  Listed(Stream, Len(given.modules[1]))
      BY <2>1, <2>2 DEF Listed
    <3>1. CASE pc \in {"icon", "halt", "halted", "returned"}
      BY <3>1 DEF ListInv
    <3>2. CASE pc = "module" /\ i > Len(given.modules[1])
      <4>1. i \in 1 .. Len(given.modules[1]) + 1 /\ Listed(Stream, i - 1)
        BY <3>2 DEF ListInv
      <4>2. i - 1 = Len(given.modules[1])
        BY <1>2, <3>2, <4>1
      <4> QED
        BY <4>1, <4>2
    <3>3. CASE pc = "modules" /\ given.modules[1] = <<>>
      <4>1. Listed(Stream, 0)
        BY <3>3 DEF ListInv, BeforeList
      <4>2. Len(<<>>) = 0
        OBVIOUS
      <4> QED
        BY <3>3, <4>1, <4>2
    <3> QED
      BY <1>4, <3>1, <3>2, <3>3, ListMoves
  <2> QED
    BY <1>1, <2>1, <2>2, <2>3, <2>4, <2>5, <2>6 DEF ListInv
<1> QED
  BY <1>3, <1>4

\* When the kernel halts, every module is listed, in order, by its number and the part
\* of its path behind the last slash (main.c:142-163).
THEOREM ListIsComplete == Spec => []ModulesAreListed
<1>1. Init => ListInv
  <2> SUFFICES ASSUME Init PROVE ListInv
    OBVIOUS
  <2>1. pc = "tty_init" /\ i = 1 /\ given \in Machines
    BY DEF Init
  <2>2. Listed(Stream, 0) /\ Sequence(shown) /\ Sequence(held)
    BY ListedNone
  <2> QED
    BY <2>1, <2>2 DEF ListInv
<1>2. ListInv /\ NothingHeldAtHalt => ModulesAreListed
  <2> SUFFICES ASSUME ListInv, NothingHeldAtHalt, pc = "halted", Has(given.modules)
               PROVE  Listed(shown, Len(given.modules[1]))
    BY DEF ModulesAreListed
  <2>1. held = <<>> /\ Listed(Stream, Len(given.modules[1])) /\ Sequence(shown)
    BY DEF NothingHeldAtHalt, ListInv
  <2>2. shown \o <<>> = shown
    BY <2>1, ConcatEmptySeq DEF Sequence
  <2> QED
    BY <2>1, <2>2 DEF Stream
<1> QED
  BY <1>1, <1>2, ListNext, HaltsWithEmptyRing, PTL DEF Spec
=============================================================================
