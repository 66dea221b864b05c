--------------------------- MODULE TtyRingProofs ---------------------------
(***************************************************************************)
(* Proofs about TtyRing, for every ring size, number of devices, set of    *)
(* callers, set of messages and number of calls: its invariants, then that *)
(* it shows on every device what TtyConsole promises.                      *)
(***************************************************************************)
EXTENDS TtyRing, Induction, SequenceTheorems, TLAPS

USE SizeAssumption, DevicesAssumption, CharAssumption, MessagesAssumption, MaxCallsAssumption

-----------------------------------------------------------------------------
(* The index arithmetic of the ring. *)

\* Taking the index modulo the size is wrapping it to 0 at the end of the ring
\* (tty.c:104, 151).
LEMMA SuccWraps ==
    ASSUME NEW i \in Slots
    PROVE  Succ(i) = IF i + 1 = Size THEN 0 ELSE i + 1
<1>1. i \in Nat /\ i < Size  BY DEF Slots
<1>2. CASE i + 1 = Size
  <2>1. Size % Size = 0  BY SMT
  <2> QED  BY <1>2, <2>1 DEF Succ
<1>3. CASE i + 1 # Size
  <2>1. i + 1 \in 0 .. Size - 1  BY <1>1, <1>3
  <2>2. (i + 1) % Size = i + 1  BY <2>1
  <2> QED  BY <1>3, <2>2 DEF Succ
<1> QED  BY <1>2, <1>3

LEMMA SuccInSlots ==
    ASSUME NEW i \in Slots
    PROVE  Succ(i) \in Slots
BY SuccWraps DEF Slots

\* The number of characters in the ring is at most its size.
LEMMA UsedBounded == TypeOK => Used \in 0 .. Size
BY DEF TypeOK, Slots, Used

-----------------------------------------------------------------------------
(* Type correctness. *)

LEMMA TypeInit == Init => TypeOK
<1> SUFFICES ASSUME Init PROVE TypeOK  OBVIOUS
<1>1. 0 \in Slots  BY DEF Slots
<1> QED  BY <1>1 DEF Init, TypeOK, Devices, PcStates

LEMMA TypeBegin ==
    ASSUME TypeOK, NEW c \in Callers, NEW what \in {"put", "flush", "usage"},
           NEW m \in Seq(Char), Begin(c, what, m)
    PROVE  TypeOK'
<1>1. calls' \in 0 .. MaxCalls  BY DEF TypeOK, Begin
<1> QED  BY <1>1 DEF TypeOK, Begin, ring, devices, history, PcStates

LEMMA TypeCall ==
    ASSUME TypeOK, NEW c \in Callers, Call(c)
    PROVE  TypeOK'
<1>0. <<>> \in Seq(Char) /\ \A ch \in Char : <<ch>> \in Seq(Char)  OBVIOUS
<1>1. CASE Putc(c)  BY <1>0, <1>1, TypeBegin DEF Putc
<1>2. CASE Write(c)  BY <1>2, TypeBegin DEF Write
<1>3. CASE Puts(c)  BY <1>3, TypeBegin DEF Puts
<1>4. CASE Flush(c)  BY <1>0, <1>4, TypeBegin DEF Flush
<1>5. CASE BufferUsage(c)  BY <1>0, <1>5, TypeBegin DEF BufferUsage
<1> QED  BY <1>1, <1>2, <1>3, <1>4, <1>5 DEF Call

LEMMA TypeStep ==
    ASSUME TypeOK, NEW c \in Callers, Step(c)
    PROVE  TypeOK'
<1> USE DEF TypeOK, PcStates, ring, devices, locals, history
<1>1. CASE Acquire(c)  BY <1>1 DEF Acquire
<1>2. CASE Release(c)  BY <1>2 DEF Release
<1>3. CASE ReadUsage(c)  BY <1>3, UsedBounded DEF ReadUsage
<1>4. CASE PutFull(c)  BY <1>4 DEF PutFull
<1>5. CASE PutChar(c)
  <2>1. Head(rest[c]) \in Char /\ Tail(rest[c]) \in Seq(Char)
    BY <1>5, HeadTailProperties DEF PutChar
  <2>2. Succ(head) \in Slots  BY SuccInSlots
  <2>3. Append(accepted, Head(rest[c])) \in Seq(Char)  BY <2>1, AppendProperties
  <2> QED  BY <1>5, <2>1, <2>2, <2>3 DEF PutChar
<1>6. CASE PutDone(c)  BY <1>6 DEF PutDone
<1>7. CASE FlushNothing(c)  BY <1>7 DEF FlushNothing
<1>8. CASE FlushBegin(c)  BY <1>8, UsedBounded DEF FlushBegin
<1>9. CASE SerialPut(c)
  <2>0. dev[c] \in Ports  BY <1>9 DEF SerialPut
  <2>1. dev[c] \in Devices /\ dev[c] + 1 \in 0 .. MaxSerialDevs + 1
    BY ONLY <2>0, DevicesAssumption DEF Ports, Devices
  <2>2. Append(out[dev[c]], data[tail]) \in Seq(Char)  BY <2>1, AppendProperties
  <2> QED  BY <1>9, <2>1, <2>2 DEF SerialPut
<1>10. CASE ScreenPut(c)
  <2>0. dev[c] = Screen  BY <1>10 DEF ScreenPut
  <2>1. Screen \in Devices /\ dev[c] + 1 \in 0 .. MaxSerialDevs + 1
    BY ONLY <2>0, DevicesAssumption DEF Screen, Devices
  <2>2. Append(out[Screen], data[tail]) \in Seq(Char)  BY <2>1, AppendProperties
  <2> QED  BY <1>10, <2>1, <2>2 DEF ScreenPut
<1>11. CASE Advance(c)
  <2>1. Succ(tail) \in Slots  BY SuccInSlots
  <2>2. left[c] - 1 \in 0 .. Size  BY <1>11 DEF Advance
  <2> QED  BY <1>11, <2>1, <2>2 DEF Advance
<1>12. CASE FlushEnd(c)  BY <1>12 DEF FlushEnd
<1> QED
  BY <1>1, <1>2, <1>3, <1>4, <1>5, <1>6, <1>7, <1>8, <1>9, <1>10, <1>11, <1>12 DEF Step

LEMMA TypeNext == TypeOK /\ [Next]_vars => TypeOK'
<1> SUFFICES ASSUME TypeOK, [Next]_vars PROVE TypeOK'  OBVIOUS
<1>1. CASE \E c \in Callers : Call(c) \/ Step(c)  BY <1>1, TypeCall, TypeStep
<1>2. CASE Halted \/ UNCHANGED vars
  BY <1>2 DEF Halted, vars, TypeOK, ring, devices, locals, history
<1> QED  BY <1>1, <1>2 DEF Next

\* The variables of the console keep their types: no index leaves the ring and
\* no flush counts more characters than fit in it (tty.c:44-50, 98-155).
THEOREM TypeCorrect == Spec => []TypeOK
BY TypeInit, TypeNext, PTL DEF Spec

-----------------------------------------------------------------------------
(* Mutual exclusion. *)

\* Where the steps of a caller that is inside a call and has the lock lead.
LEMMA HolderMoves ==
    ASSUME TypeOK, NEW c \in Callers, Step(c), ~Acquire(c), ~Release(c)
    PROVE  /\ Holds(c) /\ tty_lock' = tty_lock
           /\ \E w \in {"put", "flush", "emit", "release"} : pc' = [pc EXCEPT ![c] = w]
<1> USE DEF TypeOK, Holds
<1>0. pc = [pc EXCEPT ![c] = pc[c]]  OBVIOUS
<1>1. CASE ReadUsage(c)  BY <1>1 DEF ReadUsage
<1>2. CASE PutFull(c)  BY <1>2 DEF PutFull
<1>3. CASE PutChar(c)  BY <1>3 DEF PutChar
<1>4. CASE PutDone(c)  BY <1>4 DEF PutDone
<1>5. CASE FlushNothing(c)  BY <1>5 DEF FlushNothing
<1>6. CASE FlushBegin(c)  BY <1>6 DEF FlushBegin
<1>7. CASE SerialPut(c)  BY <1>0, <1>7 DEF SerialPut
<1>8. CASE ScreenPut(c)  BY <1>0, <1>8 DEF ScreenPut
<1>9. CASE Advance(c)  BY <1>0, <1>9 DEF Advance
<1>10. CASE FlushEnd(c)  BY <1>10 DEF FlushEnd
<1> QED  BY <1>1, <1>2, <1>3, <1>4, <1>5, <1>6, <1>7, <1>8, <1>9, <1>10 DEF Step

LEMMA LockNext == TypeOK /\ LockGuardsRing /\ [Next]_vars => LockGuardsRing'
<1> SUFFICES ASSUME TypeOK, LockGuardsRing, [Next]_vars PROVE LockGuardsRing'  OBVIOUS
<1> USE DEF TypeOK, LockGuardsRing, Holds
<1>1. CASE \E c \in Callers : Call(c)
  <2> PICK c \in Callers : Call(c)  BY <1>1
  <2>1. pc[c] = "idle" /\ pc' = [pc EXCEPT ![c] = "acquire"] /\ tty_lock' = tty_lock
    BY DEF Call, Putc, Write, Puts, Flush, BufferUsage, Begin
  <2> QED  BY <2>1
<1>2. CASE \E c \in Callers : Step(c)
  <2> PICK c \in Callers : Step(c)  BY <1>2
  <2>1. CASE Acquire(c)
    <3>1. CASE tty_lock = 0
      <4>1. pc' = [pc EXCEPT ![c] = op[c]] /\ tty_lock' = 1  BY <2>1, <3>1 DEF Acquire
      <4>2. \A d \in Callers : ~Holds(d)  BY <3>1
      <4>3. \A d \in Callers : Holds(d)' <=> d = c  BY <4>1, <4>2
      <4> QED  BY <4>1, <4>3
    <3>2. CASE tty_lock # 0
      <4>1. pc' = pc /\ tty_lock' = tty_lock  BY <2>1, <3>2 DEF Acquire
      <4> QED  BY <4>1
    <3> QED  BY <3>1, <3>2
  <2>2. CASE Release(c)
    <3>1. Holds(c) /\ pc' = [pc EXCEPT ![c] = "idle"] /\ tty_lock' = 0  BY <2>2 DEF Release
    <3>2. \A d \in Callers : Holds(d) => d = c  BY <3>1
    <3>3. \A d \in Callers : pc'[d] = IF d = c THEN "idle" ELSE pc[d]  BY <3>1
    <3>4. \A d \in Callers : ~Holds(d)'  BY <3>2, <3>3
    <3> QED  BY <3>1, <3>4
  <2>3. CASE ~Acquire(c) /\ ~Release(c)
    <3>1. Holds(c) /\ tty_lock' = tty_lock  BY <2>3, HolderMoves
    <3>2. PICK w \in {"put", "flush", "emit", "release"} : pc' = [pc EXCEPT ![c] = w]
      BY <2>3, HolderMoves
    <3>3. \A d \in Callers : Holds(d)' <=> Holds(d)  BY <3>1, <3>2
    <3> QED  BY <3>1, <3>3
  <2> QED  BY <2>1, <2>2, <2>3
<1>3. CASE Halted \/ UNCHANGED vars  BY <1>3 DEF Halted, vars
<1> QED  BY <1>1, <1>2, <1>3 DEF Next

\* The spinlock excludes: the lock word is 1 exactly while a caller is between
\* tty_lock_acquire and tty_lock_release, and it is the only one (tty.c:64-72).
THEOREM MutualExclusion == Spec => []LockGuardsRing
<1>1. Init => LockGuardsRing  BY DEF Init, LockGuardsRing, Holds
<1> QED  BY <1>1, LockNext, TypeCorrect, PTL DEF Spec

-----------------------------------------------------------------------------
(* The ring is a queue. *)

\* Two facts are inductive only together: what the ring holds, and that the
\* count of a flush in progress is what is left to flush.
RingInv == RingHoldsPending /\ FlushDrainsRing

\* Outside of a flush loop, the count made from head, tail and buffer_full is
\* the number of characters waiting.
LEMMA UsedIsPending ==
    ASSUME TypeOK, RingHoldsPending, ~Draining
    PROVE  Used = Pending
<1>1. Pending \in 0 .. Size /\ head = Slot(Pending) /\ (buffer_full <=> Pending = Size)
  BY DEF RingHoldsPending
<1>2. Pending \in Int /\ Size \in Nat \ {0} /\ tail \in 0 .. Size - 1  BY <1>1 DEF TypeOK, Slots
<1>3. CASE tail + Pending < Size  BY <1>1, <1>2, <1>3 DEF Used, Slot
<1>4. CASE tail + Pending >= Size  BY <1>1, <1>2, <1>4 DEF Used, Slot
<1> QED  BY <1>2, <1>3, <1>4

\* A caller that takes a step inside a call, other than on the spinlock, is the
\* only one inside.
LEMMA OnlyHolder ==
    ASSUME TypeOK, LockGuardsRing, NEW c \in Callers, Holds(c)
    PROVE  /\ \A d \in Callers : Holds(d) => d = c
           /\ Draining <=> pc[c] = "emit"
<1>1. \A d \in Callers : Holds(d) => d = c  BY DEF LockGuardsRing
<1> QED  BY <1>1 DEF Draining, Holds

\* Steps that touch neither the ring nor the stream and enter or leave no flush
\* loop.
LEMMA RingFrame ==
    ASSUME RingInv, UNCHANGED <<ring, accepted, flushed, left>>,
           \A c \in Callers : (pc[c] = "emit")' <=> pc[c] = "emit"
    PROVE  RingInv'
<1>1. Draining' <=> Draining  BY DEF Draining
<1>2. UNCHANGED <<data, head, tail, buffer_full, accepted, flushed, left>>  BY DEF ring
<1>3. Pending' = Pending /\ \A i : Slot(i)' = Slot(i)  BY <1>2 DEF Pending, Slot
<1>4. RingHoldsPending'  BY <1>1, <1>2, <1>3 DEF RingInv, RingHoldsPending
<1>5. FlushDrainsRing'  BY <1>2, <1>3 DEF RingInv, FlushDrainsRing
<1> QED  BY <1>4, <1>5 DEF RingInv

\* Storing a character in a ring that is not full appends it to the queue.
LEMMA RingPutChar ==
    ASSUME TypeOK, LockGuardsRing, RingInv, NEW c \in Callers, PutChar(c)
    PROVE  RingInv'
<1> DEFINE ch == Head(rest[c])
<1>1. Holds(c) /\ pc[c] = "put" /\ ~buffer_full  BY DEF PutChar, Holds
<1>2. ~Draining /\ \A d \in Callers : pc[d] # "emit"  BY <1>1, OnlyHolder DEF Draining
<1>3. Pending \in 0 .. Size - 1 /\ head = Slot(Pending)
  BY <1>1, <1>2 DEF RingInv, RingHoldsPending
<1>4. /\ tail \in 0 .. Size - 1 /\ Size \in Nat \ {0} /\ flushed \in Nat
      /\ accepted \in Seq(Char) /\ Len(accepted) \in Nat
      /\ Len(accepted) = flushed + Pending
  BY DEF TypeOK, Slots, Pending
<1>5. ch \in Char  BY HeadTailProperties DEF PutChar, TypeOK
<1>6. /\ accepted' = Append(accepted, ch) /\ flushed' = flushed /\ tail' = tail
      /\ data' = [data EXCEPT ![head] = ch] /\ head' = Succ(head)
      /\ left' = left
  BY DEF PutChar
<1>7. Len(accepted') = Len(accepted) + 1 /\ accepted'[Len(accepted) + 1] = ch
      /\ \A k \in 1 .. Len(accepted) : accepted'[k] = accepted[k]
  BY <1>4, <1>5, <1>6, AppendProperties
<1>8. Pending' = Pending + 1  BY <1>3, <1>4, <1>6, <1>7 DEF Pending
<1>9. \A i : Slot(i)' = Slot(i)  BY <1>6 DEF Slot
<1>10. head' = Slot(Pending + 1)
  BY <1>3, <1>4, <1>6, SuccWraps DEF TypeOK, Slot
<1>11. \A i \in 0 .. Pending : data'[Slot(i)] = accepted'[flushed + 1 + i]
  <2> TAKE i \in 0 .. Pending
  <2>1. CASE i = Pending
    <3>1. head \in Slots /\ data \in [Slots -> Char]  BY DEF TypeOK
    <3>2. data'[Slot(i)] = ch  BY <1>3, <1>6, <2>1, <3>1
    <3> QED  BY <1>4, <1>7, <2>1, <3>2
  <2>2. CASE i # Pending
    <3>1. i \in 0 .. Pending - 1  BY <1>3, <2>2
    <3>2. Slot(i) \in Slots /\ Slot(i) # head  BY <1>3, <1>4, <3>1 DEF Slot, Slots
    <3>3. data'[Slot(i)] = data[Slot(i)]  BY <1>6, <3>2 DEF TypeOK
    <3>4. data[Slot(i)] = accepted[flushed + 1 + i]
      BY <3>1 DEF RingInv, RingHoldsPending
    <3>5. flushed + 1 + i \in 1 .. Len(accepted)  BY <1>3, <1>4, <3>1
    <3> QED  BY <1>7, <3>3, <3>4, <3>5
  <2> QED  BY <2>1, <2>2
<1>12. buffer_full' <=> Pending + 1 = Size
  <2>1. head' = tail <=> Pending + 1 = Size  BY <1>3, <1>4, <1>10 DEF Slot
  <2>2. buffer_full' <=> head' = tail  BY DEF PutChar
  <2> QED  BY <2>1, <2>2
<1>13. \A d \in Callers : (pc[d] # "emit")'  BY <1>2 DEF PutChar, TypeOK
<1>14. RingHoldsPending'
  BY <1>3, <1>4, <1>6, <1>8, <1>9, <1>10, <1>11, <1>12 DEF RingHoldsPending
<1>15. FlushDrainsRing'  BY <1>13 DEF FlushDrainsRing
<1> QED  BY <1>14, <1>15 DEF RingInv

\* The end of a turn of the flush loop removes the oldest character.
LEMMA RingAdvance ==
    ASSUME TypeOK, LockGuardsRing, RingInv, NEW c \in Callers, Advance(c)
    PROVE  RingInv'
<1>1. Holds(c) /\ pc[c] = "emit" /\ left[c] > 0  BY DEF Advance, Holds
<1>2. \A d \in Callers : pc[d] = "emit" => d = c
  BY <1>1, OnlyHolder DEF Holds
<1>3. left[c] = Pending /\ Pending \in 1 .. Size
  BY <1>1 DEF RingInv, RingHoldsPending, FlushDrainsRing
<1>4. /\ tail \in 0 .. Size - 1 /\ Size \in Nat \ {0} /\ flushed \in Nat
      /\ Len(accepted) \in Nat /\ Len(accepted) = flushed + Pending
  BY DEF TypeOK, Slots, Pending
<1>5. /\ accepted' = accepted /\ flushed' = flushed + 1 /\ tail' = Succ(tail)
      /\ data' = data /\ head' = head /\ buffer_full' = buffer_full
      /\ left' = [left EXCEPT ![c] = left[c] - 1] /\ pc' = pc
  BY DEF Advance
<1>6. Pending' = Pending - 1  BY <1>3, <1>4, <1>5 DEF Pending
<1>7. \A i \in 0 .. Size - 1 : Slot(i)' = Slot(i + 1)
  <2>1. tail' = IF tail + 1 = Size THEN 0 ELSE tail + 1  BY <1>5, SuccWraps DEF TypeOK
  <2> QED  BY <1>4, <2>1 DEF Slot
<1>8. head' = Slot(Pending)' /\ Pending' \in 0 .. Size - 1
  <2>1. PICK k \in 0 .. Size - 1 : k = Pending - 1  BY <1>3
  <2>2. Slot(k)' = Slot(k + 1)  BY <1>7
  <2>3. k + 1 = Pending /\ k = Pending'  BY <1>3, <1>6, <2>1
  <2> QED  BY <1>5, <2>2, <2>3 DEF RingInv, RingHoldsPending
<1>9. \A i \in 0 .. Pending - 2 : data'[Slot(i)'] = accepted'[flushed' + 1 + i]
  <2> TAKE i \in 0 .. Pending - 2
  <2>1. i + 1 \in 0 .. Pending - 1 /\ i \in 0 .. Size - 1  BY <1>3
  <2>2. Slot(i)' = Slot(i + 1)  BY <1>7, <2>1
  <2>3. data[Slot(i + 1)] = accepted[flushed + 1 + (i + 1)]
    BY <2>1 DEF RingInv, RingHoldsPending
  <2>4. flushed' + 1 + i = flushed + 1 + (i + 1)  BY <1>4, <1>5, <2>1
  <2> QED  BY <1>5, <2>2, <2>3, <2>4
<1>10. Draining'  BY <1>1, <1>5 DEF Draining
<1>11. RingHoldsPending'
  BY <1>3, <1>4, <1>6, <1>8, <1>9, <1>10 DEF RingHoldsPending
<1>12. FlushDrainsRing'
  BY <1>2, <1>3, <1>5, <1>6 DEF FlushDrainsRing, TypeOK
<1> QED  BY <1>11, <1>12 DEF RingInv

\* The count made at the start of a flush is the number of characters waiting.
LEMMA RingFlushBegin ==
    ASSUME TypeOK, LockGuardsRing, RingInv, NEW c \in Callers, FlushBegin(c)
    PROVE  RingInv'
<1>1. Holds(c) /\ pc[c] = "flush"  BY DEF FlushBegin, Holds
<1>2. ~Draining /\ \A d \in Callers : pc[d] # "emit"  BY <1>1, OnlyHolder DEF Draining
<1>3. Used = Pending  BY <1>2, UsedIsPending DEF RingInv
<1>4. /\ UNCHANGED <<data, head, tail, buffer_full, accepted, flushed>>
      /\ left' = [left EXCEPT ![c] = Used] /\ pc' = [pc EXCEPT ![c] = "emit"]
  BY DEF FlushBegin, ring, history
<1>5. Pending' = Pending /\ \A i : Slot(i)' = Slot(i)  BY <1>4 DEF Pending, Slot
<1>6. Draining'  BY <1>4 DEF Draining, TypeOK
<1>7. RingHoldsPending'  BY <1>4, <1>5, <1>6 DEF RingInv, RingHoldsPending
<1>8. FlushDrainsRing'  BY <1>2, <1>3, <1>4, <1>5 DEF FlushDrainsRing, TypeOK
<1> QED  BY <1>7, <1>8 DEF RingInv

\* When the flush loop is through the ring is empty, and buffer_full = FALSE
\* says so again.
LEMMA RingFlushEnd ==
    ASSUME TypeOK, LockGuardsRing, RingInv, NEW c \in Callers, FlushEnd(c)
    PROVE  RingInv'
<1>1. Holds(c) /\ pc[c] = "emit" /\ left[c] = 0  BY DEF FlushEnd, Holds
<1>2. \A d \in Callers : pc[d] = "emit" => d = c  BY <1>1, OnlyHolder DEF Holds
<1>3. Pending = 0  BY <1>1 DEF RingInv, FlushDrainsRing
<1>4. /\ UNCHANGED <<data, head, tail, accepted, flushed>> /\ ~buffer_full'
      /\ pc' = [pc EXCEPT ![c] = "put"]
  BY DEF FlushEnd, history
<1>5. Pending' = Pending /\ \A i : Slot(i)' = Slot(i)  BY <1>4 DEF Pending, Slot
<1>6. Pending # Size  BY <1>3
<1>7. RingHoldsPending'  BY <1>3, <1>4, <1>5, <1>6 DEF RingInv, RingHoldsPending
<1>8. FlushDrainsRing'  BY <1>2, <1>4 DEF FlushDrainsRing, TypeOK
<1> QED  BY <1>7, <1>8 DEF RingInv

LEMMA RingNext == TypeOK /\ LockGuardsRing /\ RingInv /\ [Next]_vars => RingInv'
<1> SUFFICES ASSUME TypeOK, LockGuardsRing, RingInv, [Next]_vars PROVE RingInv'  OBVIOUS
<1>1. pc \in [Callers -> PcStates] /\ op \in [Callers -> {"put", "flush", "usage"}]
  BY DEF TypeOK
<1>2. CASE \E c \in Callers : Call(c)
  <2> PICK c \in Callers : Call(c)  BY <1>2
  <2>1. /\ pc[c] = "idle" /\ pc' = [pc EXCEPT ![c] = "acquire"]
        /\ UNCHANGED <<ring, accepted, flushed, left>>
    BY DEF Call, Putc, Write, Puts, Flush, BufferUsage, Begin, history
  <2> QED  BY <1>1, <2>1, RingFrame
<1>3. CASE \E c \in Callers : Step(c)
  <2> PICK c \in Callers : Step(c)  BY <1>3
  <2>1. CASE Acquire(c)
    <3>1. /\ pc[c] = "acquire" /\ pc' \in {pc, [pc EXCEPT ![c] = op[c]]}
          /\ UNCHANGED <<ring, accepted, flushed, left>>
      BY <2>1 DEF Acquire, locals, history
    <3> QED  BY <1>1, <3>1, RingFrame
  <2>2. CASE Release(c) \/ ReadUsage(c) \/ PutFull(c) \/ PutDone(c) \/ FlushNothing(c)
    <3>1. /\ pc[c] # "emit" /\ \E w \in PcStates \ {"emit"} : pc' = [pc EXCEPT ![c] = w]
          /\ UNCHANGED <<ring, accepted, flushed, left>>
      BY <2>2 DEF Release, ReadUsage, PutFull, PutDone, FlushNothing, locals, history, PcStates
    <3> QED  BY <1>1, <3>1, RingFrame
  <2>3. CASE SerialPut(c) \/ ScreenPut(c)
    <3>1. UNCHANGED <<pc, ring, accepted, flushed, left>>
      BY <2>3 DEF SerialPut, ScreenPut
    <3> QED  BY <3>1, RingFrame
  <2>4. CASE PutChar(c)  BY <2>4, RingPutChar
  <2>5. CASE FlushBegin(c)  BY <2>5, RingFlushBegin
  <2>6. CASE Advance(c)  BY <2>6, RingAdvance
  <2>7. CASE FlushEnd(c)  BY <2>7, RingFlushEnd
  <2> QED  BY <2>1, <2>2, <2>3, <2>4, <2>5, <2>6, <2>7 DEF Step
<1>4. CASE Halted \/ UNCHANGED vars
  <2>1. UNCHANGED <<pc, ring, accepted, flushed, left>>
    BY <1>4 DEF Halted, vars, locals, history
  <2> QED  BY <2>1, RingFrame
<1> QED  BY <1>2, <1>3, <1>4 DEF Next

LEMMA RingInit == Init => RingInv
<1> SUFFICES ASSUME Init PROVE RingInv  OBVIOUS
<1>1. Pending = 0 /\ ~Draining /\ head = 0 /\ tail = 0 /\ ~buffer_full
  BY DEF Init, Pending, Draining
<1> QED  BY <1>1 DEF Init, RingInv, RingHoldsPending, FlushDrainsRing, Slot

\* For every size, the ring is a faithful queue: nothing that waits is
\* overwritten or read twice, and head = tail is read as full or empty as it is
\* (tty.c:98-155).
THEOREM RingIsQueue == Spec => []RingHoldsPending
<1>1. RingInv => RingHoldsPending  BY DEF RingInv
<1> QED  BY <1>1, RingInit, RingNext, TypeCorrect, MutualExclusion, PTL DEF Spec

\* Every flush hands over exactly the characters that wait (tty.c:127-154).
THEOREM FlushIsExact == Spec => []FlushDrainsRing
<1>1. RingInv => FlushDrainsRing  BY DEF RingInv
<1> QED  BY <1>1, RingInit, RingNext, TypeCorrect, MutualExclusion, PTL DEF Spec

\* A flush that finds nothing to do, or has come to its end, leaves nothing.
LEMMA FlushLeavesNothing ==
    ASSUME TypeOK, LockGuardsRing, RingInv, NEW c \in Callers,
           FlushNothing(c) \/ FlushEnd(c)
    PROVE  Pending = 0 /\ Pending' = 0
<1>1. UNCHANGED <<accepted, flushed>>  BY DEF FlushNothing, FlushEnd, history
<1>2. Pending' = Pending  BY <1>1 DEF Pending
<1>3. CASE FlushNothing(c)
  <2>1. Holds(c) /\ pc[c] # "emit" /\ ~buffer_full /\ head = tail
    BY <1>3 DEF FlushNothing, Holds
  <2>2. Used = Pending  BY <2>1, OnlyHolder, UsedIsPending DEF RingInv
  <2>3. tail \in Nat  BY DEF TypeOK, Slots
  <2>4. Used = 0  BY <2>1, <2>3 DEF Used
  <2> QED  BY <1>2, <2>2, <2>4
<1>4. CASE FlushEnd(c)
  <2>1. pc[c] = "emit" /\ left[c] = 0  BY <1>4 DEF FlushEnd
  <2> QED  BY <1>2, <2>1 DEF RingInv, FlushDrainsRing
<1> QED  BY <1>3, <1>4

-----------------------------------------------------------------------------
(* Lines. *)

\* NoNewlineHeldBack made inductive: also while a caller has the lock, no
\* newline waits unless a flush is due or in progress.
LineInv ==
    (\A c \in Callers : pc[c] \notin {"flush", "emit"}) =>
        \A i \in flushed + 1 .. Len(accepted) : accepted[i] # NL

LEMMA LineFrame ==
    ASSUME LineInv, UNCHANGED <<accepted, flushed>>,
           \A c \in Callers : pc[c] \in {"flush", "emit"} => pc'[c] \in {"flush", "emit"}
    PROVE  LineInv'
BY DEF LineInv

LEMMA LinePutChar ==
    ASSUME TypeOK, LockGuardsRing, LineInv, NEW c \in Callers, PutChar(c)
    PROVE  LineInv'
<1> DEFINE ch == Head(rest[c])
<1>1. Holds(c) /\ pc[c] = "put"  BY DEF PutChar, Holds
<1>2. \A d \in Callers : pc[d] \notin {"flush", "emit"}
  BY <1>1, OnlyHolder DEF Holds
<1>3. ch \in Char  BY HeadTailProperties DEF PutChar, TypeOK
<1>4. accepted' = Append(accepted, ch) /\ flushed' = flushed
      /\ (ch = NL => pc' = [pc EXCEPT ![c] = "flush"])
  BY DEF PutChar, flush_on_newline
<1>5. accepted \in Seq(Char) /\ flushed \in Nat /\ Len(accepted) \in Nat  BY DEF TypeOK
<1>6. CASE ch = NL
  <2>1. pc'[c] = "flush"  BY <1>4, <1>6 DEF TypeOK
  <2> QED  BY <2>1 DEF LineInv
<1>7. CASE ch # NL
  <2>1. \A i \in flushed + 1 .. Len(accepted) : accepted[i] # NL  BY <1>2 DEF LineInv
  <2>2. \A i \in flushed + 1 .. Len(accepted) + 1 : accepted'[i] # NL
    BY <1>3, <1>4, <1>5, <1>7, <2>1, AppendProperties
  <2>3. Len(accepted') = Len(accepted) + 1  BY <1>3, <1>4, <1>5, AppendProperties
  <2> QED  BY <1>4, <2>2, <2>3 DEF LineInv
<1> QED  BY <1>6, <1>7

LEMMA LineNext ==
    TypeOK /\ LockGuardsRing /\ RingInv /\ LineInv /\ [Next]_vars => LineInv'
<1> SUFFICES ASSUME TypeOK, LockGuardsRing, RingInv, LineInv, [Next]_vars
             PROVE  LineInv'
  OBVIOUS
<1>1. pc \in [Callers -> PcStates] /\ op \in [Callers -> {"put", "flush", "usage"}]
  BY DEF TypeOK
<1>2. CASE \E c \in Callers : Call(c)
  <2> PICK c \in Callers : Call(c)  BY <1>2
  <2>1. /\ pc[c] = "idle" /\ pc' = [pc EXCEPT ![c] = "acquire"]
        /\ UNCHANGED <<accepted, flushed>>
    BY DEF Call, Putc, Write, Puts, Flush, BufferUsage, Begin, history
  <2> QED  BY <1>1, <2>1, LineFrame
<1>3. CASE \E c \in Callers : Step(c)
  <2> PICK c \in Callers : Step(c)  BY <1>3
  <2>1. CASE Acquire(c)
    <3>1. /\ pc[c] = "acquire" /\ pc' \in {pc, [pc EXCEPT ![c] = op[c]]}
          /\ UNCHANGED <<accepted, flushed>>
      BY <2>1 DEF Acquire, history
    <3> QED  BY <1>1, <3>1, LineFrame
  <2>2. CASE Release(c) \/ ReadUsage(c) \/ PutFull(c) \/ PutDone(c) \/ FlushBegin(c)
    <3>1. /\ UNCHANGED <<accepted, flushed>>
          /\ \/ pc[c] \notin {"flush", "emit"} /\ \E w : pc' = [pc EXCEPT ![c] = w]
             \/ pc' = [pc EXCEPT ![c] = "emit"]
      BY <2>2 DEF Release, ReadUsage, PutFull, PutDone, FlushBegin, history
    <3> QED  BY <1>1, <3>1, LineFrame
  <2>3. CASE SerialPut(c) \/ ScreenPut(c)
    <3>1. UNCHANGED <<pc, accepted, flushed>>  BY <2>3 DEF SerialPut, ScreenPut
    <3> QED  BY <3>1, LineFrame
  <2>4. CASE PutChar(c)  BY <2>4, LinePutChar
  <2>5. CASE Advance(c)
    <3>1. pc[c] = "emit" /\ pc' = pc  BY <2>5 DEF Advance
    <3> QED  BY <3>1 DEF LineInv
  <2>6. CASE FlushNothing(c) \/ FlushEnd(c)
    <3>1. Pending = 0 /\ UNCHANGED <<accepted, flushed>>
      BY <2>6, FlushLeavesNothing DEF FlushNothing, FlushEnd, history
    <3>2. flushed \in Nat /\ Len(accepted) \in Nat  BY DEF TypeOK
    <3>3. flushed + 1 > Len(accepted)  BY <3>1, <3>2 DEF Pending
    <3>4. \A i \in flushed + 1 .. Len(accepted) : accepted[i] # NL  BY <3>2, <3>3
    <3> QED  BY <3>1, <3>4 DEF LineInv
  <2> QED  BY <2>1, <2>2, <2>3, <2>4, <2>5, <2>6 DEF Step
<1>4. CASE Halted \/ UNCHANGED vars
  <2>1. UNCHANGED <<pc, accepted, flushed>>  BY <1>4 DEF Halted, vars, history
  <2> QED  BY <2>1, LineFrame
<1> QED  BY <1>2, <1>3, <1>4 DEF Next

LEMMA LineInvariant == Spec => []LineInv
<1>1. Init => LineInv  BY DEF Init, LineInv
<1> QED  BY <1>1, LineNext, RingInit, RingNext, TypeCorrect, MutualExclusion, PTL DEF Spec

\* A complete line is never left waiting in the ring by a call that has ended
\* (tty.c:108-110).
THEOREM LinesAreShown == Spec => []NoNewlineHeldBack
<1>1. TypeOK /\ LockGuardsRing /\ LineInv => NoNewlineHeldBack
  <2> SUFFICES ASSUME LockGuardsRing, LineInv, tty_lock = 0
               PROVE  \A i \in flushed + 1 .. Len(accepted) : accepted[i] # NL
    BY DEF NoNewlineHeldBack
  <2>0. tty_lock # 1  OBVIOUS
  <2>1. \A c \in Callers : ~Holds(c)  BY <2>0, Zenon DEF LockGuardsRing
  <2>2. \A c \in Callers : pc[c] \notin {"flush", "emit"}  BY <2>1 DEF Holds
  <2> QED  BY <2>2 DEF LineInv
<1> QED
  BY <1>1, LineInvariant, TypeCorrect, MutualExclusion, PTL

-----------------------------------------------------------------------------
(* What tty_flush and tty_buffer_usage report. *)

\* UsageIsPending and FlushReachesDevices made inductive: each kind of call
\* visits its own places only, and keeps no message unless it prints one.
CallInv(c) ==
    /\ op[c] # "put" => rest[c] = <<>>
    /\ op[c] = "usage" => pc[c] \in {"idle", "acquire", "usage", "release"}
    /\ op[c] # "usage" => pc[c] # "usage"
    /\ op[c] = "usage" /\ pc[c] = "release" => usage[c] = Pending
    /\ op[c] = "flush" /\ pc[c] \in {"put", "release"} => Pending = 0

\* The calls of the callers that do not have the lock see no change.
LEMMA CallFrame ==
    ASSUME NEW c \in Callers, CallInv(c), ~Holds(c),
           op'[c] = op[c], rest'[c] = rest[c], pc'[c] = pc[c]
    PROVE  CallInv(c)'
BY DEF CallInv, Holds

LEMMA CallBegin ==
    ASSUME TypeOK, NEW c \in Callers, NEW d \in Callers, CallInv(d), Call(c)
    PROVE  CallInv(d)'
<1>1. PICK w \in {"put", "flush", "usage"}, m \in Seq(Char) \cup {<<>>} :
        Begin(c, w, m) /\ (w # "put" => m = <<>>)
  <2>1. \A ch \in Char : <<ch>> \in Seq(Char)  OBVIOUS
  <2> QED  BY <2>1 DEF Call, Putc, Write, Puts, Flush, BufferUsage
<1>2. /\ pc' = [pc EXCEPT ![c] = "acquire"] /\ op' = [op EXCEPT ![c] = w]
      /\ rest' = [rest EXCEPT ![c] = m]
      /\ UNCHANGED <<usage, accepted, flushed>>
  BY <1>1 DEF Begin, history
<1>3. Pending' = Pending  BY <1>2 DEF Pending
<1> QED  BY <1>1, <1>2, <1>3 DEF CallInv, TypeOK

LEMMA CallStep ==
    ASSUME TypeOK, LockGuardsRing, RingInv, NEW c \in Callers, CallInv(c), Step(c)
    PROVE  CallInv(c)'
<1> USE DEF TypeOK
<1>1. CASE Acquire(c)
  <2>1. /\ pc[c] = "acquire" /\ pc' \in {pc, [pc EXCEPT ![c] = op[c]]}
        /\ UNCHANGED <<op, rest, usage, accepted, flushed>>
    BY <1>1 DEF Acquire, locals, history
  <2>2. CASE op[c] = "put"  BY <2>1, <2>2 DEF CallInv
  <2>3. CASE op[c] = "flush"  BY <2>1, <2>3 DEF CallInv
  <2>4. CASE op[c] = "usage"  BY <2>1, <2>4 DEF CallInv
  <2> QED  BY <2>2, <2>3, <2>4
<1>2. CASE Release(c)
  BY <1>2 DEF Release, CallInv, locals, history
<1>3. CASE ReadUsage(c)
  <2>1. Holds(c) /\ pc[c] = "usage"  BY <1>3 DEF ReadUsage, Holds
  <2>2. Used = Pending  BY <2>1, OnlyHolder, UsedIsPending DEF RingInv
  <2>3. /\ usage' = [usage EXCEPT ![c] = Used] /\ pc' = [pc EXCEPT ![c] = "release"]
        /\ UNCHANGED <<op, rest, accepted, flushed>>
    BY <1>3 DEF ReadUsage, history
  <2>4. Pending' = Pending  BY <2>3 DEF Pending
  <2> QED  BY <2>1, <2>2, <2>3, <2>4 DEF CallInv
<1>4. CASE PutFull(c)
  <2>1. /\ pc[c] = "put" /\ pc' = [pc EXCEPT ![c] = "flush"] /\ op' = op /\ rest' = rest
    BY <1>4 DEF PutFull, locals
  <2> QED  BY <2>1 DEF CallInv
<1>5. CASE PutChar(c)
  <2>1. /\ pc[c] = "put" /\ rest[c] # <<>> /\ op' = op
        /\ \E w \in {"put", "flush"} : pc' = [pc EXCEPT ![c] = w]
    BY <1>5 DEF PutChar
  <2>2. op[c] = "put"  BY <2>1 DEF CallInv
  <2> QED  BY <2>1, <2>2 DEF CallInv
<1>6. CASE PutDone(c)
  <2>1. /\ pc[c] = "put" /\ pc' = [pc EXCEPT ![c] = "release"]
        /\ UNCHANGED <<op, rest, accepted, flushed>>
    BY <1>6 DEF PutDone, locals, history
  <2>2. Pending' = Pending  BY <2>1 DEF Pending
  <2> QED  BY <2>1, <2>2 DEF CallInv
<1>7. CASE FlushNothing(c) \/ FlushEnd(c)
  <2>1. Pending' = 0  BY <1>7, FlushLeavesNothing
  <2>2. /\ pc[c] \in {"flush", "emit"} /\ pc' = [pc EXCEPT ![c] = "put"]
        /\ op' = op /\ rest' = rest
    BY <1>7 DEF FlushNothing, FlushEnd, locals
  <2> QED  BY <2>1, <2>2 DEF CallInv
<1>8. CASE FlushBegin(c)
  <2>1. /\ pc[c] = "flush" /\ pc' = [pc EXCEPT ![c] = "emit"] /\ op' = op /\ rest' = rest
    BY <1>8 DEF FlushBegin
  <2> QED  BY <2>1 DEF CallInv
<1>9. CASE SerialPut(c) \/ ScreenPut(c) \/ Advance(c)
  <2>1. pc[c] = "emit" /\ pc' = pc /\ op' = op /\ rest' = rest
    BY <1>9 DEF SerialPut, ScreenPut, Advance
  <2> QED  BY <2>1 DEF CallInv
<1> QED  BY <1>1, <1>2, <1>3, <1>4, <1>5, <1>6, <1>7, <1>8, <1>9 DEF Step

\* A step leaves the locals of the other callers alone.
LEMMA StepIsLocal ==
    ASSUME TypeOK, NEW c \in Callers, Step(c), NEW d \in Callers, d # c
    PROVE  pc'[d] = pc[d] /\ op'[d] = op[d] /\ rest'[d] = rest[d] /\ usage'[d] = usage[d]
           /\ dev'[d] = dev[d] /\ left'[d] = left[d]
BY DEF TypeOK, Step, Acquire, Release, ReadUsage, PutFull, PutChar, PutDone, FlushNothing,
       FlushBegin, SerialPut, ScreenPut, Advance, FlushEnd, locals

LEMMA CallNext ==
    /\ TypeOK /\ LockGuardsRing /\ RingInv
    /\ (\A c \in Callers : CallInv(c))
    /\ [Next]_vars
    => (\A c \in Callers : CallInv(c))'
<1> SUFFICES ASSUME TypeOK, LockGuardsRing, RingInv, \A c \in Callers : CallInv(c),
                    [Next]_vars, NEW d \in Callers
             PROVE  CallInv(d)'
  OBVIOUS
<1>1. CASE \E c \in Callers : Call(c)  BY <1>1, CallBegin
<1>2. CASE \E c \in Callers : Step(c)
  <2> PICK c \in Callers : Step(c)  BY <1>2
  <2>1. CASE c = d  BY <2>1, CallStep
  <2>2. CASE c # d /\ ~Holds(d)  BY <2>2, StepIsLocal, CallFrame
  <2>3. CASE c # d /\ Holds(d)
    <3>1. ~Holds(c) /\ tty_lock = 1  BY <2>3 DEF LockGuardsRing
    <3>2. CASE Acquire(c)
      <4>1. UNCHANGED <<pc, op, rest, usage, accepted, flushed>>
        BY <3>1, <3>2 DEF Acquire, locals, history
      <4> QED  BY <4>1 DEF CallInv, Pending
    <3>3. CASE ~Acquire(c)
      <4>1. ~Release(c)  BY <3>1 DEF Release, Holds
      <4> QED  BY <3>1, <3>3, <4>1, HolderMoves
    <3> QED  BY <3>2, <3>3
  <2> QED  BY <2>1, <2>2, <2>3
<1>3. CASE Halted \/ UNCHANGED vars
  <2>1. UNCHANGED <<pc, op, rest, usage, accepted, flushed>>
    BY <1>3 DEF Halted, vars, locals, history
  <2> QED  BY <2>1 DEF CallInv, Pending
<1> QED  BY <1>1, <1>2, <1>3 DEF Next

LEMMA CallsKeepPromises == Spec => [](\A c \in Callers : CallInv(c))
<1>1. Init => \A c \in Callers : CallInv(c)  BY DEF Init, CallInv
<1> QED  BY <1>1, CallNext, RingInit, RingNext, TypeCorrect, MutualExclusion, PTL DEF Spec

\* tty_buffer_usage reports the number of characters that wait (tty.c:316-330).
THEOREM UsageIsExact == Spec => []UsageIsPending
<1>1. (\A c \in Callers : CallInv(c)) => UsageIsPending  BY DEF CallInv, UsageIsPending
<1> QED  BY <1>1, CallsKeepPromises, PTL

\* tty_flush, and a call whose last character is a newline, return when nothing waits
\* any more (tty.c:108-110, 310-314).
THEOREM FlushShowsAll == Spec => []FlushReachesDevices
<1>1. TypeOK /\ LockGuardsRing /\ RingInv /\ LineInv /\ (\A c \in Callers : CallInv(c))
        => FlushReachesDevices
  <2> SUFFICES ASSUME TypeOK, LockGuardsRing, RingInv, LineInv, NEW c \in Callers, CallInv(c),
                      pc[c] = "release",
                      \/ op[c] = "flush"
                      \/ op[c] = "put" /\ accepted # <<>> /\ accepted[Len(accepted)] = NL
               PROVE  Pending = 0
    BY DEF FlushReachesDevices
  <2>1. CASE op[c] = "flush"  BY <2>1 DEF CallInv
  <2>2. CASE accepted # <<>> /\ accepted[Len(accepted)] = NL
    <3>1. \A d \in Callers : pc[d] \notin {"flush", "emit"}  BY OnlyHolder DEF Holds
    <3>2. \A i \in flushed + 1 .. Len(accepted) : accepted[i] # NL  BY <3>1 DEF LineInv
    <3>3. Len(accepted) \in Nat /\ flushed \in Nat  BY DEF TypeOK
    <3>4. ~(flushed + 1 <= Len(accepted))  BY <2>2, <3>2, <3>3
    <3>5. Pending \in Nat  BY SizeAssumption DEF RingInv, RingHoldsPending
    <3> QED  BY <3>3, <3>4, <3>5 DEF Pending
  <2> QED  BY <2>1, <2>2
<1>2. Spec => []RingInv
  BY RingInit, RingNext, TypeCorrect, MutualExclusion, PTL DEF Spec
<1> QED
  BY <1>1, <1>2, LineInvariant, CallsKeepPromises, TypeCorrect, MutualExclusion, PTL

-----------------------------------------------------------------------------
(* Prefixes of a growing sequence. *)

LEMMA PrefixOfAppend ==
    ASSUME NEW S, NEW s \in Seq(S), NEW x \in S, NEW k \in 0 .. Len(s)
    PROVE  SubSeq(Append(s, x), 1, k) = SubSeq(s, 1, k)
<1>1. Append(s, x) \in Seq(S) /\ Len(s) \in Nat /\ Len(Append(s, x)) = Len(s) + 1
  BY AppendProperties
<1>2. \A i \in 1 .. k : Append(s, x)[i] = s[i] /\ s[i] \in S /\ Append(s, x)[i] \in S
  BY <1>1, AppendProperties
<1>3. /\ SubSeq(s, 1, k) \in Seq(S) /\ Len(SubSeq(s, 1, k)) = k
      /\ \A i \in 1 .. k : SubSeq(s, 1, k)[i] = s[i]
  BY <1>1, <1>2, SubSeqProperties
<1>4. /\ SubSeq(Append(s, x), 1, k) \in Seq(S) /\ Len(SubSeq(Append(s, x), 1, k)) = k
      /\ \A i \in 1 .. k : SubSeq(Append(s, x), 1, k)[i] = Append(s, x)[i]
  BY <1>1, <1>2, SubSeqProperties
<1> QED  BY <1>2, <1>3, <1>4, SeqEqual

LEMMA PrefixGrows ==
    ASSUME NEW S, NEW s \in Seq(S), NEW k \in 0 .. Len(s) - 1
    PROVE  Append(SubSeq(s, 1, k), s[k + 1]) = SubSeq(s, 1, k + 1)
<1>1. Len(s) \in Nat /\ k + 1 \in 1 .. Len(s) /\ \A i \in 1 .. Len(s) : s[i] \in S
  OBVIOUS
<1>2. /\ SubSeq(s, 1, k) \in Seq(S) /\ Len(SubSeq(s, 1, k)) = k
      /\ \A i \in 1 .. k : SubSeq(s, 1, k)[i] = s[i]
  BY <1>1, SubSeqProperties
<1>3. /\ SubSeq(s, 1, k + 1) \in Seq(S) /\ Len(SubSeq(s, 1, k + 1)) = k + 1
      /\ \A i \in 1 .. k + 1 : SubSeq(s, 1, k + 1)[i] = s[i]
  BY <1>1, SubSeqProperties
<1>4. /\ Append(SubSeq(s, 1, k), s[k + 1]) \in Seq(S)
      /\ Len(Append(SubSeq(s, 1, k), s[k + 1])) = k + 1
      /\ \A i \in 1 .. k : Append(SubSeq(s, 1, k), s[k + 1])[i] = s[i]
      /\ Append(SubSeq(s, 1, k), s[k + 1])[k + 1] = s[k + 1]
  BY <1>1, <1>2, AppendProperties
<1> QED  BY <1>3, <1>4, SeqEqual

-----------------------------------------------------------------------------
(* The characters of a sequence other than NUL. *)

\* The recursion of WithoutNULs(s) over the first k characters of s.
Kept(s, k) ==
    LET kept[i \in 0 .. Len(s)] ==
            IF i = 0 THEN <<>>
            ELSE IF s[i] = NUL THEN kept[i - 1]
            ELSE Append(kept[i - 1], s[i])
    IN  kept[k]

LEMMA WithoutNULsIsKept == \A s : WithoutNULs(s) = Kept(s, Len(s))
BY DEF WithoutNULs, Kept

LEMMA KeptStep ==
    ASSUME NEW S, NEW s \in Seq(S)
    PROVE  /\ Kept(s, 0) = <<>>
           /\ \A k \in 1 .. Len(s) :
                Kept(s, k) = IF s[k] = NUL THEN Kept(s, k - 1) ELSE Append(Kept(s, k - 1), s[k])
           /\ \A k \in 0 .. Len(s) : Kept(s, k) \in Seq(S)
<1> DEFINE D == 0 .. Len(s)
           Turn(k, v) == IF s[k] = NUL THEN v ELSE Append(v, s[k])
           Eq(f) == f = [k \in D |-> IF k = 0 THEN <<>>
                                     ELSE IF s[k] = NUL THEN f[k - 1]
                                     ELSE Append(f[k - 1], s[k])]
           G == [kv \in D \X Seq(S) |-> Turn(kv[1], kv[2])]
           n == CHOOSE f : Eq(f)
<1>1. Len(s) \in Nat /\ \A k \in 1 .. Len(s) : s[k] \in S /\ k \in D /\ k - 1 \in D /\ k # 0
  OBVIOUS
<1>2. PICK f \in [D -> Seq(S)] : f[0] = <<>> /\ \A k \in 1 .. Len(s) : f[k] = G[<<k, f[k - 1]>>]
  <2>1. \A k \in 1 .. Len(s), v \in Seq(S) : G[<<k, v>>] \in Seq(S)
    <3> SUFFICES ASSUME NEW k \in 1 .. Len(s), NEW v \in Seq(S) PROVE G[<<k, v>>] \in Seq(S)
      OBVIOUS
    <3>1. G[<<k, v>>] = Turn(k, v)
      BY <1>1
    <3>2. Append(v, s[k]) \in Seq(S)
      BY <1>1, AppendProperties
    <3> QED
      BY <3>1, <3>2
  <2>2. <<>> \in Seq(S)
    OBVIOUS
  <2> HIDE DEF G
  <2>3. Loop(Len(s), Seq(S), <<>>, G)
    BY <1>1, <2>1, <2>2 DEF Loop
  <2> QED
    BY <2>3, Iteration
<1>3. ASSUME NEW k \in D PROVE f[k] = IF k = 0 THEN <<>> ELSE Turn(k, f[k - 1])
  <2>1. CASE k = 0
    BY <1>2, <2>1
  <2>2. CASE k # 0
    <3>1. k \in 1 .. Len(s) /\ k - 1 \in D
      BY <1>1, <2>2
    <3>2. f[k - 1] \in Seq(S)
      BY <1>2, <3>1
    <3>3. f[k] = G[<<k, f[k - 1]>>] /\ G[<<k, f[k - 1]>>] = Turn(k, f[k - 1])
      BY <1>2, <3>1, <3>2
    <3> QED
      BY <2>2, <3>3
  <2> QED
    BY <2>1, <2>2
<1>4. Eq(f)
  <2>1. f = [k \in D |-> f[k]]
    BY <1>2
  <2> HIDE DEF D
  <2> QED
    BY <1>3, <2>1
<1>5. Eq(n)
  <2> HIDE DEF Eq
  <2> QED
    BY <1>4
<1>6. \A k : Kept(s, k) = n[k]
  BY DEF Kept
<1> HIDE DEF n
<1>7. n[0] = <<>> /\ \A k \in 1 .. Len(s) : n[k] = Turn(k, n[k - 1])
  <2>1. 0 \in D /\ \A k \in 1 .. Len(s) : k \in D /\ k # 0
    BY <1>1
  <2>2. \A k \in D : n[k] = IF k = 0 THEN <<>> ELSE Turn(k, n[k - 1])
    BY <1>5
  <2> HIDE DEF D, Turn
  <2> QED
    BY <2>1, <2>2
<1>8. \A k \in D : n[k] \in Seq(S)
  <2> DEFINE P == {k \in Nat : k \in D => n[k] \in Seq(S)}
  <2>1. 0 \in P
    <3>1. n[0] = <<>> /\ <<>> \in Seq(S)
      BY <1>7
    <3> QED
      BY <3>1
  <2>2. ASSUME NEW k \in Nat, k \in P PROVE k + 1 \in P
    <3> SUFFICES ASSUME k + 1 \in D PROVE n[k + 1] \in Seq(S)
      OBVIOUS
    <3>1. k + 1 \in 1 .. Len(s) /\ n[k] \in Seq(S) /\ (k + 1) - 1 = k
      BY <1>1, <2>2
    <3>2. s[k + 1] \in S /\ n[k + 1] = Turn(k + 1, n[k])
      BY <1>1, <1>7, <3>1
    <3>3. Append(n[k], s[k + 1]) \in Seq(S)
      BY <3>1, <3>2, AppendProperties
    <3> QED
      BY <3>2, <3>3
  <2> HIDE DEF P
  <2>3. \A k \in Nat : k \in P
    BY <2>1, <2>2, Induct
  <2> QED
    BY <1>1, <2>3 DEF P
<1> QED
  BY <1>6, <1>7, <1>8

\* The filter of a sequence that grew at its end.
LEMMA WithoutNULsOfAppend ==
    ASSUME NEW S, NEW s \in Seq(S), NEW x \in S
    PROVE  WithoutNULs(Append(s, x))
             = IF x = NUL THEN WithoutNULs(s) ELSE Append(WithoutNULs(s), x)
<1> DEFINE t == Append(s, x)
<1>1. /\ t \in Seq(S) /\ Len(s) \in Nat /\ Len(t) = Len(s) + 1 /\ t[Len(t)] = x
      /\ \A k \in 1 .. Len(s) : t[k] = s[k]
  BY AppendProperties
<1> HIDE DEF t
<1>2. \A k \in 0 .. Len(s) : Kept(t, k) = Kept(s, k)
  <2> DEFINE P == {k \in Nat : k <= Len(s) => Kept(t, k) = Kept(s, k)}
  <2>1. 0 \in P
    <3>1. Kept(t, 0) = <<>> /\ Kept(s, 0) = <<>>
      BY <1>1, KeptStep
    <3> QED
      BY <3>1
  <2>2. ASSUME NEW k \in Nat, k \in P PROVE k + 1 \in P
    <3> SUFFICES ASSUME k + 1 <= Len(s) PROVE Kept(t, k + 1) = Kept(s, k + 1)
      OBVIOUS
    <3>1. /\ k + 1 \in 1 .. Len(s) /\ k + 1 \in 1 .. Len(t) /\ (k + 1) - 1 = k
          /\ Kept(t, k) = Kept(s, k) /\ t[k + 1] = s[k + 1]
      BY <1>1, <2>2
    <3>2. Kept(s, k + 1) = IF s[k + 1] = NUL THEN Kept(s, (k + 1) - 1)
                                            ELSE Append(Kept(s, (k + 1) - 1), s[k + 1])
      BY <3>1, KeptStep
    <3>3. Kept(t, k + 1) = IF t[k + 1] = NUL THEN Kept(t, (k + 1) - 1)
                                            ELSE Append(Kept(t, (k + 1) - 1), t[k + 1])
      BY <1>1, <3>1, KeptStep
    <3> QED
      BY <3>1, <3>2, <3>3
  <2> HIDE DEF P
  <2>3. \A k \in Nat : k \in P
    BY <2>1, <2>2, Induct
  <2> QED
    BY <1>1, <2>3 DEF P
<1>3. Kept(t, Len(s)) = Kept(s, Len(s))
  BY <1>1, <1>2
<1>4. Len(t) \in 1 .. Len(t) /\ Len(t) - 1 = Len(s)
  BY <1>1
<1>5. Kept(t, Len(t)) = IF x = NUL THEN Kept(s, Len(s)) ELSE Append(Kept(s, Len(s)), x)
  <2>1. Kept(t, Len(t)) = IF t[Len(t)] = NUL THEN Kept(t, Len(t) - 1)
                                           ELSE Append(Kept(t, Len(t) - 1), t[Len(t)])
    BY <1>1, <1>4, KeptStep
  <2> QED
    BY <1>1, <1>3, <1>4, <2>1
<1> QED
  BY <1>5, WithoutNULsIsKept DEF t

LEMMA WithoutNULsOfEmpty == WithoutNULs(<<>>) = <<>>
<1>1. <<>> \in Seq(Char) /\ Len(<<>>) = 0
  OBVIOUS
<1>2. Kept(<<>>, 0) = <<>>
  BY <1>1, KeptStep
<1> QED
  BY <1>1, <1>2, WithoutNULsIsKept

-----------------------------------------------------------------------------
(* The locals of a call. *)

\* Only a caller in the flush loop is part of the way through the devices, a
\* call ends with nothing left to store, and what waits for the lock is a whole
\* message.
LocalInv(c) ==
    /\ dev[c] > 0 => pc[c] = "emit" /\ left[c] > 0
    /\ pc[c] = "release" => rest[c] = <<>>
    /\ pc[c] = "acquire" =>
         rest[c] \in {<<>>} \cup Messages \cup {<<ch>> : ch \in Char}

LEMMA LocalNext ==
    /\ TypeOK
    /\ (\A c \in Callers : CallInv(c))
    /\ (\A c \in Callers : LocalInv(c))
    /\ [Next]_vars
    => (\A c \in Callers : LocalInv(c))'
<1> SUFFICES ASSUME TypeOK, \A c \in Callers : CallInv(c), \A c \in Callers : LocalInv(c),
                    [Next]_vars, NEW d \in Callers
             PROVE  LocalInv(d)'
  OBVIOUS
<1>1. CASE \E c \in Callers : Call(c)
  <2> PICK c \in Callers : Call(c)  BY <1>1
  <2>1. PICK m \in {<<>>} \cup Messages \cup {<<ch>> : ch \in Char},
             w \in {"put", "flush", "usage"} : Begin(c, w, m)
    BY DEF Call, Putc, Write, Puts, Flush, BufferUsage
  <2>2. /\ pc[c] = "idle" /\ pc' = [pc EXCEPT ![c] = "acquire"]
        /\ rest' = [rest EXCEPT ![c] = m] /\ dev' = dev /\ left' = left
    BY <2>1 DEF Begin
  <2> QED  BY <2>1, <2>2 DEF LocalInv, TypeOK
<1>2. CASE \E c \in Callers : Step(c)
  <2> PICK c \in Callers : Step(c)  BY <1>2
  <2>1. CASE c # d
    <3>1. /\ pc'[d] = pc[d] /\ rest'[d] = rest[d]
          /\ dev'[d] = dev[d] /\ left'[d] = left[d]
      BY <2>1, StepIsLocal
    <3> QED  BY <3>1 DEF LocalInv
  <2>2. CASE c = d
    <3> USE <2>2 DEF LocalInv, TypeOK
    <3>1. CASE Acquire(c)  BY <3>1 DEF Acquire, locals
    <3>2. CASE Release(c)  BY <3>2 DEF Release, locals
    <3>3. CASE ReadUsage(c)
      <4>1. rest[c] = <<>>  BY <3>3 DEF ReadUsage, CallInv
      <4> QED  BY <3>3, <4>1 DEF ReadUsage
    <3>4. CASE PutFull(c)  BY <3>4 DEF PutFull, locals
    <3>5. CASE PutChar(c)  BY <3>5 DEF PutChar
    <3>6. CASE PutDone(c)  BY <3>6 DEF PutDone, locals
    <3>7. CASE FlushNothing(c)  BY <3>7 DEF FlushNothing, locals
    <3>8. CASE FlushBegin(c)
      <4>1. pc[c] = "flush" /\ dev[c] \in Nat /\ (dev[c] > 0 => pc[c] = "emit")
        BY <3>8 DEF FlushBegin
      <4>2. dev[c] = 0  BY <4>1
      <4> QED  BY <3>8, <4>2 DEF FlushBegin
    <3>9. CASE SerialPut(c)  BY <3>9 DEF SerialPut
    <3>10. CASE ScreenPut(c)  BY <3>10 DEF ScreenPut
    <3>11. CASE Advance(c)  BY <3>11 DEF Advance
    <3>12. CASE FlushEnd(c)  BY <3>12 DEF FlushEnd, locals
    <3> QED
      BY <3>1, <3>2, <3>3, <3>4, <3>5, <3>6, <3>7, <3>8, <3>9, <3>10, <3>11, <3>12 DEF Step
  <2> QED  BY <2>1, <2>2
<1>3. CASE Halted \/ UNCHANGED vars
  <2>1. UNCHANGED <<pc, rest, dev, left>>  BY <1>3 DEF Halted, vars, locals
  <2> QED  BY <2>1 DEF LocalInv
<1> QED  BY <1>1, <1>2, <1>3 DEF Next

LEMMA LocalsInOrder == Spec => [](\A c \in Callers : LocalInv(c))
<1>1. Init => \A c \in Callers : LocalInv(c)
  <2>1. ~(0 > 0)  OBVIOUS
  <2> QED  BY <2>1 DEF Init, LocalInv
<1> QED  BY <1>1, LocalNext, TypeCorrect, CallsKeepPromises, PTL DEF Spec

-----------------------------------------------------------------------------
(* What the devices were handed. *)

\* The numbers of the type invariant.
LEMMA Numbers ==
    ASSUME TypeOK
    PROVE  /\ MaxSerialDevs \in Nat /\ Size \in Nat \ {0}
           /\ flushed \in Nat /\ accepted \in Seq(Char) /\ Len(accepted) \in Nat
           /\ \A c \in Callers : dev[c] \in 0 .. MaxSerialDevs + 1
           /\ \A c \in Callers : left[c] \in 0 .. Size
BY DEF TypeOK

\* The caller inside a call is the only one part of the way through the devices.
LEMMA HandedByHolder ==
    ASSUME TypeOK, LockGuardsRing, \A c \in Callers : LocalInv(c),
           NEW c \in Callers, Holds(c), NEW d \in Devices
    PROVE  Handed(d) = flushed + (IF dev[c] > d THEN 1 ELSE 0)
<1>1. \A e \in Callers : dev[e] > d => e = c
  <2> SUFFICES ASSUME NEW e \in Callers, dev[e] > d PROVE e = c  OBVIOUS
  <2>1. dev[e] > 0  BY Numbers DEF Devices
  <2>2. Holds(e)  BY <2>1 DEF LocalInv, Holds
  <2> QED  BY <2>2 DEF LockGuardsRing
<1> QED  BY <1>1 DEF Handed

\* No device was handed more than was stored.
LEMMA HandedIsStored ==
    ASSUME TypeOK, RingInv, \A c \in Callers : LocalInv(c), NEW d \in Devices
    PROVE  Handed(d) \in flushed .. Len(accepted)
<1>1. flushed \in Nat /\ Len(accepted) \in Nat /\ Pending = Len(accepted) - flushed
      /\ Pending \in 0 .. Size
  BY DEF TypeOK, Pending, RingInv, RingHoldsPending
<1>2. CASE \E c \in Callers : dev[c] > d
  <2> PICK c \in Callers : dev[c] > d  BY <1>2
  <2>1. dev[c] > 0  BY Numbers DEF Devices
  <2>2. left[c] > 0 /\ left[c] = Pending
    BY <2>1 DEF LocalInv, RingInv, FlushDrainsRing
  <2> QED  BY <1>1, <1>2, <2>2 DEF Handed
<1>3. CASE ~\E c \in Callers : dev[c] > d  BY <1>1, <1>3 DEF Handed
<1> QED  BY <1>2, <1>3

\* The character at tail is the next one of the stream for the device whose
\* turn it is.
LEMMA TailIsNext ==
    ASSUME TypeOK, LockGuardsRing, RingInv, \A c \in Callers : LocalInv(c),
           NEW c \in Callers, pc[c] = "emit", left[c] > 0
    PROVE  /\ flushed \in 0 .. Len(accepted) - 1
           /\ data[tail] = accepted[flushed + 1]
           /\ \A d \in Devices : Handed(d) = flushed + (IF dev[c] > d THEN 1 ELSE 0)
<1>1. Pending \in 1 .. Size /\ Pending = Len(accepted) - flushed
  BY DEF RingInv, FlushDrainsRing, RingHoldsPending, Pending
<1>2. flushed \in Nat /\ Len(accepted) \in Nat /\ tail \in 0 .. Size - 1
  BY DEF TypeOK, Slots
<1>3. data[Slot(0)] = accepted[flushed + 1 + 0]  BY <1>1 DEF RingInv, RingHoldsPending
<1>4. Slot(0) = tail /\ flushed + 1 + 0 = flushed + 1  BY <1>2 DEF Slot
<1>5. Holds(c)  BY DEF Holds
<1> QED  BY <1>1, <1>2, <1>3, <1>4, <1>5, HandedByHolder

\* Steps outside the flush loop hand over nothing; its end of turn only moves
\* the tail past a character that every device had.
LEMMA HandedFrame ==
    ASSUME TypeOK, UNCHANGED <<dev, flushed>>, NEW d
    PROVE  Handed(d)' = Handed(d)
BY DEF Handed

LEMMA HandedAdvance ==
    ASSUME TypeOK, TypeOK', LockGuardsRing, RingInv, \A c \in Callers : LocalInv(c),
           (\A c \in Callers : LocalInv(c))',
           NEW c \in Callers, Advance(c), NEW d \in Devices
    PROVE  Handed(d)' = Handed(d)
<1>1. pc[c] = "emit" /\ left[c] > 0 /\ dev[c] > Screen /\ flushed' = flushed + 1
      /\ dev' = [dev EXCEPT ![c] = 0]
  BY DEF Advance
<1>2. dev[c] > d  BY <1>1, Numbers DEF Devices, Screen
<1>3. Handed(d) = flushed + 1  BY <1>1, <1>2, TailIsNext
<1>4. \A e \in Callers : ~(dev'[e] > d)
  <2> SUFFICES ASSUME NEW e \in Callers, dev'[e] > d PROVE FALSE  OBVIOUS
  <2>1. dev \in [Callers -> 0 .. MaxSerialDevs + 1]  BY DEF TypeOK
  <2>2. e # c  BY <1>1, <2>1 DEF Devices
  <2>3. dev[e] > d /\ dev[e] \in Nat  BY <1>1, <2>1, <2>2
  <2>4. dev[e] > 0  BY <2>3 DEF Devices
  <2>5. Holds(e)  BY <2>4 DEF LocalInv, Holds
  <2>6. Holds(c)  BY <1>1 DEF Holds
  <2> QED  BY <2>2, <2>5, <2>6 DEF LockGuardsRing
<1>5. Handed(d)' = flushed' + 0  BY <1>4 DEF Handed
<1> QED  BY <1>1, <1>3, <1>5 DEF TypeOK

\* A turn of the loop over the devices hands the character at tail to the device
\* whose turn it is.
LEMMA HandedTurn ==
    ASSUME TypeOK, LockGuardsRing, \A c \in Callers : LocalInv(c),
           NEW c \in Callers, SerialPut(c) \/ ScreenPut(c), NEW d \in Devices
    PROVE  Handed(d)' = flushed + (IF dev[c] + 1 > d THEN 1 ELSE 0)
<1>1. /\ pc[c] = "emit" /\ dev' = [dev EXCEPT ![c] = dev[c] + 1] /\ flushed' = flushed
  BY DEF SerialPut, ScreenPut
<1>2. \A e \in Callers : e # c => dev'[e] = 0
  <2> SUFFICES ASSUME NEW e \in Callers, e # c PROVE dev[e] = 0
    BY <1>1 DEF TypeOK
  <2>1. ~Holds(e)  BY <1>1 DEF LockGuardsRing, Holds
  <2>2. ~(dev[e] > 0)  BY <2>1 DEF LocalInv, Holds
  <2> QED  BY <2>2, Numbers
<1>3. dev'[c] = dev[c] + 1  BY <1>1 DEF TypeOK
<1>4. d \in Nat  BY DEF Devices
<1>5. (\E e \in Callers : dev'[e] > d) <=> dev[c] + 1 > d
  BY <1>2, <1>3, <1>4
<1> QED  BY <1>1, <1>5 DEF Handed

\* No call selects a device.
LEMMA SelectionKept == [Next]_vars => UNCHANGED <<out_serial, out_screen>>
<1>1. ASSUME NEW c \in Callers, Call(c) PROVE UNCHANGED <<out_serial, out_screen>>
  BY <1>1 DEF Call, Putc, Write, Puts, Flush, BufferUsage, Begin, devices
<1>2. ASSUME NEW c \in Callers, Step(c) PROVE UNCHANGED <<out_serial, out_screen>>
  BY <1>2
  DEF Step, Acquire, Release, ReadUsage, PutFull, PutChar, PutDone, FlushNothing,
      FlushBegin, SerialPut, ScreenPut, Advance, FlushEnd, devices
<1> QED  BY <1>1, <1>2 DEF Next, Halted, vars, devices

LEMMA SerialNext ==
    /\ TypeOK /\ TypeOK' /\ LockGuardsRing /\ RingInv
    /\ (\A c \in Callers : LocalInv(c))
    /\ (\A c \in Callers : LocalInv(c))'
    /\ SerialShowsStream /\ [Next]_vars
    => SerialShowsStream'
<1> SUFFICES ASSUME TypeOK, TypeOK', LockGuardsRing, RingInv,
                    \A c \in Callers : LocalInv(c), (\A c \in Callers : LocalInv(c))',
                    SerialShowsStream, [Next]_vars, NEW d \in Ports
             PROVE  out'[d] = IF out_serial'[d] THEN SubSeq(accepted', 1, Handed(d)') ELSE <<>>
  BY DEF SerialShowsStream
<1>1. d \in Devices /\ d < Screen  BY DEF Ports, Devices, Screen
<1>2. out[d] = IF out_serial[d] THEN SubSeq(accepted, 1, Handed(d)) ELSE <<>>
  BY DEF SerialShowsStream
<1>3. out_serial' = out_serial  BY SelectionKept
<1>4. CASE UNCHANGED <<accepted, flushed, out, dev>>
  BY <1>2, <1>3, <1>4, HandedFrame
<1>5. CASE \E c \in Callers : PutChar(c)
  <2> PICK c \in Callers : PutChar(c)  BY <1>5
  <2>1. UNCHANGED <<flushed, out, dev>> /\ accepted' = Append(accepted, Head(rest[c]))
    BY DEF PutChar
  <2>2. Head(rest[c]) \in Char  BY HeadTailProperties DEF PutChar, TypeOK
  <2>3. Handed(d)' = Handed(d)  BY <2>1, HandedFrame
  <2>4. Handed(d) \in 0 .. Len(accepted)  BY <1>1, HandedIsStored, Numbers
  <2>5. SubSeq(accepted', 1, Handed(d)) = SubSeq(accepted, 1, Handed(d))
    BY <2>1, <2>2, <2>4, Numbers, PrefixOfAppend
  <2> QED  BY <1>2, <1>3, <2>1, <2>3, <2>5
<1>6. CASE \E c \in Callers : SerialPut(c)
  <2> PICK c \in Callers : SerialPut(c)  BY <1>6
  <2>1. /\ pc[c] = "emit" /\ left[c] > 0 /\ dev[c] \in Ports /\ pc' = pc
        /\ dev' = [dev EXCEPT ![c] = dev[c] + 1]
        /\ out' = IF out_serial[dev[c]]
                  THEN [out EXCEPT ![dev[c]] = Append(out[dev[c]], data[tail])] ELSE out
        /\ UNCHANGED <<accepted, flushed>>
    BY DEF SerialPut
  <2>2. flushed \in 0 .. Len(accepted) - 1 /\ data[tail] = accepted[flushed + 1]
        /\ Handed(d) = flushed + (IF dev[c] > d THEN 1 ELSE 0)
    BY <1>1, <2>1, TailIsNext
  <2>3. Handed(d)' = flushed + (IF dev[c] + 1 > d THEN 1 ELSE 0)
    BY <1>1, HandedTurn
  <2>4. CASE d = dev[c]
    <3>1. Handed(d) = flushed /\ Handed(d)' = flushed + 1
      BY <1>1, <2>2, <2>3, <2>4, Numbers DEF Devices
    <3>2. Append(SubSeq(accepted, 1, flushed), accepted[flushed + 1])
            = SubSeq(accepted, 1, flushed + 1)
      BY <2>2, PrefixGrows DEF TypeOK
    <3>3. out_serial[d] => out'[d] = Append(out[d], data[tail])
      BY <1>1, <2>1, <2>4 DEF TypeOK
    <3>4. ~out_serial[d] => out'[d] = out[d]  BY <2>1, <2>4
    <3> QED  BY <1>2, <1>3, <2>1, <2>2, <3>1, <3>2, <3>3, <3>4
  <2>5. CASE d # dev[c]
    <3>1. Handed(d)' = Handed(d)
      BY <1>1, <2>1, <2>2, <2>3, <2>5, Numbers DEF Devices, Ports
    <3>2. out'[d] = out[d]  BY <2>1, <2>5 DEF TypeOK
    <3> QED  BY <1>2, <1>3, <2>1, <3>1, <3>2
  <2> QED  BY <2>4, <2>5
<1>7. CASE \E c \in Callers : ScreenPut(c)
  <2> PICK c \in Callers : ScreenPut(c)  BY <1>7
  <2>1. /\ dev[c] = Screen /\ dev' = [dev EXCEPT ![c] = dev[c] + 1]
        /\ UNCHANGED <<accepted, flushed>> /\ out'[d] = out[d]
    BY <1>1 DEF ScreenPut, TypeOK
  <2>2. \A e \in Callers : dev'[e] > d <=> dev[e] > d
    <3>1. dev \in [Callers -> 0 .. MaxSerialDevs + 1]  BY DEF TypeOK
    <3> QED  BY <1>1, <2>1, <3>1 DEF Screen, Devices
  <2>3. Handed(d)' = Handed(d)  BY <2>1, <2>2 DEF Handed
  <2> QED  BY <1>2, <1>3, <2>1, <2>3
<1>8. CASE \E c \in Callers : Advance(c)
  <2>1. UNCHANGED <<accepted, out>>  BY <1>8 DEF Advance
  <2>2. Handed(d)' = Handed(d)  BY <1>1, <1>8, HandedAdvance
  <2> QED  BY <1>2, <1>3, <2>1, <2>2
<1> QED
  BY <1>4, <1>5, <1>6, <1>7, <1>8
  DEF Next, Call, Putc, Write, Puts, Flush, BufferUsage, Begin, Step, Acquire, Release,
      ReadUsage, PutFull, PutDone, FlushNothing, FlushBegin, FlushEnd, Halted, vars,
      locals, history

\* Every selected serial port transmits exactly the stored stream, in order, as
\* far as it was handed to it (tty.c:133-151).
THEOREM SerialOutputIsStream == Spec => []SerialShowsStream
<1>1. Init => SerialShowsStream
  <2> SUFFICES ASSUME Init, NEW d \in Ports
               PROVE  out[d] = <<>> /\ SubSeq(accepted, 1, Handed(d)) = <<>>
    BY DEF SerialShowsStream
  <2>1. d \in Devices /\ ~(0 > d)  BY DEF Ports, Devices
  <2>2. Handed(d) = 0  BY <2>1 DEF Init, Handed
  <2> QED  BY <2>1, <2>2, SubSeqEmpty DEF Init
<1> QED
  BY <1>1, SerialNext, RingInit, RingNext, LocalsInOrder, TypeCorrect, MutualExclusion,
     PTL DEF Spec

LEMMA ScreenNext ==
    /\ TypeOK /\ TypeOK' /\ LockGuardsRing /\ RingInv
    /\ (\A c \in Callers : LocalInv(c))
    /\ (\A c \in Callers : LocalInv(c))'
    /\ ScreenShowsStream /\ [Next]_vars
    => ScreenShowsStream'
<1> SUFFICES ASSUME TypeOK, TypeOK', LockGuardsRing, RingInv,
                    \A c \in Callers : LocalInv(c), (\A c \in Callers : LocalInv(c))',
                    ScreenShowsStream, [Next]_vars
             PROVE  out'[Screen] = IF out_screen'
                                   THEN WithoutNULs(SubSeq(accepted', 1, Handed(Screen)'))
                                   ELSE <<>>
  BY DEF ScreenShowsStream
<1>1. Screen \in Devices /\ Screen \notin Ports  BY DEF Ports, Devices, Screen
<1>2. out[Screen] = IF out_screen THEN WithoutNULs(SubSeq(accepted, 1, Handed(Screen))) ELSE <<>>
  BY DEF ScreenShowsStream
<1>3. out_screen' = out_screen  BY SelectionKept
<1>4. CASE UNCHANGED <<accepted, flushed, out, dev>>
  BY <1>2, <1>3, <1>4, HandedFrame
<1>5. CASE \E c \in Callers : PutChar(c)
  <2> PICK c \in Callers : PutChar(c)  BY <1>5
  <2>1. UNCHANGED <<flushed, out, dev>> /\ accepted' = Append(accepted, Head(rest[c]))
    BY DEF PutChar
  <2>2. Head(rest[c]) \in Char  BY HeadTailProperties DEF PutChar, TypeOK
  <2>3. Handed(Screen)' = Handed(Screen)  BY <2>1, HandedFrame
  <2>4. Handed(Screen) \in 0 .. Len(accepted)  BY <1>1, HandedIsStored, Numbers
  <2>5. SubSeq(accepted', 1, Handed(Screen)) = SubSeq(accepted, 1, Handed(Screen))
    BY <2>1, <2>2, <2>4, Numbers, PrefixOfAppend
  <2> QED  BY <1>2, <1>3, <2>1, <2>3, <2>5
<1>6. CASE \E c \in Callers : SerialPut(c)
  <2> PICK c \in Callers : SerialPut(c)  BY <1>6
  <2>1. /\ pc[c] = "emit" /\ left[c] > 0 /\ dev[c] \in Ports
        /\ UNCHANGED <<accepted, flushed>> /\ out'[Screen] = out[Screen]
    BY <1>1 DEF SerialPut, TypeOK
  <2>2. Handed(Screen)' = flushed + (IF dev[c] + 1 > Screen THEN 1 ELSE 0)
    BY <1>1, HandedTurn
  <2>3. Handed(Screen) = flushed + (IF dev[c] > Screen THEN 1 ELSE 0)
    BY <1>1, <2>1, TailIsNext
  <2>4. ~(dev[c] > Screen) /\ ~(dev[c] + 1 > Screen)  BY <2>1 DEF Ports, Screen
  <2> QED  BY <1>2, <1>3, <2>1, <2>2, <2>3, <2>4
<1>7. CASE \E c \in Callers : ScreenPut(c)
  <2> PICK c \in Callers : ScreenPut(c)  BY <1>7
  <2>1. /\ pc[c] = "emit" /\ left[c] > 0 /\ dev[c] = Screen
        /\ UNCHANGED <<accepted, flushed>>
        /\ out' = IF out_screen /\ data[tail] # NUL
                  THEN [out EXCEPT ![Screen] = Append(out[Screen], data[tail])] ELSE out
    BY DEF ScreenPut
  <2>2. /\ flushed \in 0 .. Len(accepted) - 1 /\ data[tail] = accepted[flushed + 1]
        /\ Handed(Screen) = flushed + (IF dev[c] > Screen THEN 1 ELSE 0)
    BY <1>1, <2>1, TailIsNext
  <2>3. Handed(Screen)' = flushed + (IF dev[c] + 1 > Screen THEN 1 ELSE 0)
    BY <1>1, HandedTurn
  <2>4. ~(dev[c] > Screen) /\ dev[c] + 1 > Screen  BY <2>1 DEF Screen
  <2>5. Handed(Screen) = flushed /\ Handed(Screen)' = flushed + 1
    BY <2>2, <2>3, <2>4, Numbers
  <2> DEFINE shown == SubSeq(accepted, 1, flushed)
  <2>6. shown \in Seq(Char) /\ accepted[flushed + 1] \in Char
    <3>1. \A i \in 1 .. Len(accepted) : accepted[i] \in Char  BY Numbers
    <3>2. flushed + 1 \in 1 .. Len(accepted) /\ \A i \in 1 .. flushed : i \in 1 .. Len(accepted)
      BY <2>2, Numbers
    <3> QED  BY <3>1, <3>2, SubSeqProperties, Numbers
  <2>7. Append(shown, accepted[flushed + 1]) = SubSeq(accepted, 1, flushed + 1)
    BY <2>2, PrefixGrows DEF TypeOK
  <2> HIDE DEF shown
  <2>8. WithoutNULs(SubSeq(accepted, 1, flushed + 1))
          = IF data[tail] = NUL THEN WithoutNULs(shown) ELSE Append(WithoutNULs(shown), data[tail])
    <3>1. ASSUME NEW x \in Char
          PROVE  WithoutNULs(Append(shown, x))
                   = IF x = NUL THEN WithoutNULs(shown) ELSE Append(WithoutNULs(shown), x)
      BY <2>6, WithoutNULsOfAppend
    <3> QED  BY <2>2, <2>6, <2>7, <3>1
  <2>9. out_screen => out[Screen] = WithoutNULs(shown)  BY <1>2, <2>5 DEF shown
  <2>10. CASE out_screen /\ data[tail] # NUL
    <3>1. out'[Screen] = Append(out[Screen], data[tail])  BY <1>1, <2>1, <2>10 DEF TypeOK
    <3> QED  BY <1>3, <2>1, <2>5, <2>8, <2>9, <2>10, <3>1
  <2>11. CASE ~(out_screen /\ data[tail] # NUL)
    <3>1. out'[Screen] = out[Screen]  BY <2>1, <2>11
    <3> QED  BY <1>2, <1>3, <2>1, <2>5, <2>8, <2>9, <2>11, <3>1
  <2> QED  BY <2>10, <2>11
<1>8. CASE \E c \in Callers : Advance(c)
  <2>1. UNCHANGED <<accepted, out>>  BY <1>8 DEF Advance
  <2>2. Handed(Screen)' = Handed(Screen)  BY <1>1, <1>8, HandedAdvance
  <2> QED  BY <1>2, <1>3, <2>1, <2>2
<1> QED
  BY <1>4, <1>5, <1>6, <1>7, <1>8
  DEF Next, Call, Putc, Write, Puts, Flush, BufferUsage, Begin, Step, Acquire, Release,
      ReadUsage, PutFull, PutDone, FlushNothing, FlushBegin, FlushEnd, Halted, vars,
      locals, history

\* The screen, when it is selected, draws the stored stream as far as it was
\* handed to it, in order and without its NULs (tty.c:133-151).
THEOREM ScreenOutputIsStream == Spec => []ScreenShowsStream
<1>1. Init => ScreenShowsStream
  <2> SUFFICES ASSUME Init
               PROVE  out[Screen] = <<>> /\ WithoutNULs(SubSeq(accepted, 1, Handed(Screen))) = <<>>
    BY DEF ScreenShowsStream
  <2>1. Screen \in Devices /\ ~(0 > Screen)  BY DEF Screen, Devices
  <2>2. Handed(Screen) = 0  BY <2>1 DEF Init, Handed
  <2>3. SubSeq(accepted, 1, Handed(Screen)) = <<>>  BY <2>2, SubSeqEmpty DEF Init
  <2> QED  BY <2>1, <2>3, WithoutNULsOfEmpty DEF Init
<1> QED
  BY <1>1, ScreenNext, RingInit, RingNext, LocalsInOrder, TypeCorrect, MutualExclusion,
     PTL DEF Spec

-----------------------------------------------------------------------------
(* Refinement. *)

LEMMA CommittedByHolder ==
    ASSUME LockGuardsRing, NEW c \in Callers, Holds(c)
    PROVE  Committed = accepted \o rest[c]
<1>1. Holds(CHOOSE e \in Callers : Holds(e)) /\ (CHOOSE e \in Callers : Holds(e)) \in Callers
  OBVIOUS
<1>2. (CHOOSE e \in Callers : Holds(e)) = c  BY <1>1 DEF LockGuardsRing
<1> QED  BY <1>2 DEF Committed

\* The same after a step.
LEMMA CommittedByNextHolder ==
    ASSUME LockGuardsRing', NEW c \in Callers, Holds(c)'
    PROVE  Committed' = accepted' \o rest'[c]
<1>1. Holds(CHOOSE e \in Callers : Holds(e))' /\ (CHOOSE e \in Callers : Holds(e))' \in Callers
  OBVIOUS
<1>2. (CHOOSE e \in Callers : Holds(e))' = c  BY <1>1 DEF LockGuardsRing
<1> QED  BY <1>2 DEF Committed

\* A step that is not seen on the console: the stream, the devices and what
\* they were handed stay.
LEMMA Unseen ==
    ASSUME TypeOK, Committed' = Committed, UNCHANGED <<out, devices>>,
           \A d \in Devices : Handed(d)' = Handed(d)
    PROVE  UNCHANGED Console!vars
<1>1. [d \in Devices |-> Handed(d)]' = [d \in Devices |-> Handed(d)]  OBVIOUS
<1> QED  BY <1>1 DEF Console!vars, devices

\* The lock holder goes on with its call without storing or handing over
\* anything.
LEMMA HolderUnseen ==
    ASSUME TypeOK, LockGuardsRing, LockGuardsRing', NEW c \in Callers, Holds(c), Holds(c)',
           UNCHANGED <<accepted, out, devices>>, rest'[c] = rest[c],
           \A d \in Devices : Handed(d)' = Handed(d)
    PROVE  UNCHANGED Console!vars
<1>1. Committed = accepted \o rest[c]  BY CommittedByHolder
<1>2. Committed' = accepted' \o rest'[c]  BY CommittedByNextHolder
<1> QED  BY <1>1, <1>2, Unseen

LEMMA CommittedByNone ==
    ASSUME \A c \in Callers : ~Holds(c)
    PROVE  Committed = accepted
BY DEF Committed

LEMMA CommittedByNoneNext ==
    ASSUME \A c \in Callers : ~Holds(c)'
    PROVE  Committed' = accepted'
BY DEF Committed

\* Beginning a call shows nothing.
LEMMA RefineCall ==
    ASSUME TypeOK, LockGuardsRing, LockGuardsRing', NEW c \in Callers, Call(c)
    PROVE  UNCHANGED Console!vars
<1>1. /\ pc[c] = "idle" /\ pc' = [pc EXCEPT ![c] = "acquire"]
      /\ UNCHANGED <<accepted, flushed, out, devices, dev>>
      /\ \E m : rest' = [rest EXCEPT ![c] = m]
  BY DEF Call, Putc, Write, Puts, Flush, BufferUsage, Begin, history
<1>2. \A d \in Devices : Handed(d)' = Handed(d)  BY <1>1, HandedFrame
<1>3. \A e \in Callers : Holds(e)' <=> Holds(e)  BY <1>1 DEF Holds, TypeOK
<1>4. CASE \E e \in Callers : Holds(e)
  <2> PICK e \in Callers : Holds(e)  BY <1>4
  <2>1. e # c /\ Holds(e)'  BY <1>1, <1>3 DEF Holds
  <2>2. rest'[e] = rest[e]  BY <1>1, <2>1 DEF TypeOK
  <2> QED  BY <1>1, <1>2, <2>1, <2>2, HolderUnseen
<1>5. CASE \A e \in Callers : ~Holds(e)
  <2>1. Committed = accepted /\ Committed' = accepted'
    BY <1>3, <1>5, CommittedByNone, CommittedByNoneNext
  <2> QED  BY <1>1, <1>2, <2>1, Unseen
<1> QED  BY <1>4, <1>5

\* Winning the spinlock is the moment the message joins the stream.
LEMMA RefineAcquire ==
    ASSUME TypeOK, LockGuardsRing, LockGuardsRing', NEW c \in Callers, LocalInv(c), Acquire(c)
    PROVE  Console!Next \/ UNCHANGED Console!vars
<1>1. /\ pc[c] = "acquire" /\ UNCHANGED <<accepted, flushed, out, devices, rest, dev>>
      /\ pc' = IF tty_lock = 0 THEN [pc EXCEPT ![c] = op[c]] ELSE pc
  BY DEF Acquire, locals, history
<1>2. \A d \in Devices : Handed(d)' = Handed(d)  BY <1>1, HandedFrame
<1>3. CASE tty_lock # 0
  <2>1. pc' = pc  BY <1>1, <1>3
  <2>2. Committed' = Committed  BY <1>1, <2>1 DEF Committed, Holds
  <2> QED  BY <1>1, <1>2, <2>2, Unseen
<1>4. CASE tty_lock = 0
  <2>1. tty_lock # 1  BY <1>4
  <2>2. \A e \in Callers : ~Holds(e)  BY <2>1, Zenon DEF LockGuardsRing
  <2>3. Committed = accepted  BY <2>2, CommittedByNone
  <2>4. Holds(c)'  BY <1>1, <1>4 DEF Holds, TypeOK
  <2>5. Committed' = accepted \o rest[c]  BY <1>1, <2>4, CommittedByNextHolder
  <2>6. CASE rest[c] = <<>>
    <3>1. Committed' = Committed  BY <2>3, <2>5, <2>6, ConcatEmptySeq DEF TypeOK
    <3> QED  BY <1>1, <1>2, <3>1, Unseen
  <2>7. CASE rest[c] # <<>>
    <3>1. rest[c] \in Messages \cup {<<ch>> : ch \in Char}  BY <1>1, <2>7 DEF LocalInv
    <3>2. [d \in Devices |-> Handed(d)]' = [d \in Devices |-> Handed(d)]  BY <1>2
    <3>3. Console!Commit(rest[c])
      BY <1>1, <2>3, <2>5, <3>2 DEF Console!Commit, devices
    <3> QED  BY <3>1, <3>3 DEF Console!Next
  <2> QED  BY <2>6, <2>7
<1> QED  BY <1>3, <1>4

\* A call ends with its message in the ring or shown.
LEMMA RefineRelease ==
    ASSUME TypeOK, LockGuardsRing, NEW c \in Callers, LocalInv(c), Release(c)
    PROVE  UNCHANGED Console!vars
<1>1. /\ pc[c] = "release" /\ UNCHANGED <<accepted, flushed, out, devices, dev>>
      /\ pc' = [pc EXCEPT ![c] = "idle"]
  BY DEF Release, locals, history
<1>2. Holds(c) /\ rest[c] = <<>>  BY <1>1 DEF Holds, LocalInv
<1>3. Committed = accepted
  BY <1>2, CommittedByHolder, ConcatEmptySeq DEF TypeOK
<1>4. \A e \in Callers : ~Holds(e)'
  BY <1>1, <1>2 DEF LockGuardsRing, Holds, TypeOK
<1>5. \A d \in Devices : Handed(d)' = Handed(d)  BY <1>1, HandedFrame
<1> QED  BY <1>1, <1>3, <1>4, <1>5, CommittedByNoneNext, Unseen

\* Storing a character moves it from the message to the ring.
LEMMA ConcatMovesHead ==
    ASSUME NEW S, NEW s \in Seq(S), NEW t \in Seq(S), t # <<>>
    PROVE  Append(s, Head(t)) \o Tail(t) = s \o t
<1>1. /\ Head(t) \in S /\ Tail(t) \in Seq(S) /\ Len(Tail(t)) = Len(t) - 1
      /\ Len(t) \in Nat /\ Len(s) \in Nat /\ Len(t) > 0 /\ Head(t) = t[1]
      /\ \A i \in 1 .. Len(t) - 1 : Tail(t)[i] = t[i + 1]
  BY HeadTailProperties
<1>2. /\ Append(s, Head(t)) \in Seq(S) /\ Len(Append(s, Head(t))) = Len(s) + 1
      /\ \A i \in 1 .. Len(s) : Append(s, Head(t))[i] = s[i]
      /\ Append(s, Head(t))[Len(s) + 1] = Head(t)
  BY <1>1, AppendProperties
<1>3. /\ s \o t \in Seq(S) /\ Len(s \o t) = Len(s) + Len(t)
      /\ \A i \in 1 .. Len(s) + Len(t) :
           (s \o t)[i] = IF i <= Len(s) THEN s[i] ELSE t[i - Len(s)]
  BY ConcatProperties
<1>4. /\ Append(s, Head(t)) \o Tail(t) \in Seq(S)
      /\ Len(Append(s, Head(t)) \o Tail(t)) = Len(s) + Len(t)
      /\ \A i \in 1 .. Len(s) + Len(t) :
           (Append(s, Head(t)) \o Tail(t))[i] =
             IF i <= Len(s) + 1 THEN Append(s, Head(t))[i] ELSE Tail(t)[i - (Len(s) + 1)]
  <2> DEFINE u == Append(s, Head(t))
  <2>1. u \in Seq(S) /\ Len(u) = Len(s) + 1  BY <1>2
  <2> HIDE DEF u
  <2>2. /\ u \o Tail(t) \in Seq(S) /\ Len(u \o Tail(t)) = Len(u) + Len(Tail(t))
        /\ \A i \in 1 .. Len(u) + Len(Tail(t)) :
             (u \o Tail(t))[i] = IF i <= Len(u) THEN u[i] ELSE Tail(t)[i - Len(u)]
    <3>1. Tail(t) \in Seq(S)
      BY <1>1, Zenon
    <3>2. u \in Seq(S)
      BY <2>1, Zenon
    <3> QED
      BY <3>1, <3>2, ConcatProperties, Zenon
  <2>3. Len(u) + Len(Tail(t)) = Len(s) + Len(t)  BY <1>1, <2>1
  <2>4. /\ u \o Tail(t) \in Seq(S) /\ Len(u \o Tail(t)) = Len(s) + Len(t)
        /\ \A i \in 1 .. Len(s) + Len(t) :
             (u \o Tail(t))[i] = IF i <= Len(s) + 1 THEN u[i] ELSE Tail(t)[i - (Len(s) + 1)]
    BY <2>1, <2>2, <2>3
  <2> QED  BY <2>4 DEF u
<1>5. ASSUME NEW i \in 1 .. Len(s) + Len(t)
      PROVE  (Append(s, Head(t)) \o Tail(t))[i] = (s \o t)[i]
  <2>1. CASE i <= Len(s)  BY <1>1, <1>2, <1>3, <1>4, <2>1
  <2>2. CASE i = Len(s) + 1  BY <1>1, <1>2, <1>3, <1>4, <2>2
  <2>3. CASE i > Len(s) + 1
    <3>1. /\ i - (Len(s) + 1) \in 1 .. Len(t) - 1
          /\ i - (Len(s) + 1) + 1 = i - Len(s)
      BY <1>1, <2>3
    <3>2. Tail(t)[i - (Len(s) + 1)] = t[i - Len(s)]  BY <1>1, <3>1
    <3> QED  BY <1>1, <1>3, <1>4, <2>3, <3>2
  <2> QED  BY <1>1, <2>1, <2>2, <2>3
<1> QED  BY <1>3, <1>4, <1>5, SeqEqual

LEMMA RefinePutChar ==
    ASSUME TypeOK, LockGuardsRing, LockGuardsRing', NEW c \in Callers, PutChar(c)
    PROVE  UNCHANGED Console!vars
<1>1. /\ pc[c] = "put" /\ rest[c] # <<>> /\ UNCHANGED <<flushed, out, devices, dev>>
      /\ accepted' = Append(accepted, Head(rest[c])) /\ rest' = [rest EXCEPT ![c] = Tail(rest[c])]
      /\ \E w \in {"put", "flush"} : pc' = [pc EXCEPT ![c] = w]
  BY DEF PutChar
<1>2. Holds(c) /\ Holds(c)' /\ rest'[c] = Tail(rest[c])  BY <1>1 DEF Holds, TypeOK
<1>3. Committed = accepted \o rest[c] /\ Committed' = accepted' \o rest'[c]
  BY <1>2, CommittedByHolder, CommittedByNextHolder
<1>4. Committed' = Committed
  <2>1. accepted \in Seq(Char) /\ rest[c] \in Seq(Char)  BY DEF TypeOK
  <2>2. Append(accepted, Head(rest[c])) \o Tail(rest[c]) = accepted \o rest[c]
    BY <1>1, <2>1, ConcatMovesHead
  <2> QED  BY <1>1, <1>2, <1>3, <2>2
<1>5. \A d \in Devices : Handed(d)' = Handed(d)  BY <1>1, HandedFrame
<1> QED  BY <1>1, <1>4, <1>5, Unseen

\* Handing the character at tail to the next device is the device's next step
\* along the stream.
LEMMA RefineDeliver ==
    ASSUME TypeOK, LockGuardsRing, LockGuardsRing', RingInv, \A c \in Callers : LocalInv(c),
           NEW c \in Callers, SerialPut(c) \/ ScreenPut(c)
    PROVE  Console!Deliver(dev[c])
<1> DEFINE d == dev[c]
           ch == Committed[flushed + 1]
           pos == [e \in Devices |-> Handed(e)]
<1>1. /\ pc[c] = "emit" /\ left[c] > 0 /\ d \in Devices /\ (d = Screen \/ d \in Ports)
      /\ UNCHANGED <<accepted, flushed, devices, pc, rest>>
      /\ dev' = [dev EXCEPT ![c] = d + 1]
  BY Numbers DEF SerialPut, ScreenPut, Devices, Ports, Screen
<1>2. Holds(c) /\ Holds(c)'  BY <1>1 DEF Holds
<1>3. Committed = accepted \o rest[c] /\ Committed' = Committed
  BY <1>1, <1>2, CommittedByHolder, CommittedByNextHolder
<1>4. flushed \in 0 .. Len(accepted) - 1 /\ data[tail] = accepted[flushed + 1]
      /\ \A e \in Devices : Handed(e) = flushed + (IF d > e THEN 1 ELSE 0)
  BY <1>1, TailIsNext
<1>5. flushed < Len(Committed) /\ ch = data[tail]
  <2>1. accepted \in Seq(Char) /\ rest[c] \in Seq(Char)  BY DEF TypeOK
  <2>2. /\ Len(Committed) = Len(accepted) + Len(rest[c])
        /\ \A i \in 1 .. Len(accepted) + Len(rest[c]) :
             Committed[i] = IF i <= Len(accepted) THEN accepted[i] ELSE rest[c][i - Len(accepted)]
    BY <1>3, <2>1, ConcatProperties
  <2>3. Len(accepted) \in Nat /\ Len(rest[c]) \in Nat  BY <2>1
  <2> QED  BY <1>4, <2>2, <2>3
<1>6. pos[d] = flushed /\ \A e \in Devices : pos[e] = IF e < d THEN pos[d] + 1 ELSE pos[d]
  BY <1>1, <1>4, Numbers DEF Devices
<1>7. \A e \in Devices : Handed(e)' = flushed + (IF d + 1 > e THEN 1 ELSE 0)
  <2> TAKE e \in Devices
  <2>1. \A b \in Callers : b # c => dev'[b] = 0
    <3> SUFFICES ASSUME NEW b \in Callers, b # c PROVE dev[b] = 0
      BY <1>1 DEF TypeOK
    <3>1. ~Holds(b)  BY <1>2 DEF LockGuardsRing
    <3>2. ~(dev[b] > 0)  BY <3>1 DEF LocalInv, Holds
    <3> QED  BY <3>2, Numbers
  <2>2. dev'[c] = d + 1  BY <1>1 DEF TypeOK
  <2>3. (\E b \in Callers : dev'[b] > e) <=> d + 1 > e  BY <2>1, <2>2 DEF Devices
  <2> QED  BY <1>1, <2>3 DEF Handed
<1>8. [e \in Devices |-> Handed(e)]' = [pos EXCEPT ![d] = pos[d] + 1]
  <2>1. \A e \in Devices : Handed(e)' = IF e = d THEN pos[d] + 1 ELSE pos[e]
    <3>1. \A e \in Devices : Handed(e)' = IF d + 1 > e THEN flushed + 1 ELSE flushed
      BY <1>4, <1>7, Numbers
    <3>2. \A e \in Devices : d + 1 > e <=> (e < d \/ e = d)  BY <1>1, Numbers DEF Devices
    <3>3. \A e \in Devices : e < d => e # d  BY <1>1, Numbers DEF Devices
    <3> QED  BY <1>6, <3>1, <3>2, <3>3
  <2> QED  BY <2>1
<1>9. out' = [out EXCEPT ![d] = IF Console!Receives(d, ch) THEN Append(out[d], ch) ELSE out[d]]
  <2>1. out = [out EXCEPT ![d] = out[d]]  BY DEF TypeOK
  <2>2. CASE SerialPut(c)
    <3>1. d # Console!Screen
      BY <2>2, DevicesAssumption DEF SerialPut, Ports, Console!Screen
    <3>2. out' = IF out_serial[d] THEN [out EXCEPT ![d] = Append(out[d], data[tail])] ELSE out
      BY <2>2 DEF SerialPut
    <3> QED  BY <1>5, <2>1, <3>1, <3>2 DEF Console!Receives
  <2>3. CASE ScreenPut(c)
    <3>1. d = Screen /\ d = Console!Screen  BY <2>3 DEF ScreenPut, Screen, Console!Screen
    <3>2. out' = IF out_screen /\ data[tail] # NUL
                 THEN [out EXCEPT ![Screen] = Append(out[Screen], data[tail])] ELSE out
      BY <2>3 DEF ScreenPut
    <3> QED  BY <1>5, <2>1, <3>1, <3>2 DEF Console!Receives
  <2> QED  BY <2>2, <2>3
<1>10. Console!Devices = Devices  BY DEF Console!Devices, Devices
<1> QED
  BY <1>1, <1>3, <1>5, <1>6, <1>8, <1>9, <1>10 DEF Console!Deliver, devices

\* The remaining steps inside a call cannot be seen on the console.
LEMMA RefineQuiet ==
    ASSUME TypeOK, TypeOK', LockGuardsRing, LockGuardsRing', RingInv,
           \A c \in Callers : LocalInv(c), (\A c \in Callers : LocalInv(c))',
           NEW c \in Callers,
           \/ ReadUsage(c) \/ PutFull(c) \/ PutDone(c) \/ FlushNothing(c)
           \/ FlushBegin(c) \/ Advance(c) \/ FlushEnd(c)
    PROVE  UNCHANGED Console!vars
<1>1. ~Acquire(c) /\ ~Release(c) /\ Step(c)
  BY DEF Step, Acquire, Release, ReadUsage, PutFull, PutDone, FlushNothing, FlushBegin,
         Advance, FlushEnd
<1>2. Holds(c) /\ \E w \in {"put", "flush", "emit", "release"} : pc' = [pc EXCEPT ![c] = w]
  BY <1>1, HolderMoves
<1>3. Holds(c)'  BY <1>2 DEF Holds, TypeOK
<1>4. UNCHANGED <<accepted, out, devices, rest>>
  BY DEF ReadUsage, PutFull, PutDone, FlushNothing, FlushBegin, Advance, FlushEnd,
         locals, history
<1>5. \A d \in Devices : Handed(d)' = Handed(d)
  <2>1. CASE Advance(c)  BY <2>1, HandedAdvance
  <2>2. CASE ~Advance(c)
    <3>1. UNCHANGED <<dev, flushed>>
      BY <2>2 DEF ReadUsage, PutFull, PutDone, FlushNothing, FlushBegin, FlushEnd,
                  locals, history
    <3> QED  BY <3>1, HandedFrame
  <2> QED  BY <2>1, <2>2
<1> QED  BY <1>2, <1>3, <1>4, <1>5, HolderUnseen

LEMMA RefineNext ==
    /\ TypeOK /\ TypeOK' /\ LockGuardsRing /\ LockGuardsRing' /\ RingInv
    /\ (\A c \in Callers : LocalInv(c))
    /\ (\A c \in Callers : LocalInv(c))'
    /\ [Next]_vars
    => [Console!Next]_Console!vars
<1> SUFFICES ASSUME TypeOK, TypeOK', LockGuardsRing, LockGuardsRing', RingInv,
                    \A c \in Callers : LocalInv(c), (\A c \in Callers : LocalInv(c))',
                    [Next]_vars
             PROVE  Console!Next \/ UNCHANGED Console!vars
  OBVIOUS
<1>1. CASE \E c \in Callers : Call(c)  BY <1>1, RefineCall
<1>2. CASE \E c \in Callers : Step(c)
  <2> PICK c \in Callers : Step(c)  BY <1>2
  <2>1. CASE Acquire(c)  BY <2>1, RefineAcquire
  <2>2. CASE Release(c)  BY <2>2, RefineRelease
  <2>3. CASE PutChar(c)  BY <2>3, RefinePutChar
  <2>4. CASE SerialPut(c) \/ ScreenPut(c)
    <3>1. Console!Deliver(dev[c])  BY <2>4, RefineDeliver
    <3>2. dev[c] \in Console!Devices
      BY <2>4, Numbers DEF SerialPut, ScreenPut, Ports, Screen, Console!Devices
    <3> QED  BY <3>1, <3>2 DEF Console!Next
  <2>5. CASE \/ ReadUsage(c) \/ PutFull(c) \/ PutDone(c) \/ FlushNothing(c)
             \/ FlushBegin(c) \/ Advance(c) \/ FlushEnd(c)
    BY <2>5, RefineQuiet
  <2> QED  BY <2>1, <2>2, <2>3, <2>4, <2>5 DEF Step
<1>3. CASE Halted \/ UNCHANGED vars
  <2>1. UNCHANGED <<pc, accepted, rest, out, devices, dev, flushed>>
    BY <1>3 DEF Halted, vars, locals, history
  <2>2. Committed' = Committed  BY <2>1 DEF Committed, Holds
  <2>3. \A d \in Devices : Handed(d)' = Handed(d)  BY <2>1, HandedFrame
  <2> QED  BY <2>1, <2>2, <2>3, Unseen
<1> QED  BY <1>1, <1>2, <1>3 DEF Next

LEMMA RefineInit == Init => Console!Init
<1> SUFFICES ASSUME Init PROVE Console!Init  OBVIOUS
<1>1. Committed = <<>>  BY DEF Init, Holds, Committed
<1>2. \A d \in Devices : Handed(d) = 0  BY DEF Init, Handed, Devices
<1> QED
  BY <1>1, <1>2 DEF Init, Devices, Ports, Console!Init, Console!Devices, Console!Ports

\* tty.c is the console of TtyConsole: every message reaches every selected
\* device whole, unmixed with the messages of other callers, in one order for
\* all devices and in lockstep, whatever the ring size, the device selection and
\* the number of callers (tty.c:64-155, 277-314).
THEOREM TtyImplementsConsole == Spec => ImplementsConsole
BY RefineInit, RefineNext, RingInit, RingNext, LocalsInOrder, TypeCorrect, MutualExclusion,
   PTL DEF Spec, ImplementsConsole, Console!Spec
=============================================================================
