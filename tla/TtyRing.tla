------------------------------ MODULE TtyRing ------------------------------
(***************************************************************************)
(* The console of the kernel: drivers/tty.c from tty_init on.              *)
(*                                                                         *)
(* Callers (CPUs that run kernel code) print through tty_putc, tty_write   *)
(* and tty_puts, force the output with tty_flush and ask how much is       *)
(* waiting with tty_buffer_usage.  Each call takes the spinlock tty_lock   *)
(* and works on one ring buffer: characters are stored at head, a newline  *)
(* or a full ring flushes, and a flush hands every character at tail to    *)
(* the selected serial ports and then to the screen.                       *)
(*                                                                         *)
(* A step is one iteration of a loop of the code, or the straight-line     *)
(* code between two of them.  The ring is only touched with the lock held, *)
(* so this is finer than what another caller can observe.  What the        *)
(* hardware does with a character it was handed is not part of the module. *)
(***************************************************************************)
EXTENDS Naturals, Sequences

CONSTANTS
    Callers,        \* the CPUs that run kernel code
    Size,           \* TTY_BUFFER_SIZE, "modify there safely" in include/solum.h
    MaxSerialDevs,  \* MAX_SERIAL_DEVS
    Char,           \* the characters
    NL,             \* '\n'
    NUL,            \* '\0'
    Messages,       \* what a caller may pass to tty_write or tty_puts
    MaxCalls        \* BOUND: calls begun, by all callers together

ASSUME SizeAssumption == Size \in Nat \ {0}
ASSUME DevicesAssumption == MaxSerialDevs \in Nat
ASSUME CharAssumption == {NL, NUL} \subseteq Char /\ NL # NUL
ASSUME MessagesAssumption == Messages \subseteq Seq(Char)
ASSUME MaxCallsAssumption == MaxCalls \in Nat

VARIABLES
    \* shared memory of tty.c
    tty_lock,       \* 0 or 1
    data,           \* tty_ring_buffer.data
    head,           \* tty_ring_buffer.head: where the next character is stored
    tail,           \* tty_ring_buffer.tail: the oldest character not yet flushed
    buffer_full,    \* tty_ring_buffer.buffer_full
    out_serial,     \* out_serial[s]: serial port s is selected
    out_screen,     \* the screen is selected; FALSE where it is not compiled in
    \* the calls in progress
    pc,             \* per caller: where it stands
    op,             \* per caller: what its call does once it has the lock
    rest,           \* per caller: characters of its message not yet stored
    left,           \* per caller: chars_to_flush - i of tty_flush_buffer
    dev,            \* per caller: the next device of the flush loop
    usage,          \* per caller: what its last tty_buffer_usage returned
    calls,          \* how many calls were begun
    \* history, read by the properties alone
    accepted,       \* every character ever stored in the ring, in order
    flushed,        \* how many characters left the ring
    out             \* per device: the characters it transmitted or drew

ring == <<data, head, tail, buffer_full>>
devices == <<out_serial, out_screen>>
locals == <<op, rest, left, dev, usage>>
history == <<accepted, flushed, out>>
vars == <<tty_lock, ring, devices, pc, locals, calls, history>>

\* Variants named ...Bug are plausible slips in the code: no action uses them; each
\* property is checked to fail when one of them stands in for the definition below it.
FlushNeverBug == FALSE

flush_on_newline == TRUE    \* set in the initialiser of tty_ring_buffer, never written

Screen == MaxSerialDevs     \* served after the serial ports
Ports == 0 .. MaxSerialDevs - 1
Devices == 0 .. MaxSerialDevs
Slots == 0 .. Size - 1

NoWrapBug(i) == i + 1

Succ(i) == (i + 1) % Size

FullReadAsEmptyBug == IF head >= tail THEN head - tail ELSE Size - tail + head

WrappedCountBug ==
    IF buffer_full THEN Size ELSE IF head >= tail THEN head - tail ELSE Size - tail + head - 1

\* The number of characters in the ring, as tty_flush_buffer and tty_buffer_usage count them.
Used ==
    IF buffer_full THEN Size
    ELSE IF head >= tail THEN head - tail
    ELSE Size - tail + head

-----------------------------------------------------------------------------
\* The state after tty_init: the static initialisers, and any selection of
\* devices (tty_parse_cmdline selects none when there is no command line).
Init ==
    /\ tty_lock = 0
    /\ data = [i \in Slots |-> NUL]
    /\ head = 0
    /\ tail = 0
    /\ buffer_full = FALSE
    /\ out_serial \in [Ports -> BOOLEAN]
    /\ out_screen \in BOOLEAN
    /\ pc = [c \in Callers |-> "idle"]
    /\ op = [c \in Callers |-> "put"]
    /\ rest = [c \in Callers |-> <<>>]
    /\ left = [c \in Callers |-> 0]
    /\ dev = [c \in Callers |-> 0]
    /\ usage = [c \in Callers |-> 0]
    /\ calls = 0
    /\ accepted = <<>>
    /\ flushed = 0
    /\ out = [d \in Devices |-> <<>>]

\* The caller enters the call and goes to the spinlock.
Begin(c, what, message) ==
    /\ pc[c] = "idle"
    /\ calls < MaxCalls
    /\ calls' = calls + 1
    /\ pc' = [pc EXCEPT ![c] = "acquire"]
    /\ op' = [op EXCEPT ![c] = what]
    /\ rest' = [rest EXCEPT ![c] = message]
    /\ UNCHANGED <<tty_lock, ring, devices, left, dev, usage, history>>

\* tty_putc(ch)
Putc(c) == \E ch \in Char : Begin(c, "put", <<ch>>)

\* tty_write(buf, len); with len = 0 it returns before it takes the lock.
Write(c) == \E m \in Messages \ {<<>>} : Begin(c, "put", m)

\* tty_puts(s): a C string holds no NUL, and may be empty.
Puts(c) == \E m \in Messages : (\A i \in DOMAIN m : m[i] # NUL) /\ Begin(c, "put", m)

\* tty_flush()
Flush(c) == Begin(c, "flush", <<>>)

\* tty_buffer_usage()
BufferUsage(c) == Begin(c, "usage", <<>>)

EntersLockedBug(c) ==
    /\ pc[c] = "acquire"
    /\ tty_lock' = 1
    /\ pc' = [pc EXCEPT ![c] = op[c]]
    /\ UNCHANGED <<ring, devices, locals, calls, history>>

\* One turn of tty_lock_acquire: the atomic exchange, and another turn when it
\* returned 1.
Acquire(c) ==
    /\ pc[c] = "acquire"
    /\ tty_lock' = 1
    /\ pc' = IF tty_lock = 0 THEN [pc EXCEPT ![c] = op[c]] ELSE pc
    /\ UNCHANGED <<ring, devices, locals, calls, history>>

\* tty_lock_release, and the return to the caller.
Release(c) ==
    /\ pc[c] = "release"
    /\ tty_lock' = 0
    /\ pc' = [pc EXCEPT ![c] = "idle"]
    /\ UNCHANGED <<ring, devices, locals, calls, history>>

\* The body of tty_buffer_usage.
ReadUsage(c) ==
    /\ pc[c] = "usage"
    /\ usage' = [usage EXCEPT ![c] = Used]
    /\ pc' = [pc EXCEPT ![c] = "release"]
    /\ UNCHANGED <<tty_lock, ring, devices, op, rest, left, dev, calls, history>>

\* tty_buffer_putc finds the ring full and flushes before it stores.
PutFull(c) ==
    /\ pc[c] = "put"
    /\ rest[c] # <<>>
    /\ buffer_full
    /\ pc' = [pc EXCEPT ![c] = "flush"]
    /\ UNCHANGED <<tty_lock, ring, devices, locals, calls, history>>

LockPerCharacterBug(c) ==
    LET ch == Head(rest[c]) IN
    /\ pc[c] = "put"
    /\ rest[c] # <<>>
    /\ ~buffer_full
    /\ data' = [data EXCEPT ![head] = ch]
    /\ head' = Succ(head)
    /\ buffer_full' = (head' = tail)
    /\ rest' = [rest EXCEPT ![c] = Tail(@)]
    /\ accepted' = Append(accepted, ch)
    /\ tty_lock' = IF ch = NL THEN 1 ELSE 0
    /\ pc' = [pc EXCEPT ![c] = IF ch = NL THEN "flush" ELSE "acquire"]
    /\ UNCHANGED <<tail, devices, op, left, dev, usage, calls, flushed, out>>

\* tty_buffer_putc stores the next character; a newline is followed by a flush.
PutChar(c) ==
    LET ch == Head(rest[c]) IN
    /\ pc[c] = "put"
    /\ rest[c] # <<>>
    /\ ~buffer_full
    /\ data' = [data EXCEPT ![head] = ch]
    /\ head' = Succ(head)
    /\ buffer_full' = (head' = tail)
    /\ rest' = [rest EXCEPT ![c] = Tail(@)]
    /\ accepted' = Append(accepted, ch)
    /\ pc' = [pc EXCEPT ![c] = IF flush_on_newline /\ ch = NL THEN "flush" ELSE "put"]
    /\ UNCHANGED <<tty_lock, tail, devices, op, left, dev, usage, calls, flushed, out>>

ReturnsLockedBug(c) ==
    /\ pc[c] = "put"
    /\ rest[c] = <<>>
    /\ pc' = [pc EXCEPT ![c] = "idle"]
    /\ UNCHANGED <<tty_lock, ring, devices, locals, calls, history>>

\* The loop over the message, or tty_flush, is through.
PutDone(c) ==
    /\ pc[c] = "put"
    /\ rest[c] = <<>>
    /\ pc' = [pc EXCEPT ![c] = "release"]
    /\ UNCHANGED <<tty_lock, ring, devices, locals, calls, history>>

FullNotFlushedBug(c) ==
    /\ pc[c] = "flush"
    /\ head = tail
    /\ pc' = [pc EXCEPT ![c] = "put"]
    /\ UNCHANGED <<tty_lock, ring, devices, locals, calls, history>>

\* tty_flush_buffer returns early: the ring is empty.
FlushNothing(c) ==
    /\ pc[c] = "flush"
    /\ ~buffer_full /\ head = tail
    /\ pc' = [pc EXCEPT ![c] = "put"]
    /\ UNCHANGED <<tty_lock, ring, devices, locals, calls, history>>

\* tty_flush_buffer computes chars_to_flush, once, and enters its loop.
FlushBegin(c) ==
    /\ pc[c] = "flush"
    /\ buffer_full \/ head # tail
    /\ left' = [left EXCEPT ![c] = Used]
    /\ pc' = [pc EXCEPT ![c] = "emit"]
    /\ UNCHANGED <<tty_lock, ring, devices, op, rest, dev, usage, calls, history>>

SerialSkipsNULBug(c) ==
    /\ pc[c] = "emit"
    /\ left[c] > 0
    /\ dev[c] \in Ports
    /\ out' = IF out_serial[dev[c]] /\ data[tail] # NUL
              THEN [out EXCEPT ![dev[c]] = Append(@, data[tail])]
              ELSE out
    /\ dev' = [dev EXCEPT ![c] = @ + 1]
    /\ UNCHANGED <<tty_lock, ring, devices, pc, op, rest, left, usage, calls, accepted, flushed>>

\* One turn of the loop over the serial ports.
SerialPut(c) ==
    /\ pc[c] = "emit"
    /\ left[c] > 0
    /\ dev[c] \in Ports
    /\ out' = IF out_serial[dev[c]]
              THEN [out EXCEPT ![dev[c]] = Append(@, data[tail])]
              ELSE out
    /\ dev' = [dev EXCEPT ![c] = @ + 1]
    /\ UNCHANGED <<tty_lock, ring, devices, pc, op, rest, left, usage, calls, accepted, flushed>>

ScreenDrawsNULBug(c) ==
    /\ pc[c] = "emit"
    /\ left[c] > 0
    /\ dev[c] = Screen
    /\ out' = IF out_screen THEN [out EXCEPT ![Screen] = Append(@, data[tail])] ELSE out
    /\ dev' = [dev EXCEPT ![c] = @ + 1]
    /\ UNCHANGED <<tty_lock, ring, devices, pc, op, rest, left, usage, calls, accepted, flushed>>

\* After the serial ports, the screen.
ScreenPut(c) ==
    /\ pc[c] = "emit"
    /\ left[c] > 0
    /\ dev[c] = Screen
    /\ out' = IF out_screen /\ data[tail] # NUL
              THEN [out EXCEPT ![Screen] = Append(@, data[tail])]
              ELSE out
    /\ dev' = [dev EXCEPT ![c] = @ + 1]
    /\ UNCHANGED <<tty_lock, ring, devices, pc, op, rest, left, usage, calls, accepted, flushed>>

\* The end of a turn of the flush loop: the character leaves the ring.
Advance(c) ==
    /\ pc[c] = "emit"
    /\ left[c] > 0
    /\ dev[c] > Screen
    /\ tail' = Succ(tail)
    /\ left' = [left EXCEPT ![c] = @ - 1]
    /\ dev' = [dev EXCEPT ![c] = 0]
    /\ flushed' = flushed + 1
    /\ UNCHANGED <<tty_lock, data, head, buffer_full, devices, pc, op, rest, usage, calls,
                   accepted, out>>

\* The flush loop is through; only now is buffer_full cleared.
FlushEnd(c) ==
    /\ pc[c] = "emit"
    /\ left[c] = 0
    /\ buffer_full' = FALSE
    /\ pc' = [pc EXCEPT ![c] = "put"]
    /\ UNCHANGED <<tty_lock, data, head, tail, devices, locals, calls, history>>

Call(c) == Putc(c) \/ Write(c) \/ Puts(c) \/ Flush(c) \/ BufferUsage(c)

Step(c) ==
    \/ Acquire(c) \/ Release(c)
    \/ ReadUsage(c)
    \/ PutFull(c) \/ PutChar(c) \/ PutDone(c)
    \/ FlushNothing(c) \/ FlushBegin(c)
    \/ SerialPut(c) \/ ScreenPut(c) \/ Advance(c)
    \/ FlushEnd(c)

\* Nobody prints any more: kernel_main has halted the machine.
Halted == calls = MaxCalls /\ (\A c \in Callers : pc[c] = "idle") /\ UNCHANGED vars

Next == (\E c \in Callers : Call(c) \/ Step(c)) \/ Halted

Spec == Init /\ [][Next]_vars

\* A CPU that is inside a call keeps executing it: nothing in the kernel
\* preempts it.  Nobody has to print, and no spinning CPU has to win the
\* exchange against another.
Fairness == \A c \in Callers : WF_vars(Step(c))

FairSpec == Spec /\ Fairness

-----------------------------------------------------------------------------
PcStates == {"idle", "acquire", "usage", "put", "flush", "emit", "release"}

\* Types of all variables; the indices stay inside the ring and the flush loop
\* inside its bounds (tty.c:44-50, 133-154).
TypeOK ==
    /\ tty_lock \in {0, 1}
    /\ data \in [Slots -> Char]
    /\ head \in Slots
    /\ tail \in Slots
    /\ buffer_full \in BOOLEAN
    /\ out_serial \in [Ports -> BOOLEAN]
    /\ out_screen \in BOOLEAN
    /\ pc \in [Callers -> PcStates]
    /\ op \in [Callers -> {"put", "flush", "usage"}]
    /\ rest \in [Callers -> Seq(Char)]
    /\ left \in [Callers -> 0 .. Size]
    /\ dev \in [Callers -> 0 .. MaxSerialDevs + 1]
    /\ usage \in [Callers -> 0 .. Size]
    /\ calls \in 0 .. MaxCalls
    /\ accepted \in Seq(Char)
    /\ flushed \in Nat
    /\ out \in [Devices -> Seq(Char)]

\* The caller is between tty_lock_acquire and the end of tty_lock_release.
Holds(c) == pc[c] \notin {"idle", "acquire"}

\* tty_lock does its work: it is 1 exactly while some caller is inside, and
\* never two are (tty.c:64-72, every entry point of tty.h).
LockGuardsRing ==
    /\ (tty_lock = 1) <=> (\E c \in Callers : Holds(c))
    /\ \A c, d \in Callers : Holds(c) /\ Holds(d) => c = d

\* Characters stored and not yet flushed, and the slot of the i-th of them.
Pending == Len(accepted) - flushed
Slot(i) == IF tail + i < Size THEN tail + i ELSE tail + i - Size

\* Some caller is in the loop of tty_flush_buffer, where buffer_full is stale.
Draining == \E c \in Callers : pc[c] = "emit"

\* The ring is a faithful bounded queue: what was stored and not yet flushed is
\* in it, in order, from tail to head, so that no store overwrites a character
\* still waiting and head = tail is never read as empty when it means full
\* (tty.c:98-111, 122-155).
RingHoldsPending ==
    /\ Pending \in 0 .. Size
    /\ head = Slot(Pending)
    /\ \A i \in 0 .. Pending - 1 : data[Slot(i)] = accepted[flushed + 1 + i]
    /\ ~Draining => (buffer_full <=> Pending = Size)

\* The count computed before the loop stays right while tail moves and
\* buffer_full is stale: a flush empties the ring, and takes no character that
\* is not there (tty.c:127-154).
FlushDrainsRing ==
    \A c \in Callers : pc[c] = "emit" => left[c] = Pending

\* What the flush loop has handed to device d: everything flushed, and the
\* character at tail once the loop has passed d.
Handed(d) == flushed + (IF \E c \in Callers : dev[c] > d THEN 1 ELSE 0)

\* The characters of s other than NUL, in order.
WithoutNULs(s) ==
    LET kept[k \in 0 .. Len(s)] ==
            IF k = 0 THEN <<>>
            ELSE IF s[k] = NUL THEN kept[k - 1]
            ELSE Append(kept[k - 1], s[k])
    IN  kept[Len(s)]

\* Every selected serial port has transmitted exactly the stored stream up to
\* the character it was handed last: none lost, repeated or reordered by a wrap
\* around or by a flush that starts in the middle of a message (tty.c:133-147).
SerialShowsStream ==
    \A d \in Ports :
        out[d] = IF out_serial[d] THEN SubSeq(accepted, 1, Handed(d)) ELSE <<>>

\* The screen has drawn the same stream without its NULs (tty.c:146).
ScreenShowsStream ==
    out[Screen] = IF out_screen
                  THEN WithoutNULs(SubSeq(accepted, 1, Handed(Screen)))
                  ELSE <<>>

\* A complete line never waits in the ring: when nobody is inside a call, the
\* characters still waiting hold no newline (tty.c:108).
NoNewlineHeldBack ==
    tty_lock = 0 => \A i \in flushed + 1 .. Len(accepted) : accepted[i] # NL

\* tty_buffer_usage returns the number of characters that wait, also when head
\* is behind tail and when head = tail (tty.c:320-326).
UsageIsPending ==
    \A c \in Callers : pc[c] = "release" /\ op[c] = "usage" => usage[c] = Pending

\* tty_flush and a newline at the end of a message leave nothing in the ring:
\* when the caller is about to release the lock, all that was stored was shown
\* (tty.c:108-110, 310-314).
FlushReachesDevices ==
    \A c \in Callers :
        /\ pc[c] = "release"
        /\ \/ op[c] = "flush"
           \/ op[c] = "put" /\ accepted # <<>> /\ accepted[Len(accepted)] = NL
        => Pending = 0

-----------------------------------------------------------------------------
\* The stream of the console: the characters stored, then those the holder of
\* the lock is still to store.
Committed ==
    IF \E c \in Callers : Holds(c)
    THEN accepted \o rest[CHOOSE c \in Callers : Holds(c)]
    ELSE accepted

Console == INSTANCE TtyConsole WITH
    stream <- Committed,
    pos <- [d \in Devices |-> Handed(d)]

\* The lock, the ring and the flushes implement the console of TtyConsole:
\* messages of different callers do not mix, however a call is cut by flushes,
\* and the devices see one stream in lockstep.
ImplementsConsole == Console!Spec

\* Whoever has the lock gives it back: the loops of a call end (tty.c:113-155).
LockEventuallyFree == (tty_lock = 1) ~> (tty_lock = 0)

\* A newline in the ring reaches every device, and with it all that was stored before
\* it: it does not happen that some newline waits at all times from then on (tty.c:108).
LineWaits == \E n \in flushed + 1 .. Len(accepted) : accepted[n] = NL
LinesEventuallyShown == LineWaits ~> ~LineWaits
=============================================================================
