-------------------------------- MODULE Uart --------------------------------
(***************************************************************************)
(* A serial port: serial_init and serial_putc of the three architectures   *)
(* (arch/*/drivers/port/serial.c) and the transmitter they write to.       *)
(*                                                                         *)
(* The transmitter is hardware: a FIFO that is one character deep when it  *)
(* is off, from which characters leave for the wire in their own time.     *)
(* The boot firmware leaves it in a state of its own.                      *)
(***************************************************************************)
EXTENDS Integers, Sequences

CONSTANTS
    Deep,       \* the depth of a FIFO that is on
    MaxSent     \* BOUND: characters written to the port before the last call

ASSUME DeepAssumption == Deep \in Nat /\ Deep > 1
ASSUME MaxSentAssumption == MaxSent \in Nat

VARIABLES
    \* the hardware
    arch,       \* whose UART and whose driver
    has_fifo,   \* the chip has a FIFO at all
    fifo_on,    \* and it is on
    enabled,    \* the transmitter is on
    dlab,       \* x86: registers 0 and 1 are the divisor
    divisor,    \* x86: its low and its high byte
    fifo,       \* what waits: places in sent, 0 for a character of the firmware
    \* the driver
    pc,         \* where serial_init or serial_putc stands
    todo,       \* what serial_init has still to write: registers and values
    c,          \* the character of serial_putc
    \* history
    sent,       \* every character written to the transmitter
    lost        \* the places of those it did not take, or took and dropped

config == <<arch, has_fifo, fifo_on, enabled, dlab, divisor>>
port == <<config, fifo, pc, todo, c, sent, lost>>

Depth == IF fifo_on THEN Deep ELSE 1

SwappedWritesBug ==
    CASE arch = "x86_64" ->
             <<<<1, 0>>, <<0, 3>>, <<3, 128>>, <<1, 0>>, <<3, 3>>, <<2, 199>>, <<4, 11>>>>
      [] arch = "aarch64" ->
             <<<<96, 0>>, <<72, 1>>, <<80, 40>>, <<88, 112>>, <<96, 769>>, <<136, 2047>>>>
      [] arch = "riscv64" -> <<>>

NoClearBug ==
    CASE arch = "x86_64" ->
             <<<<1, 0>>, <<3, 128>>, <<0, 3>>, <<1, 0>>, <<3, 3>>, <<2, 193>>, <<4, 11>>>>
      [] arch = "aarch64" ->
             <<<<96, 0>>, <<72, 1>>, <<80, 40>>, <<88, 112>>, <<96, 769>>, <<136, 2047>>>>
      [] arch = "riscv64" -> <<>>

\* The writes of serial_init.  On aarch64 it goes by an array of 8-byte words with
\* the index of a 4-byte word, and so to twice the offset of the register it names.
InitWrites ==
    CASE arch = "x86_64" ->
             <<<<1, 0>>, <<3, 128>>, <<0, 3>>, <<1, 0>>, <<3, 3>>, <<2, 199>>, <<4, 11>>>>
      [] arch = "aarch64" ->
             <<<<96, 0>>, <<72, 1>>, <<80, 40>>, <<88, 112>>, <<96, 769>>, <<136, 2047>>>>
      [] arch = "riscv64" -> <<>>

UartInit ==
    /\ arch \in {"x86_64", "aarch64", "riscv64"}
    /\ has_fifo \in BOOLEAN
    /\ arch = "aarch64" => has_fifo
    /\ fifo_on \in {FALSE, has_fifo}
    /\ enabled \in IF arch = "aarch64" THEN BOOLEAN ELSE {TRUE}
    /\ dlab \in IF arch = "x86_64" THEN BOOLEAN ELSE {FALSE}
    /\ divisor = <<1, 0>>
    /\ \E n \in 0 .. Depth : fifo = [k \in 1 .. n |-> 0]
    /\ todo = InitWrites
    /\ pc = IF todo = <<>> THEN "ready" ELSE "init"
    /\ c = "x"
    /\ sent = <<>>
    /\ lost = {}

\* A character is written to the transmitter.  A full one loses it, or the one
\* it took last.
Load(ch) ==
    LET n == Len(sent) + 1 IN
    /\ sent' = Append(sent, ch)
    /\ \/ /\ Len(fifo) < Depth
          /\ fifo' = Append(fifo, n)
          /\ UNCHANGED lost
       \/ /\ Len(fifo) >= Depth
          /\ UNCHANGED fifo
          /\ lost' = lost \cup {n}
       \/ /\ Len(fifo) >= Depth
          /\ fifo' = [fifo EXCEPT ![Len(fifo)] = n]
          /\ lost' = lost \cup ({fifo[Len(fifo)]} \ {0})

\* One outb of serial_init: registers 0 and 1 by the DLAB bit, 2 the FIFO control
\* (bit 0 turns it on, bit 2 clears the transmit FIFO), 3 the line control.
Outb(reg, val) ==
    /\ IF reg = 0 /\ ~dlab THEN Load("byte")
       ELSE /\ fifo' = IF reg = 2 /\ (val \div 4) % 2 = 1 THEN <<>> ELSE fifo
            /\ UNCHANGED <<sent, lost>>
    /\ divisor' = IF reg \in {0, 1} /\ dlab THEN [divisor EXCEPT ![reg + 1] = val] ELSE divisor
    /\ dlab' = IF reg = 3 THEN val >= 128 ELSE dlab
    /\ fifo_on' = IF reg = 2 THEN has_fifo /\ val % 2 = 1 ELSE fifo_on
    /\ UNCHANGED enabled

LCRH == 44      \* 0x2C; bit 4 turns the FIFO on
CR == 48        \* 0x30; bits 0 and 8 turn the transmitter on

\* One 8-byte store of serial_init on aarch64 reaches two registers.
Store64(addr, val) ==
    LET Written(reg) == IF reg = addr THEN {val} ELSE IF reg = addr + 4 THEN {0} ELSE {} IN
    /\ fifo_on' = IF Written(LCRH) = {} THEN fifo_on ELSE \E v \in Written(LCRH) : (v \div 16) % 2 = 1
    /\ enabled' = IF Written(CR) = {} THEN enabled
                  ELSE \E v \in Written(CR) : v % 2 = 1 /\ (v \div 256) % 2 = 1
    /\ UNCHANGED <<dlab, divisor, fifo, sent, lost>>

SerialInit ==
    LET reg == todo[1][1]
        val == todo[1][2]
    IN
    /\ pc = "init"
    /\ IF arch = "x86_64" THEN Outb(reg, val) ELSE Store64(reg, val)
    /\ todo' = Tail(todo)
    /\ pc' = IF Len(todo) = 1 THEN "ready" ELSE "init"
    /\ UNCHANGED <<arch, has_fifo, c>>

-----------------------------------------------------------------------------
\* serial_putc(c)
Putc ==
    /\ pc = "ready"
    /\ Len(sent) < MaxSent
    /\ c' \in {"x", "\n"}
    /\ pc' = "poll"
    /\ UNCHANGED <<config, fifo, todo, sent, lost>>

NeverWaitsBug == FALSE
WaitsForeverBug == arch # "x86_64" /\ Len(fifo) < Depth

\* The flag it waits for: "FIFO full" of a PL011, the transmitter of an NS16550 not
\* yet empty; on x86-64 it waits for none.
Busy ==
    CASE arch = "x86_64" -> FALSE
      [] arch = "aarch64" -> Len(fifo) = Depth
      [] arch = "riscv64" -> fifo # <<>>

Spin == pc = "poll" /\ Busy /\ UNCHANGED port

PollDone ==
    /\ pc = "poll"
    /\ ~Busy
    /\ pc' = IF c = "\n" THEN "cr" ELSE "char"
    /\ UNCHANGED <<config, fifo, todo, c, sent, lost>>

\* Carriage return and character, with no look at the flag between them.
PutCR ==
    /\ pc = "cr"
    /\ Load("\r")
    /\ pc' = "char"
    /\ UNCHANGED <<config, todo, c>>

PutChar ==
    /\ pc = "char"
    /\ Load(c)
    /\ pc' = "ready"
    /\ UNCHANGED <<config, todo, c>>

\* The hardware sends a character.
Transmit ==
    /\ enabled
    /\ fifo # <<>>
    /\ fifo' = Tail(fifo)
    /\ UNCHANGED <<config, pc, todo, c, sent, lost>>

\* Nothing more is printed.
Idle == pc = "ready" /\ UNCHANGED port

Driver == SerialInit \/ Spin \/ PollDone \/ PutCR \/ PutChar

UartNext == Putc \/ Driver \/ Transmit \/ Idle

\* A call goes on until it returns, and a transmitter that is on transmits.
UartFairness == WF_port(Driver) /\ WF_port(Transmit)

UartSpec == UartInit /\ [][UartNext]_port /\ UartFairness

-----------------------------------------------------------------------------
\* The two halves of a line end in what was written.
Pair(n) == n > 0 /\ n < Len(sent) /\ sent[n] = "\r" /\ sent[n + 1] = "\n"

\* A driver that polls loses nothing but half of a line end, so that text is
\* complete and lines stay apart; an NS16550 with its FIFO on loses not even that
\* (serial.c of aarch64:57-62 and of riscv64:44-49).
PolledKeepsText ==
    arch # "x86_64" =>
        /\ \A n \in lost :
              \/ Pair(n) /\ n + 1 \notin lost
              \/ Pair(n - 1) /\ n - 1 \notin lost
        /\ arch = "riscv64" /\ fifo_on => lost = {}

\* The driver that does not poll loses nothing before it has written more than the
\* FIFO holds, whatever the firmware left in it (serial.c of x86_64:31, 38-41).
UnpolledKeepsOneFifo ==
    arch = "x86_64" /\ lost # {} => Len(sent) > Depth

\* Whatever DLAB was, x86-64 sets the divisor and leaves the registers ready for
\* text, and no byte of the setup goes out as a character (serial.c:26-32).
InitSetsBaudRate ==
    arch = "x86_64" =>
        /\ pc = "init" => sent = <<>>
        /\ pc # "init" => divisor = <<3, 0>> /\ ~dlab /\ "byte" \notin {sent[k] : k \in DOMAIN sent}

\* A character gets out of serial_putc if the transmitter was left on: the loop for
\* the flag ends.  On aarch64 serial_init misses the register that would turn it on,
\* and a port the firmware left off holds its caller for ever (serial.c:46-50, 57).
PutReturns == (pc # "ready" /\ enabled) ~> (pc = "ready")
=============================================================================
