# Verification of Solum OS

Solum OS is a small kernel that Limine boots on x86-64, aarch64 and riscv64. It
reads what the boot loader tells it, prints it and halts. Almost all of its own
logic is the way a message takes from `printk` to the serial ports and the
screen, with the small C library under it. This directory models that way from
`kernel_main` to the transmitter and the pixels, checks it with TLC and proves
what matters most of it with TLAPS.

## 1. Inventory

| component | source | state | operations | interacts with |
|---|---|---|---|---|
| TTY driver | `drivers/tty.c`, `include/atomic.h` | `tty_lock`, the ring (`data`, `head`, `tail`, `buffer_full`), the selected devices | `tty_putc`, `tty_write`, `tty_puts`, `tty_flush`, `tty_buffer_usage` | called by printk and logk; calls `serial_putc` and the screen with the lock held |
| Device selection | `drivers/tty.c:157-275`, `boot/li_req.c` | `out_serial`, `out_screen` | `tty_parse_cmdline`, `tty_init_devices`, `tty_device_amount`, `tty_init` | reads Limine's command line; initialises screen and ports |
| Printing | `kernel/msg/printk.c`, `logk.c`, `panic.c` | two static `kbuf`s without a lock; through `vsnprintk` also `tmp_buf` and the buffers of `itoa` and `uitoa` | `printk`, `logk`, `panic` | vsnprintk, then `tty_write` |
| Formatting | `kernel/msg/vsnprintk.c` | static `tmp_buf`; `o`, `rem`, `written` | `vsnprintk` | libc conversions |
| Screen (x86-64) | `arch/x86_64/drivers/video/screen.c`, `tty.c:75-95` | cursor, geometry, framebuffer | put, wrap, newline, scroll, clear | called by the flush loop and by `display_ASCII_icon` |
| Serial ports | `arch/*/drivers/port/serial.c` | the UART's registers and FIFO | `serial_init`, `serial_putc` | called by the flush loop |
| Boot | `init/main.c`, `boot/li_req.c` | Limine's responses | `kernel_main`, the `display_*` functions, `halt` | printk |
| libc: numbers | `libs/libc/stdlib.c`, `strtol` of `string.c` | static buffer | `itoa`, `uitoa`, `atoi`, `strtol` | `vsnprintk` prints with `itoa`, `uitoa`; the others have no caller |
| libc: strings and memory | `libs/libc/string.c` | none | copying, comparing, searching, `strtok` | everybody |

The kernel runs on one CPU with interrupts off, so at this commit its calls do
not overlap. `tty.c` is nevertheless written for several CPUs: every entry point
takes a spinlock built on an atomic exchange. The models take the lock at its
word and let several callers run; with one caller they describe the kernel as it
boots today. Findings and guarantees that need a second caller are marked so.

What is hard here:

* **concurrency**: several callers on one ring; buffers that are filled before
  the lock is taken;
* **counting**: `head = tail` means empty or full, a flag tells which, and the
  flag is stale during a flush; a message may be longer than the ring; the
  screen computes in unsigned pixels; `vsnprintk` keeps three counters in step;
* **ordering**: up to five devices follow one queue;
* **progress**: output is only seen when a newline or a full ring flushes it;
  the flush busy-waits for hardware with the lock held.

What makes each component correct:

* *TTY*: mutual exclusion; the ring is a queue; no newline is left waiting;
  devices show one stream of whole messages, in lockstep; the lock is given back.
* *Device selection*: the devices named on the command line and no others;
  the default where none is named; the count it reports.
* *Printing*: a message is shown as it was formatted, if no other call uses its
  buffers; what is shown of a call that shares them comes from the calls it meets,
  unless two conversions of numbers meet; a conversion stays in its buffers even then.
* *Formatting*: never outside the buffer, always terminated, the prefix of the
  full text, the length returned.
* *Screen*: text stays on the screen, the line under the cursor is blank, a
  scroll moves every line by one.
* *Serial*: the setup prints nothing and sets the rate; a driver that polls loses
  no text, at most one half of a line end; one that does not loses nothing before
  it has written more than the FIFO holds; `serial_putc` returns.
* *Boot*: every module is listed, nothing is left in the ring at the halt, and the
  halt is reached but in five cases, which `ReachesHalt` names.
* *Numbers*: the text of a number is the number; the number of a text is its
  value, or the nearest the type can hold.
* *libc*: word-at-a-time functions equal their byte-at-a-time definition on the
  inputs the kernel passes.

The hazards are listed with their lines in `PROJECT.json`. A few have no property,
because the code does there what nobody would promise (a stray pointer, a port at
address 0); the note of each says what the model makes of it.

## 2. Modules

| module | what it is |
|---|---|
| `TtyConsole` | the abstract console: one stream of messages, each device at a position in it |
| `TtyRing` | `tty.c` after `tty_init`: spinlock, ring, calls, flush loop |
| `TtyRingProofs` | the invariants of `TtyRing`, and that it implements `TtyConsole`, proved for every value of the constants |
| `Screen` | what the screen makes of the characters it is handed: cursor, wrap, newline, scroll, framebuffer |
| `Printk` | `printk`, `logk` and the static buffers between a format and `tty_write`, character by character |
| `Vsnprintk` | one call of `vsnprintk`, character by character |
| `PrintkProofs` | what becomes of a message while other calls format and print, proved |
| `VsnprintkProofs` | the counters, the buffer and the text of `vsnprintk`, proved |
| `Induction` | induction and recursion over the naturals, stated of sets and functions; used by the proofs of `TtyRing`, `Printk`, `Vsnprintk`, `Cmdline`, `Boot` and `Numbers` |
| `DeviceProofs` | the screen and the serial ports, proved |
| `Stdlib` | `itoa`, `uitoa`, `atoi`, `strtol` as operators; used by `Vsnprintk` and `Numbers` |
| `Numbers` | calls of `Stdlib` and what they must give |
| `Uart` | `serial_init` and `serial_putc` of three architectures, and the transmitter |
| `Cmdline` | `tty_init`: the command line, the default, the order of initialisation |
| `CmdlineProofs` | the devices selected are those the line names, and are the devices initialised, proved |
| `Boot` | `kernel_main` and its `display_*` functions, up to `halt` |
| `BootProofs` | nothing is left in the ring at the halt, and every module is listed, proved |
| `LibcMemory` | `memcpy` and `memmove`, step by step |
| `LibcString` | the other functions of `string.c` as operators on memory |
| `LibcCalls` | calls of `LibcString` and what they must do |
| `LibcProofs` | both copy exactly, and the conversions of `Numbers` read and write the number, proved |
| `MCTtyRing`, `MCScreen`, `MCPrintk`, `MCVsnprintk`, `MCNumbers`, `MCCmdline`, `MCBoot`, `MCLibcCalls` | constants for TLC; `Uart` and `LibcMemory` need none but numbers |

The modules meet at these seams. `Boot` and the callers of `printk` hand messages
to `Printk`; the text of one message is `Vsnprintk`'s, whose numbers are
`Stdlib`'s; `Printk` ends where `tty_write` takes the lock, and what happens under
the lock is `TtyRing`, in which a message is a value; `TtyRing` hands characters to
`Uart` (through `SerialPut`) and to `Screen` (through `ScreenPut`); `Cmdline` says
which devices those are.

### TtyRing

Its variables are those of `tty.c`, by their names: `tty_lock`, the four fields
of `tty_ring_buffer` and the two device tables. `flush_on_newline` is a field
nothing ever writes, so it is a constant definition. The locals of a call in progress are functions of the caller:
where it stands (`pc`), what it will do when it has the lock (`op`), the
characters not yet stored (`rest`), the remaining turns of the flush loop
(`left` is `chars_to_flush - i`) and the next device of the inner loop (`dev`;
the screen comes after the ports). Three history variables serve the properties:
`accepted` (all characters ever stored), `flushed` (how many left the ring) and
`out` (what each device transmitted or drew).

| action | code |
|---|---|
| `Putc`, `Write`, `Puts`, `Flush`, `BufferUsage` | the call is entered; `tty_write` of nothing returns at once and is no step |
| `Acquire` | one turn of `tty_lock_acquire`: exchange, and again if it returned 1 |
| `PutFull`, `PutChar`, `PutDone` | `tty_buffer_putc` and the loops around it |
| `FlushNothing`, `FlushBegin` | the early return of `tty_flush_buffer`, and its count |
| `SerialPut`, `ScreenPut`, `Advance`, `FlushEnd` | one turn of the flush loop, device by device; the clearing of `buffer_full` after it |
| `ReadUsage` | the body of `tty_buffer_usage` |
| `Release` | `tty_lock_release` and the return |
| `Halted` | nobody prints any more |

After a flush the caller goes back to `put`, where the test for a full ring is
made again; the code goes on without it, and the ring is empty then, so both do
the same. Results that are functions of the arguments (`tty_write`, `tty_putc`,
`tty_puts`) are left out. A message is a value: that `tty_write` reads a buffer
which another call may be rewriting is in `Printk`.
`out_screen` is FALSE where the screen is not compiled in. What the hardware
makes of a character it was handed is in `Screen` and `Uart`.

### TtyConsole and the refinement

The abstract state is a stream of characters and, for each device, how far along
it is. A message joins the stream in one step; a device is handed its next
character in one step, and the devices stay in lockstep, ports first, screen
last. In the refinement the message joins at the step in which its caller wins
the exchange: the stream is what was stored, followed by what the holder of the
lock is still to store. A device stands at `flushed`, or one further if the
flush loop has passed it. That TtyRing implements this says at once that
messages do not mix, that nothing is lost, doubled or reordered, and that no
device sees a different order from another.

### Screen

`ScreenPut` of `TtyRing` hands one character to `tty_output_char_screen`; `Screen`
says what becomes of it. The lock is held meanwhile, so a character is one step:
`Newline`, `Unprintable` or `Printable`, with `PrintNewline` inside. The
framebuffer `fb` is memory by address. `Box` is the set of addresses `put_pixel`
lets through for a glyph, `Scroll` is `screen_scroll` with its own idea of how
far rows are apart (`Line`). What either writes is memory wherever the address is, so
that a glyph or a row (`Rows`) beyond the framebuffer would show in `TypeOK`. Coordinates
are words: sums and differences are taken modulo `Word`, which stands for 2^32, so a
subtraction from a small height wraps around as in the code. A glyph is a full box; a character is identified by its number,
so that two of them can be told apart on the screen. `mode` is chosen once in
`Init` and is all 0 where there is no framebuffer.

`lines` and `scrolls` are history: which text lines were begun, at which height
and after how many scrolls, and what was drawn on each. `ScreenShowsText`
compares every pixel with them, without `Scroll` or `Box`. Two things the code
really does are written into the properties and not hidden: rows of a line that
lie below the screen when it is written are never drawn and stay missing when
the line moves up, and once a padded framebuffer is scrolled the text is garbled,
because `screen_scroll` divides `stride`, which counts pixels already, by four.

### Printk

Each caller runs `printk` or `logk`. They share static memory without a lock: the `kbuf`
of each function, `numbuf`, which is the buffer of `itoa` and that of `uitoa`, and
`tmp_buf` of `vsnprintk.c`. A step is one access to one character of it, or one turn of
the loop on `tty_lock`, so two calls may interleave anywhere between.

| action | code |
|---|---|
| `CallPrintk`, `CallLogk` | the call is entered; `logk` has read its level (`Whole`, `Value`, `Levels`) and put the tag before the text |
| `CallLogkDropped` | a level above `LOG_SHOW_LEVEL` returns at once |
| `CopyChar` | one character of the format, of `%s` or `%c` goes to `kbuf` |
| `Divide` | `itoa`, `uitoa`: one character of a number goes to `numbuf`, the last one first |
| `TurnLoad`, `TurnStore`, `EndNumber` | their second loop, which turns the text round into `tmp_buf`, and the NUL |
| `LowerLoad`, `LowerStore` | `%x`: a letter in `tmp_buf` is made small where it stands |
| `Measure` | one turn of `strlen`; at the NUL the length is cut to the room left |
| `Fetch`, `PutDigit` | one character goes from `tmp_buf` to `kbuf` |
| `Terminate` | the NUL; an empty text is not written |
| `Acquire`, `Store`, `Release` | `tty_write`, which reads `kbuf` under the lock |
| `Halted` | nobody prints any more |

A character is a record: its call and its place in that call's text, so that a buffer
tells whose text it holds, what the format asks for at that place (a digit, a capital, a
small letter), and the form the character has, which `LowerStore` changes. The NUL is
one more character, and it is written last. That matters: when two conversions meet,
one may overwrite the NUL of the other, and `strlen` then runs on into digits that an
earlier call left behind. Say a call that is over left 12345 in `tmp_buf`; A writes its first digit,
B writes 7 and its NUL, A writes its second digit over that NUL, and B measures five
characters, three of them of a call B never overlapped. The model shows this, and
`StaleOnlyByRace` says that it takes such a meeting.

Each character is taken to be loaded once where the source reads it once, which is
what the compiler makes of these loops, and all CPUs to see the accesses in one
order; a weaker memory would add interleavings only between calls that share a buffer
without a lock, where the code has no defence already. `strlen` tests words
before characters; what a word shows at once the model sees character by character,
with others writing between or not.

Prefixes of `logk` are read as the code does: `<`, digits, `>` is a
level; anything else is text of the default level; a number that overflows the int may be
any level. `panic` is two calls of `printk` and `halt`. `log` is history: for each
call what was asked, which calls it overlapped (`over`) and where its text stands on the
stream.

### Vsnprintk

One call, one step for each turn of its loops. `o` and `p` are its pointers, `rem`
and `written` its counters; `i` and `l` are the indices of the loop that copies a
number. A format is a sequence of pieces (a character or a conversion with its
`l`s) and `fmt` its text in memory, with its NUL and what lies behind it, so that
the pointer can be seen to run past the end. Memory behind the buffer is `out[out_sz]`.

| action | code |
|---|---|
| `Plain`, `PercentEnd` | an ordinary character; a format that ends in `%` |
| `ConvString`, `CopyString`, `EndString` | `%s`, with `(null)` for NULL |
| `ConvNumber`, `CopyDigit`, `EndNumber` | `%d %i %u %x %X %p`, with the message "o pointer out of bounds!" |
| `ConvChar`, `ConvPercent`, `ConvOther` | `%c`, `%%`, and a letter it does not know, which is shown |
| `Terminate` | the NUL, and the return |

`NumberText` chooses the conversion and the width: no `l` is an int, one or more a long.
`%x` makes the capital letters small, as the code does, in all of the text.

### Stdlib and Numbers

`Stdlib` translates the four conversions as operators: the division loop and its
reversal are `DigitsOf`; `Strtol` returns a set of values, because its sum is a
signed long that overflows at the magnitude of the least long, and what comes then is
undefined. The vertical tab is missing from the white space, for TLA+ strings have no
such character. `Numbers` calls them: it builds the text of a number from its parts
(space, sign, prefix, digits, what follows), so the expected value is known from
the parts and not from a second parser. What the parts stand for is a sum of digits times
powers of the base (`Sum`, `Power`), which shares nothing with the loops of the code.

### Uart

The hardware is an external part: a FIFO (one deep when off), a transmitter that is on
or off, the DLAB bit and the divisor. `UartInit` is whatever the firmware left. `SerialInit`
is one register write: `InitWrites` lists them per architecture, `Outb` and
`Store64` say what a write reaches. On aarch64 the code indexes a pointer to 8-byte
words with the index of a 4-byte register, so each write goes to twice the offset it
names and reaches two registers; none of them is the one that turns the
transmitter on. That is stated in the model as it is. `Putc`, `Spin`, `PollDone`,
`PutCR`, `PutChar` are `serial_putc`; `Busy` is the flag each driver waits for (x86-64
waits for none); `Load` is a write to the transmitter, full or not; `Transmit` is the
hardware. `serial_write` is `serial_putc` in a loop. The module's definitions have
names of their own (`UartNext`, `port`), for `DeviceProofs` extends it together with `Screen`.

### Cmdline

A command line is a sequence of tokens that no comparison of the parser splits;
lengths in characters are sums of widths. `FindParam` is `strstr`, `Device` one turn of
the loop over the commas, `Default` the fallback, `InitScreen` and `InitPort`
`tty_init_devices`. A number too large for the int may select any port or none
(`PortNumbers`). `screen_built` is FALSE on aarch64 and riscv64, where the screen is
compiled out of some of the functions but not of others. `Named` defines the devices a
line names without the parser's pointers.

### Boot

One action per function of `kernel_main`, and per turn of the two loops over memory
entries and modules. `tty_init` is three: `TtyInit` up to `screen_init`, `TtyInitDevices`,
which sets up each selected port and sends it a line end, and `TtyInitLogs`, the first
messages. In two states of the machine a port may keep its caller. `Deaf` is the first port of aarch64
with its transmitter off, which the setup does not turn on (see `Uart`): it spins in
`serial_putc` once the FIFO is full, during the setup or, at the latest, in the first message, which is longer than
any FIFO. `AtZero` is any other port on aarch64 and riscv64, which have
but one: its registers are at address 0, where an access may fault, look busy
for ever, or be taken for a port. x86-64 never waits, and the transmitter of riscv64's
first port is always on. `Machines` are what a boot loader may pass: every response
may be missing. A message says what it is about and whether it ends in a newline; `Emit`
keeps those behind the last newline in the ring. A name longer than `printk` can
hold loses the newline behind it (`NameLine`). The uninitialised pointer in
`display_framebuffer_info` is one of three: NULL, readable, neither. `halt` is one
instruction that an interrupt ends, so `WakeInScreenInit` and `WakeAfterHalt` are there;
nothing is promised if it is woken.
The version under the heading "Name:" (`main.c:59`) is printed as the code has it.

### LibcMemory, LibcString and LibcCalls

`LibcMemory` runs `memcpy` and `memmove` a byte or a word at a time; a byte
holds the address it was at when the call began, so that a copy shows where each byte
came from. `LibcString` has the other functions as operators: bytes until a pointer is
aligned, then words, told apart by the code's bit trick (`HasZero`), then the bytes of
the last word. `LibcCalls` calls them, at every alignment, and defines what they
must do byte by byte. Three departures from the C standard are stated as they are:
`strrchr` does not find the terminator, `strncmp` compares what lies behind the
end of two equal strings if a whole word is left, `strcpy` and `strcat` may write the rest of a word
behind the terminator.

## 3. Runs

| run | question | bounds |
|---|---|---|
| `tty_ring` | do the invariants hold, does TtyRing implement TtyConsole, does the holder give the lock back, is every line shown? | 2 callers, 3 slots, 2 serial ports and the screen in all 8 selections, 3 calls, 4 characters, 3 messages |
| `screen` | do the pixels show the text, is nothing drawn outside, where can text overrun? | 7 characters of 3 kinds; 7 video modes; glyphs of 1x3 in 2x4, margin 2, words of 6 bits |
| `printk` | what becomes of messages whose calls overlap? | 2 callers, 2 calls, `kbuf` of 4, numbers of 1 to 3 characters, tag of 1, int up to 15 |
| `printk_stale` | when are digits of a call printed that was over? | 2 callers, 3 calls of `printk`, `kbuf` of 4, numbers of 1 and 3 characters |
| `vsnprintk` | do pointer and counters agree, is the text right, is anything written or read outside? | 2 pieces of all kinds, buffers of 0, 1, 2, 3, 5, 9, int of 4 bits, long of 5 |
| `numbers` | is the text the number, and the number the text? | every long of 7 bits in 8 bases; texts around the limits of an int of 5 bits and a long of 7 |
| `uart` | what may be lost, is the rate set, does `serial_putc` return? | FIFO of 3, on, off or missing; no new call once 5 characters are written |
| `cmdline` | are the devices named the devices selected and initialised? | 2 ports, all lines of 3 of 10 phrases, or of 4 behind `console=`; int up to 63 |
| `cmdline_count` | does the log report the devices that were enabled? (it does not) | as `cmdline` |
| `boot` | is everything shown at the halt, is the halt reached? | 3 architectures, every selection of screen, first and other ports; up to 3 modules and 3 memory entries, paths of 5 kinds, names of 3, sizes modulo 8 |
| `libc_memory` | is a copy exact, whatever the overlap? | words of 4, every pair of regions of a memory of 19 bytes |
| `libc_strings` | do word-at-a-time functions equal their definition? | bytes of 2 bits, words of 4, strings up to 6, every alignment; `memset` up to 130 |

**TTY.** Three calls of up to four characters go around a ring of three slots several
times, fill it exactly, exceed it in the middle of a message, and let one caller
flush or ask for the usage between the messages of the other. Two callers are
enough for every way in which two critical sections could meet, as a third only
spins. `MaxCalls` bounds the calls of all callers together; the kernel may
really stop printing (it halts), which `Halted` says.

**Screen.** The modes are one with two lines that fit, one whose last line is
cut, a padded one, one with a single line, one lower than a line, one narrower
than a character with its margins, and none. The glyph is to its box as the
kernel's 8x16 is to 10x20: narrower and lower by some pixels. Seven characters wrap, begin
three lines and scroll, and with unprintable ones overrun the right edge.

**Printing and formatting.** A tag and two digits fill a `kbuf` of four exactly, and 0xA
behind one character, or a tag and 0XA, exceed it, so numbers are cut in the middle. With a step for each character,
two calls are what TLC can interleave with all formats and prefixes. `printk_stale`
has three, of one digit or three characters, for stale digits need a call that left a longer text, and two
that meet afterwards; a state in which a call prints digits of one it never
overlapped is reached there. The callers are symmetric. The
sizes for `vsnprintk` cut each conversion in each place; size 0 and 1 are among them.
The arguments include NULL, the empty string, negative numbers of each width and the
least long.

**Command line.** The phrases hold a port that exists, one that does not, one that
overflows the int, and a device longer than its buffer; four of them behind `console=`
make lists of two devices and a second parameter.

**Memory.** 19 bytes are enough for a region with bytes, two whole words and bytes on both
sides of a memmove that is not `Short`. `memset` up to 130 passes each of its early returns
and twice the 32 bytes of its last loop, at each of the 8 alignments.

All runs check for deadlock: where the code may really stop, an action says so
(`Halted`, `Idle`, `Returned`, `Stopped`), so that a state in which a call cannot go on would be
reported.

**Fairness.** `TtyRing`: each caller keeps executing while it is inside a call
(`WF_vars(Step(c))`): nothing preempts the kernel. For `SerialPut` this includes
that the UART accepts a character in the end. Nobody is assumed to begin a call,
and no caller is promised the lock: the exchange gives no turns, a caller may
starve, and no property says otherwise. `Uart`: the CPU executes the call
(`WF_port(Driver)`) and a transmitter that is on transmits (`WF_port(Transmit)`); the
second is why the first is justified in `TtyRing`, and it holds only for a port
the firmware left on. `Boot`: the CPU executes `kernel_main` (`WF_vars(Main)`);
nothing is sure to wake it once halted, and nothing lets it leave a port that is
`Deaf` or looks busy at address 0: "serial_putc spins" is a state without a way on, so
that the fairness of `Boot` promises no more than `PutReturns` does.

Each property comes with a definition named `...Bug`, a plausible slip in the
code that breaks it (the ring index without wrap-around, the full ring read as
empty, the lock taken once per character, a return that keeps the lock, and so
on). They are not part of the specification.

**Finding.** `cmdline_count` is expected to fail. `tty.c:273` logs "TTY: %d Devices
enabled". On aarch64 and riscv64, which have no screen driver, `tty0` on the command line
still sets `out_screen`, which `tty_device_amount` (248-263) counts: one port is
enabled and the log says two.

What the code does in other odd cases is written into the properties and not hidden:
calls that share a static buffer may mix, and print digits of a call that is long over
(`UndisturbedIsShown` excludes them, `StaleOnlyByRace` says when), a format
that ends in `%l` is read past its NUL (`TrailingL`), aarch64 may wait for ever for a
port that is off (`PutReturns`), the least long is not parsed (`Overflows`), the boot
stops in five cases before its end (`ReachesHalt`). With one CPU and interrupts
off, the first cannot happen: no two calls overlap.

## 4. Proofs

**TTY** (`TtyRingProofs`). The theorems hold for every ring
size (`include/solum.h` invites its reader to change it), every number of serial ports and selection of devices, every set of
callers, messages and characters, and every number of calls. The assumptions are
the five named ones of `TtyRing`: the size is a positive number, the number of
ports and the bound are natural numbers, the newline and NUL are two different characters,
messages are sequences of characters.

* `TypeCorrect`: by cases over the actions; the arithmetic is in `SuccWraps`
  (taking the index modulo the size is wrapping it to 0).
* `MutualExclusion`: `LockGuardsRing` is inductive with the type invariant.
* `RingIsQueue`, `FlushIsExact`: inductive only together (`RingInv`). While a
  flush runs, `buffer_full` is stale and head minus tail is meaningless, so the
  content of the ring is tied to the history (`Pending`) and the running count
  `left` to `Pending`; outside a flush the flag says whether `Pending` is the size.
* `LinesAreShown`: strengthened to the states in which the lock is held, where a
  newline may wait only if a flush is due (`LineInv`).
* `UsageIsExact`, `FlushShowsAll`: from `CallInv`, which says where each kind of
  call can stand; that a newline at the end of a message leaves nothing in the ring
  follows from it and `LineInv`.
* `SerialOutputIsStream`, `ScreenOutputIsStream`, `TtyImplementsConsole`: from
  `LocalInv` (only the caller in the flush loop is part of the way through the
  devices) and the invariants above; one lemma per kind of step. The stream of the
  screen is filtered with a recursive function (`WithoutNULs`); `WithoutNULsOfAppend`, by
  induction, says what one more character adds to it.

**Copying** (`LibcProofs`), for every word size above 1, every memory and every
pair of regions. What is wanted at the end is not inductive. The invariant says that the
part copied so far is the beginning of the destination, or its end when the copy goes down
(`Copied`, `Progress`), that memory holds what is wanted there and what it held
everywhere else (`Contents`), and that the direction keeps the copy out of the source
that is left (`RightWay`). `SourceLeft` draws from it that what is read next is what was
there; `CopyKeeps` is the step of k bytes, used for bytes and for words. From these follow
`TypeCorrect`, `Copies`, `SourceSurvives` and `AlignedWords`.

**Numbers** (`LibcProofs`), for every width of `int` and `long`, every number and base, and every
text built from white space, a sign, a prefix, digits and what may follow: `ReadsTheNumber` and
`WritesTheNumber`. A call is one step here, so neither needs a stronger invariant; what is proved is
what the loops compute.

* Reading. A letter has one digit value (`LettersMean`). So the text falls apart as it was
  built: the white space and the sign end where their parts do, the base told by the prefix
  is the right one, and the digits end where theirs do (`PartsOfShape`, `LeadOfParts`, `DetectedOfParts`,
  `RunOfParts`). The sum kept by the loop is the number the first digits stand for, by
  induction (`PrefixSums`), as long as the limit lets it grow; the test by quotient and last
  digit is the comparison with the limit (`LimitMeans`). A number over the limit after
  some digits is over it after all (`SumsGrow`), so the nearest value is returned (`KeepsNumber`,
  `AtoiGives`, `StrtolGives`).
* Writing. By strong induction over the number, its digits are those of its quotient and one
  more (`OneDigit`, `MoreDigits`, `DigitsPrint`). Each digit at least halves what is left, so a
  number of `LongBits` bits has at most that many digits, and with the longest prefix fits the buffer.
  `Widths` needs the limits of both types to be what arithmetic says; powers of two are
  related to one another by counting subsets (`TwoPowers`).

The assumptions on the parts are that white space is what `isspace` accepts
(`SpacesAssumption`), that a digit is below the largest base (`DigitsAssumption`), and that what
follows is a sequence of characters (`TailsAssumption`).

**Command line** (`CmdlineProofs`), for every line, every number of ports and every int:
`SelectedAreNamed` and `InitialisesTheSelected`. For the first, the invariant (`ParseInv`) is
that what is selected so far is what the devices before the pointer name (`NamedUpTo`), and that
the pointer stands where a device or a search may begin (`DeviceAt`, `SearchAt`). `Named` knows no
pointers, so each step of the parser is an argument that it passes over no device: what `strstr`
skips holds none (`NothingSkipped`), where it stops is the first "console=" of its word (`KeyFound`), and between
two commas there is one device, the one that is read (`TheDevice`, `UpToDevice`). That a device with no characters has no length, by which the code
drops it, is an induction over the sum of the widths (`LengthPositive`). For the
second, while the loop is at port i, the list holds the screen, if it is used, and the
selected ports below i, in order (`Below`, `Ordered`).

**Boot** (`BootProofs`), for every boot loader, architecture and selection of devices: `HaltsWithEmptyRing`, `ListIsComplete`.
What each function prints ends in a line no name can cut, and such a line takes with it all
that was held (`PrintLine`); only between two modules may something be held (`Inv`). Whether
a message is held or shown at once, it comes behind what was printed before (`EmitPrints`), so the
list of modules is followed through both (`Stream`): `ListInv` has it complete up to the module
the loop stands at, and the index back at 1 before the loop. What the other functions print is
no part of it (`QuietStep`), and the part of the path that the loop over the path keeps
holds no slash, by induction over the path (`NameHoldsNoSlash`).

**Printing** (`PrintkProofs`), for every number of CPUs and calls, every format and size of
the buffers: `UndisturbedShown`, `StaleByRaceOnly`, `ConversionsInside`, from one invariant
(`PrintkInvariant`). Each action is first turned into a *frame*:
which of `kbuf`, the buffers of numbers, the stream and the history it may touch, and for whom (`KbufFrame`,
`NumbersFrame`, `StreamFrame`, `LogFrame`); the invariant is then kept call by call. Its parts:

* Calls in progress know of one another (`CallInv`): each is in the other's `over`.
* The buffers of numbers hold characters of numbers and NULs, and the last place of
  `tmp_buf` always a NUL (`NumberInv`), whoever writes there; so every scan stops inside. With the
  range of each call's index (`Local`, `NumberLocal`) this is `ConversionsInside`.
* A call that met no other conversion (`Calm`) has the buffers of numbers to itself: up to where it
  has come they hold its own number, in the form it has there by then, with a NUL behind it,
  and the length measured is its own (`NumberAt`, `OwnNumber`, `OwnLength`), although what lies behind the NUL may be stale.
* A call in conflict with none (`Alone`) also has its `kbuf` to itself, and what it holds is determined by how
  far the call has come (`OwnText`).
* Of a call that does meet others, the invariant says of each character before it
  whose it may be (`LiveText`): a call's that shares its `kbuf`, or, of a number alone, any call's if a
  conversion of such a call met another (`FairIn`).
* `OwnDone` and `LiveDone` keep the last two for calls that have returned.

**Formatting** (`VsnprintkProofs`), for every format, argument, width of `int` and `long`,
and every size of the buffer: `Typed`, `CountersAlwaysAgree`, `NothingOutside`, `FormatOnly`,
`ExpansionShown`. The text of a format and the text it stands for are both joined from pieces,
and `Place` says where each begins. The invariant (`Inv`) has the pointer at the beginning of
a piece and `o` at the place of its text (`Between`), or inside the text of one conversion
(`Copying`), with everything before `o` stored as the expansion has it (`Shown`), until the
buffer is full or the call is over (`Behind`, `Ended`). `ReadPiece`, `ReadConversion` and `ReadEnd` show that the pointer
reads a piece as what it is: the letter of a conversion is the first character that is no
`l`. That the digits of a number are characters and that a number has at least one is shown
by strong induction over `DigitsOf`. The proof found that the reference text, `Meaning`, was a CASE whose guards overlapped
for a piece that is no conversion but has the letter of one; it is an IF now.

**Induction** (`Induction`). The prover cannot instantiate the library's induction theorems, whose
parameter is an operator. The lemmas here say the same with a set in its place, which the provers can instantiate:
`StrongInduct` from the well-foundedness of `<`, `Recursion` that a recursive function
over the naturals satisfies its equation, `Iteration` the same for one that goes up to
a bound.

**Screen** (`DeviceProofs`), for every font, margin, video mode and width of words.
`ScreenTyped` rests on arithmetic of addresses (`AddressFits`, `AddressDiffers`,
`AddressSplits`): a row and a column of the screen are an address in the framebuffer, and of no
other row and column. The rows of a scroll are closer together than those of the screen
or as far apart, so they end inside the framebuffer too, whatever the padding (`RowsOnScreen`). `CursorStaysOnPage`: the cursor is a number of line heights below the
margin (`PageInv`); going back from a scroll gives it back even where words wrap (`U32Back`).
`OverrunIsPushed`: the cursor is beyond the edge only behind an unprintable character
(`EdgeInv`). `TextIsShown` needs more: the last line stands at the cursor and every other line
ends above it (`Placed`), its characters end before the cursor (`Before`), and the pixels show
the lines (`Pictures`). So a glyph hides nothing (`DrawnAtCursor`), and a scroll takes the
picture of each line up with it (`ScrolledPicture`), where rows are not padded. The
theorem has one hypothesis, `WordsSuffice`: words hold every character on one line, and a line
each. Behind it a coordinate wraps around, which takes some 400 million unprintable
characters on one line; the kernel's 32 bits and the run's 6 satisfy it.

**Serial ports** (`DeviceProofs`), for every depth of the FIFO and number of characters:
`PolledTextKept`, `OneFifoKept`, `BaudRateSet`. Nothing waits in the FIFO but what was written
(`FifoInv`). On x86-64, `X86Inv` follows the setup by the number of writes left; after the one
that clears the FIFO, no more can wait than was sent, so a full FIFO means that more than its
depth was written. Where a driver polls, there is room where it stands (`PolledInv`):
the first half of a line end fits, and of the two at most one is lost (`HalfLost`); with a deeper FIFO, which
an NS16550 only reports empty, both fit.

The assumptions used are the named ones of each module, and `WordsSuffice` in
`TextIsShown`. Only model-checked are:

* liveness (`LockEventuallyFree`, `LinesEventuallyShown`, `PutReturns`,
  `ReachesHalt`): fairness is outside the prover's reach;
* `LibcString` and `LibcCalls`, which use bit operations the prover does not know.

No run checks `AlignedWords` and `Typed`: a proof covers what their small instance would show.

## 5. Plan

Done: all components (the console, its refinement, the screen, printing, formatting, number
conversion, serial ports, command line, boot, libc), and the proofs of section 4.

Nothing of the plan is left.

## 6. Not modelled

* **Limine's header** `include/boot/limine.h`: declarations of a third party, no code.
  `Boot` models the responses as the kernel reads them.
* **Fonts, assets, build files**: data. A glyph is a full box in `Screen`.
* **The wording of messages and the icon**: `screen_write`, with which
  `display_ASCII_icon` draws its lines, is not followed character by character; `Boot` says that the icon
  is drawn. The colours of the screen are left out.
* **`inb`, `inw`** of x86-64, which have no caller; the port and MMIO accesses
  `serial.c` uses are in `Uart`.
* **`strdup`, `strndup`**: commented out at this commit.
* **What is at address 0** on aarch64 and riscv64, and what runs after `kernel_main`
  has returned: neither is the kernel's. `Boot` lets the first do anything and ends with the second.
* **Races within `tty_puts`**, which measures the string again after it has released the lock: its
  result has no reader in the kernel.
