-------------------------------- MODULE Boot --------------------------------
(***************************************************************************)
(* kernel_main of init/main.c: what the kernel reports of the machine the  *)
(* boot loader handed it, from tty_init to halt.                           *)
(*                                                                         *)
(* Any of Limine's responses may be missing.  A message is a record of     *)
(* what it says; whether it ends in a newline decides if the TTY shows it  *)
(* or keeps it in its ring buffer until one comes.  printk cuts a message  *)
(* at 4095 characters, and a name that long takes the newline with it.     *)
(***************************************************************************)
EXTENDS Integers, Sequences

CONSTANTS
    Word,           \* 2^64, in which sizes are added
    Machines        \* what boot loaders pass

Null == <<"null">>      \* a pointer that is NULL

\* A text the boot loader passes: plain characters, slashes, and "long", more
\* characters than a message can have.
Text == Seq({"a", "/", "long"}) \cup {Null}

\* A response that is missing is <<>>, one that is there <<what it holds>>.
Has(response) == response # <<>>

MachineOK(m) ==
    /\ {m.file, m.framebuffer, m.kernel_address, m.rsdp} \subseteq BOOLEAN
    /\ Has(m.bootloader) => m.bootloader[1] \in [name : Text, version : Text]
    /\ Has(m.memmap) => m.memmap[1] \in Seq([length : 0 .. Word - 1, usable : BOOLEAN])
    /\ Has(m.modules) => m.modules[1] \in Seq(Text)

ASSUME WordAssumption == Word \in Nat \ {0}
ASSUME MachinesAssumption == \A m \in Machines : MachineOK(m)

VARIABLES
    arch,       \* the architecture; x86-64 alone has a screen
    given,      \* what the boot loader passed
    screen,     \* the screen is selected; the command line decides
    serial,     \* the serial ports selected: the first one, and any of the others
    enabled,    \* the firmware left the transmitter of the first port on
    fb_local,   \* the uninitialised pointer of display_framebuffer_info
    pc,         \* the function kernel_main stands at
    i,          \* a loop's index
    total, usable,
    held,       \* messages in the ring buffer of the TTY
    shown,      \* messages the devices have shown
    icon        \* history: the icon was drawn

machine == <<arch, given, screen, serial, enabled, fb_local>>
memory == <<total, usable>>
output == <<held, shown>>
vars == <<machine, pc, i, memory, output, icon>>

Init ==
    /\ arch \in {"x86_64", "aarch64", "riscv64"}
    /\ given \in Machines
    /\ screen \in BOOLEAN
    /\ serial \in SUBSET {"first", "others"}
    /\ enabled \in IF arch = "aarch64" /\ "first" \in serial THEN BOOLEAN ELSE {TRUE}
    /\ fb_local \in {"null", "readable", "wild"}
    /\ pc = "tty_init"
    /\ i = 1
    /\ total = 0 /\ usable = 0
    /\ held = <<>> /\ shown = <<>>
    /\ icon = FALSE

X86 == arch = "x86_64"

\* The first port of aarch64 waits for ever where its transmitter was left off, as
\* soon as its FIFO is full: serial_init misses the register that would turn it on.
Deaf == arch = "aarch64" /\ "first" \in serial /\ ~enabled

\* Of the other ports only x86-64 has any; elsewhere their address is 0.
AtZero == ~X86 /\ "others" \in serial

\* A message without newline is held, one with it shows what was held before.
Line(what, value) == [what |-> what, value |-> value, newline |-> TRUE]
Part(what, value) == [what |-> what, value |-> value, newline |-> FALSE]

\* A message that ends in a name and a newline.
NameLine(what, name) ==
    [what |-> what, value |-> name, newline |-> \A k \in DOMAIN name : name[k] # "long"]

Blank == Line("blank", <<>>)

\* Messages are printed, one call of printk each.
Emit(messages) ==
    LET ends == {k \in DOMAIN messages : messages[k].newline} IN
    IF ends = {}
    THEN held' = held \o messages /\ UNCHANGED shown
    ELSE LET last == CHOOSE k \in ends : \A m \in ends : m <= k IN
         /\ shown' = shown \o held \o SubSeq(messages, 1, last)
         /\ held' = SubSeq(messages, last + 1, Len(messages))

Goto(f) == pc' = f

Fault == Goto("fault")

\* tty_init; get_cmdline follows the response of the kernel file without a look.
TtyInit ==
    /\ pc = "tty_init"
    /\ IF ~given.file THEN Fault
       ELSE IF X86 /\ screen /\ ~given.framebuffer THEN Goto("screen_init halts")
       ELSE Goto("tty_init_devices")
    /\ UNCHANGED <<machine, i, memory, output, icon>>

\* A halt lasts until the CPU wakes: hlt for a non-maskable interrupt, wfi for any.
WakeInScreenInit ==
    /\ pc = "screen_init halts"
    /\ Goto("tty_init_devices")
    /\ UNCHANGED <<machine, i, memory, output, icon>>

\* serial_init and one line end to each selected port.  A deaf port whose FIFO is full
\* keeps its caller here.  What is at address 0 may fault or look busy; if it does
\* neither, it is taken for a port.
TtyInitDevices ==
    /\ pc = "tty_init_devices"
    /\ \/ Goto("tty_init logs")
       \/ (Deaf \/ AtZero) /\ Goto("serial_putc spins")
       \/ AtZero /\ Fault
    /\ UNCHANGED <<machine, i, memory, output, icon>>

\* The first message is longer than any FIFO: a deaf port does not get to its newline.
TtyInitLogs ==
    /\ pc = "tty_init logs"
    /\ \/ Deaf /\ Emit(<<Part("tty initialized", <<>>)>>) /\ Goto("serial_putc spins")
       \/ /\ ~Deaf
          /\ Emit(<<Line("tty initialized", <<>>), Line("tty devices", <<>>)>>)
          /\ Goto("title")
    /\ UNCHANGED <<machine, i, memory, icon>>

DisplayTitle ==
    /\ pc = "title"
    /\ Emit(<<Line("rule", <<>>), Line("version", <<>>), Line("rule", <<>>), Blank>>)
    /\ Goto("bootloader")
    /\ UNCHANGED <<machine, i, memory, icon>>

DisplayBootloaderInfo ==
    /\ pc = "bootloader"
    /\ IF Has(given.bootloader)
       THEN LET info == given.bootloader[1] IN
            Emit(<<Line("bootloader", <<>>)>>
                  \o (IF info.name # Null THEN <<NameLine("name", info.name)>> ELSE <<>>)
                  \o (IF info.version # Null THEN <<NameLine("name", info.version)>> ELSE <<>>)
                  \o <<Blank>>)
       ELSE UNCHANGED output
    /\ Goto("framebuffer")
    /\ UNCHANGED <<machine, i, memory, icon>>

\* The pointer is a local nobody sets.
DisplayFramebufferInfo ==
    /\ pc = "framebuffer"
    /\ \/ fb_local = "null" /\ Goto("memory") /\ UNCHANGED output
       \/ /\ fb_local = "readable"
          /\ Emit(<<Line("framebuffer", <<>>), Line("resolution", <<>>), Line("bpp", <<>>), Blank>>)
          /\ Goto("memory")
       \/ fb_local = "wild" /\ Emit(<<Line("framebuffer", <<>>)>>) /\ Fault
    /\ UNCHANGED <<machine, i, memory, icon>>

DisplayMemoryInfo ==
    /\ pc = "memory"
    /\ IF Has(given.memmap)
       THEN Emit(<<Line("memory", <<>>)>>) /\ Goto("entries")
       ELSE UNCHANGED output /\ Goto("kernel_address")
    /\ UNCHANGED <<machine, i, memory, icon>>

KeepsIndexBug ==
    LET entry == given.memmap[1][i] IN
    /\ pc = "entries"
    /\ i <= Len(given.memmap[1])
    /\ total' = (total + entry.length) % Word
    /\ usable' = IF entry.usable THEN (usable + entry.length) % Word ELSE usable
    /\ UNCHANGED <<machine, pc, i, output, icon>>

MemoryEntry ==
    LET entry == given.memmap[1][i] IN
    /\ pc = "entries"
    /\ i <= Len(given.memmap[1])
    /\ total' = (total + entry.length) % Word
    /\ usable' = IF entry.usable THEN (usable + entry.length) % Word ELSE usable
    /\ i' = i + 1
    /\ UNCHANGED <<machine, pc, output, icon>>

MemoryTotals ==
    /\ pc = "entries"
    /\ i > Len(given.memmap[1])
    /\ Emit(<<Line("total", <<total>>), Line("usable", <<usable>>), Blank>>)
    /\ i' = 1
    /\ Goto("kernel_address")
    /\ UNCHANGED <<machine, memory, icon>>

DisplayKernelAddressInfo ==
    /\ pc = "kernel_address"
    /\ IF given.kernel_address
       THEN Emit(<<Line("kernel address", <<>>), Line("physical", <<>>), Line("virtual", <<>>), Blank>>)
       ELSE UNCHANGED output
    /\ Goto("acpi")
    /\ UNCHANGED <<machine, i, memory, icon>>

DisplayAcpiInfo ==
    /\ pc = "acpi"
    /\ IF given.rsdp
       THEN Emit(<<Line("acpi", <<>>), Line("rsdp", <<>>), Blank, Blank>>)
       ELSE UNCHANGED output
    /\ Goto("modules")
    /\ UNCHANGED <<machine, i, memory, icon>>

AfterModules == IF X86 THEN "icon" ELSE "halt"

DisplayModuleInfo ==
    /\ pc = "modules"
    /\ IF ~Has(given.modules) THEN UNCHANGED output /\ Goto(AfterModules)
       ELSE IF given.modules[1] = <<>>
       THEN Emit(<<Line("modules", <<>>), Line("no modules", <<>>), Blank>>) /\ Goto(AfterModules)
       ELSE /\ Emit(<<Line("modules", <<>>), Line("count", <<Len(given.modules[1])>>), Blank>>)
            /\ Goto("module")
    /\ UNCHANGED <<machine, i, memory, icon>>

KeepsSlashBug(path) ==
    LET last[k \in 0 .. Len(path)] ==
            IF k = 0 THEN 0 ELSE IF path[k] = "/" THEN k - 1 ELSE last[k - 1]
    IN  SubSeq(path, last[Len(path)] + 1, Len(path))

\* The loop over the path keeps what is behind the last slash it passed.
BaseName(path) ==
    LET last[k \in 0 .. Len(path)] ==
            IF k = 0 THEN 0 ELSE IF path[k] = "/" THEN k ELSE last[k - 1]
    IN  SubSeq(path, last[Len(path)] + 1, Len(path))

ModuleEntry ==
    LET path == given.modules[1][i] IN
    /\ pc = "module"
    /\ i <= Len(given.modules[1])
    /\ Emit(<<Part("module", <<i>>),
               IF path = Null THEN Line("unnamed", <<>>) ELSE NameLine("path", BaseName(path))>>)
    /\ i' = i + 1
    /\ UNCHANGED <<machine, pc, memory, icon>>

NoLastLineBug ==
    /\ pc = "module"
    /\ i > Len(given.modules[1])
    /\ Goto(AfterModules)
    /\ UNCHANGED <<machine, i, memory, output, icon>>

ModulesEnd ==
    /\ pc = "module"
    /\ i > Len(given.modules[1])
    /\ Emit(<<Blank>>)
    /\ Goto(AfterModules)
    /\ UNCHANGED <<machine, i, memory, icon>>

\* The icon goes to the framebuffer past the TTY; put_pixel draws nothing when
\* screen_init has not set it.
DisplayASCIIIcon ==
    /\ pc = "icon"
    /\ icon' = (screen /\ given.framebuffer)
    /\ Goto("halt")
    /\ UNCHANGED <<machine, i, memory, output>>

Halt ==
    /\ pc = "halt"
    /\ Goto("halted")
    /\ UNCHANGED <<machine, i, memory, output, icon>>

\* The CPU wakes, and kernel_main returns to where no one called it.
WakeAfterHalt ==
    /\ pc = "halted"
    /\ Goto("returned")
    /\ UNCHANGED <<machine, i, memory, output, icon>>

\* The machine stands still.
Stopped ==
    /\ pc \in {"screen_init halts", "serial_putc spins", "halted", "returned", "fault"}
    /\ UNCHANGED vars

Main ==
    \/ TtyInit \/ TtyInitDevices \/ TtyInitLogs \/ DisplayTitle \/ DisplayBootloaderInfo
    \/ DisplayFramebufferInfo \/ DisplayMemoryInfo \/ MemoryEntry \/ MemoryTotals
    \/ DisplayKernelAddressInfo \/ DisplayAcpiInfo \/ DisplayModuleInfo
    \/ ModuleEntry \/ ModulesEnd \/ DisplayASCIIIcon \/ Halt

Next == Main \/ WakeInScreenInit \/ WakeAfterHalt \/ Stopped

\* The CPU executes kernel_main; nothing is sure to wake it.
Spec == Init /\ [][Next]_vars /\ WF_vars(Main)

-----------------------------------------------------------------------------
\* When the kernel halts, every message has left the ring buffer, even where a long
\* name was cut and took its newline with it: a line follows it in every case
\* (main.c:62, 147-166, 207; vsnprintk.c:232-237).
NothingHeldAtHalt == pc \in {"halted", "returned"} => held = <<>>

\* The messages of s that say one of kinds, in order.
Said(s, kinds) ==
    LET said[k \in 0 .. Len(s)] ==
            IF k = 0 THEN <<>>
            ELSE IF s[k].what \in kinds THEN Append(said[k - 1], s[k])
            ELSE said[k - 1]
    IN  said[Len(s)]

\* The part of the path behind a slash, or the whole path, that holds no slash.
IsBaseName(name, path) ==
    /\ \A m \in DOMAIN name : name[m] # "/"
    /\ \E n \in 0 .. Len(path) :
          /\ name = SubSeq(path, n + 1, Len(path))
          /\ n > 0 => path[n] = "/"

\* The messages of s list the first n modules, and no other.
Listed(s, n) ==
    LET heads == Said(s, {"module"})
        names == Said(s, {"path", "unnamed"})
    IN
    /\ Len(heads) = n /\ Len(names) = n
    /\ \A k \in 1 .. n :
          LET path == given.modules[1][k] IN
          /\ heads[k].value = <<k>>
          /\ names[k].what = IF path = Null THEN "unnamed" ELSE "path"
          /\ path # Null => IsBaseName(names[k].value, path)

\* The modules are listed in order, each with its number and the part of its path
\* that holds no slash, and no line of the list is missing (main.c:142-163).
ModulesAreListed ==
    pc = "halted" /\ Has(given.modules) => Listed(shown, Len(given.modules[1]))

\* The kernel comes to its end unless the boot loader passed no kernel file, a screen
\* is selected that has no framebuffer, the first port of aarch64 is selected and its
\* transmitter is off, a port is selected that is at address 0, or the stray pointer is
\* followed (li_req.c:66, screen.c:69-79, tty.c:240-245, serial.c of aarch64:44-57,
\* serial.h:35-45, main.c:68-74).
ReachesHalt ==
    (/\ pc = "tty_init"
     /\ given.file /\ fb_local # "wild"
     /\ ~(X86 /\ screen /\ ~given.framebuffer)
     /\ ~Deaf /\ ~AtZero) ~> (pc = "halted")
=============================================================================
