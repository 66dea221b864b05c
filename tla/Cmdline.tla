------------------------------ MODULE Cmdline ------------------------------
(***************************************************************************)
(* tty_init of drivers/tty.c: which devices the boot command line selects, *)
(* in which order they are initialised, and how many are reported.         *)
(*                                                                         *)
(* A command line is a sequence of tokens, pieces of text that no          *)
(* comparison of the parser splits: "console=", "tty0", "ttyS", a digit, a *)
(* comma, a space, and other text, short ("x") or long.  Pointers into the *)
(* line are numbers of tokens; a length in characters is a sum of widths.  *)
(***************************************************************************)
EXTENDS Integers, Sequences

CONSTANTS
    Lines,          \* the command lines
    MaxSerialDevs,  \* MAX_SERIAL_DEVS
    MaxLen,         \* CONSOLE_DEVICE_MAX_LEN
    IntMax          \* INT_MAX

None == <<"no command line">>       \* the boot loader passes no string

Digit == {"0", "1", "2", "3", "4", "5", "6", "7", "8", "9"}
Tokens == Digit \cup {"console=", "tty0", "ttyS", ",", " ", "x", "long"}

ASSUME LinesAssumption == \A line \in Lines : line = None \/ line \in Seq(Tokens)
ASSUME NumbersAssumption ==
    MaxSerialDevs \in Nat \ {0} /\ MaxLen \in Nat /\ IntMax \in Nat /\ MaxSerialDevs <= IntMax

VARIABLES
    line,           \* the command line
    screen_built,   \* the kernel has a screen driver: it is built for x86-64
    out_screen,     \* the devices selected
    out_serial,
    ptr,            \* where the search for the next parameter begins
    param_end,      \* where the parameter ends
    device_start,   \* where its next device begins
    i,              \* the port initialised next
    initialised,    \* history: devices, in the order of their initialisation
    pc

Screen == MaxSerialDevs
Ports == 0 .. MaxSerialDevs - 1

selected == <<out_screen, out_serial>>
parsing == <<ptr, param_end, device_start>>
vars == <<line, screen_built, selected, parsing, i, initialised, pc>>

Init ==
    /\ line \in Lines
    /\ screen_built \in BOOLEAN
    /\ out_screen = FALSE
    /\ out_serial = [p \in Ports |-> FALSE]
    /\ ptr = 0 /\ param_end = 0 /\ device_start = 0
    /\ i = 0
    /\ initialised = <<>>
    /\ pc = IF line = None THEN "init" ELSE "find"

\* The token at a pointer; "" is the NUL at the end.
At(k) == IF k < Len(line) THEN line[k + 1] ELSE ""

\* The first pointer from k on at a token of a set; the line ends with NUL.
First(k, set) ==
    CHOOSE m \in k .. Len(line) :
        /\ At(m) \in set \cup {""}
        /\ \A n \in k .. m - 1 : At(n) \notin set

\* strstr finds the next parameter; it ends at a space.
FindParam ==
    LET pos == First(ptr, {"console="}) IN
    /\ pc = "find"
    /\ pos < Len(line)
    /\ ptr' = pos + 1
    /\ param_end' = First(pos + 1, {" "})
    /\ device_start' = pos + 1
    /\ pc' = "device"
    /\ UNCHANGED <<line, screen_built, selected, i, initialised>>

NoMoreParams ==
    /\ pc = "find"
    /\ First(ptr, {"console="}) = Len(line)
    /\ pc' = "default"
    /\ UNCHANGED <<line, screen_built, selected, parsing, i, initialised>>

CrossesSpacesBug(start) == First(start, {","})

\* Where the device that begins at a pointer ends.
DeviceEnd(start) ==
    LET comma == First(start, {","}) IN IF comma < param_end THEN comma ELSE param_end

Width(token) ==
    CASE token = "console=" -> 8 [] token \in {"tty0", "ttyS"} -> 4 [] token = "long" -> 12 [] OTHER -> 1

\* The tokens between two pointers.
Text(from, upto) == SubSeq(line, from + 1, upto)

Length(text) ==
    LET sum[k \in 0 .. Len(text)] == IF k = 0 THEN 0 ELSE sum[k - 1] + Width(text[k])
    IN  sum[Len(text)]

\* The values the digits at the beginning of a text may give: an int that overflows
\* may be any.
Overflow == -1

PortNumbers(text) ==
    LET digits == CHOOSE n \in 0 .. Len(text) :
                      /\ \A k \in 1 .. n : text[k] \in Digit
                      /\ n = Len(text) \/ text[n + 1] \notin Digit
        DigitOf(t) == CHOOSE d \in 0 .. 9 : t = <<"0", "1", "2", "3", "4", "5", "6", "7", "8", "9">>[d + 1]
        num[k \in 0 .. digits] ==
            IF k = 0 THEN 0
            ELSE IF num[k - 1] = Overflow \/ num[k - 1] * 10 + DigitOf(text[k]) > IntMax THEN Overflow
            ELSE num[k - 1] * 10 + DigitOf(text[k])
    IN  IF num[digits] = Overflow THEN -IntMax - 1 .. IntMax ELSE {num[digits]}

\* One device of a parameter.  tty0 is the screen, ttyS and a number a port, and
\* what is behind the number does not matter; anything else is ignored, and so is
\* a device too long for its buffer.
Device ==
    LET comma == DeviceEnd(device_start)
        len == Length(Text(device_start, comma))
        fits == len > 0 /\ len < MaxLen
        IsScreen == fits /\ comma = device_start + 1 /\ At(device_start) = "tty0"
        IsPort == fits /\ At(device_start) = "ttyS"
    IN
    /\ pc = "device"
    /\ device_start < param_end
    /\ out_screen' = (out_screen \/ IsScreen)
    /\ IF IsPort
       THEN \E n \in PortNumbers(Text(device_start + 1, comma)) :
               out_serial' = [p \in Ports |-> out_serial[p] \/ p = n]
       ELSE UNCHANGED out_serial
    /\ device_start' = IF At(comma) = "," THEN comma + 1 ELSE comma
    /\ UNCHANGED <<line, screen_built, ptr, param_end, i, initialised, pc>>

ParamDone ==
    /\ pc = "device"
    /\ device_start >= param_end
    /\ ptr' = param_end
    /\ pc' = "find"
    /\ UNCHANGED <<line, screen_built, selected, param_end, device_start, i, initialised>>

AnyPort == \E p \in Ports : out_serial[p]

\* Nothing was selected.  A kernel without a screen does not count the screen.
Default ==
    /\ pc = "default"
    /\ IF AnyPort \/ (screen_built /\ out_screen)
       THEN UNCHANGED selected
       ELSE /\ out_screen' = IF screen_built THEN TRUE ELSE out_screen
            /\ out_serial' = [out_serial EXCEPT ![0] = TRUE]
    /\ pc' = "init"
    /\ UNCHANGED <<line, screen_built, parsing, i, initialised>>

\* tty_init_devices: the screen, then the ports in order.
InitScreen ==
    /\ pc = "init"
    /\ initialised' = IF screen_built /\ out_screen THEN <<Screen>> ELSE <<>>
    /\ pc' = "ports"
    /\ UNCHANGED <<line, screen_built, selected, parsing, i>>

StopsAtFirstBug ==
    /\ pc = "ports"
    /\ i < MaxSerialDevs
    /\ initialised' = IF out_serial[i] THEN Append(initialised, i) ELSE initialised
    /\ i' = IF out_serial[i] THEN MaxSerialDevs ELSE i + 1
    /\ UNCHANGED <<line, screen_built, selected, parsing, pc>>

InitPort ==
    /\ pc = "ports"
    /\ i < MaxSerialDevs
    /\ initialised' = IF out_serial[i] THEN Append(initialised, i) ELSE initialised
    /\ i' = i + 1
    /\ UNCHANGED <<line, screen_built, selected, parsing, pc>>

PortsDone ==
    /\ pc = "ports"
    /\ i = MaxSerialDevs
    /\ pc' = "done"
    /\ UNCHANGED <<line, screen_built, selected, parsing, i, initialised>>

\* tty_init is called once.
Returned == pc = "done" /\ UNCHANGED vars

Next ==
    \/ FindParam \/ NoMoreParams \/ Device \/ ParamDone \/ Default
    \/ InitScreen \/ InitPort \/ PortsDone \/ Returned

Spec == Init /\ [][Next]_vars

\* tty_device_amount
DeviceAmount ==
    LET count[p \in 0 .. MaxSerialDevs] ==
            IF p = 0 THEN 0 ELSE count[p - 1] + (IF out_serial[p - 1] THEN 1 ELSE 0)
    IN  count[MaxSerialDevs] + (IF out_screen THEN 1 ELSE 0)

-----------------------------------------------------------------------------
\* The tokens first .. last of the line stand between commas or the ends of the
\* value of a parameter: the part of a word of the line behind its first "console=".
IsDevice(first, last) ==
    /\ \A k \in first .. last : line[k] \notin {",", " "}
    /\ last = Len(line) \/ line[last + 1] \in {",", " "}
    /\ \E key \in 1 .. first - 1 :
          /\ line[key] = "console="
          /\ first = key + 1 \/ line[first - 1] = ","
          /\ \A k \in key .. last : line[k] # " "
          /\ \A k \in 1 .. key - 1 : line[k] = "console=" => \E n \in k .. key : line[n] = " "

Named(device) ==
    \E first \in DOMAIN line : \E last \in first .. Len(line) :
        /\ IsDevice(first, last)
        /\ Length(Text(first - 1, last)) < MaxLen
        /\ IF device = Screen THEN first = last /\ line[first] = "tty0"
           ELSE line[first] = "ttyS" /\ device \in PortNumbers(Text(first, last))

\* A port whose number is too large for an int may turn out to be any.
TooLarge == \E first \in DOMAIN line : \E last \in first .. Len(line) : -1 \in PortNumbers(Text(first, last))

\* After the command line is read, the devices it names are selected and no others;
\* if it names none that exists, the screen and the first port, or that port alone in
\* a kernel without a screen; without a command line, none (tty.c:157-231).
SelectsTheNamed ==
    pc = "init" =>
        LET named == {d \in 0 .. Screen : line # None /\ Named(d)}
            usable == IF screen_built THEN named ELSE named \ {Screen}
            expected == IF line = None THEN {}
                        ELSE IF usable # {} THEN named
                        ELSE named \cup {0} \cup (IF screen_built THEN {Screen} ELSE {})
        IN  ~TooLarge =>
                {p \in Ports : out_serial[p]} \cup (IF out_screen THEN {Screen} ELSE {}) = expected

\* Each device the flush loop writes to was initialised, once, the screen before
\* the ports and the ports in order; and no other (tty.c:233-246, 136-149).
InitialisedAreUsed ==
    pc = "done" =>
        /\ {initialised[k] : k \in DOMAIN initialised} =
               {p \in Ports : out_serial[p]} \cup (IF screen_built /\ out_screen THEN {Screen} ELSE {})
        /\ \A k \in 1 .. Len(initialised) - 1 :
              initialised[k] = Screen \/ initialised[k] < initialised[k + 1]
        /\ \A k \in 2 .. Len(initialised) : initialised[k] # Screen

\* The number that "TTY: %d Devices enabled" logs is the number of devices that
\* were initialised (tty.c:273).
ReportsEnabled == pc = "done" => DeviceAmount = Len(initialised)
=============================================================================
