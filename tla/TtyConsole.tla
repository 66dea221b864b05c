----------------------------- MODULE TtyConsole -----------------------------
(***************************************************************************)
(* What the output calls of include/drivers/tty.h promise a caller of the  *)
(* kernel's console, without the lock, the ring buffer and the flushes by  *)
(* which tty.c keeps the promise.                                          *)
(*                                                                         *)
(*   - The messages of all callers form one stream of characters, and the  *)
(*     characters of one message stand together in it.                     *)
(*   - Every device goes through that stream from its first character on,  *)
(*     skips none and repeats none.                                        *)
(*   - A character is handed to the devices one at a time, in the order of *)
(*     their numbers and to the screen last, and no device gets the next   *)
(*     character before every device had this one.                         *)
(*   - A serial port transmits every character it is handed; the screen    *)
(*     does not show NUL.  A device the boot command line did not select   *)
(*     transmits nothing.                                                  *)
(***************************************************************************)
EXTENDS Naturals, Sequences

CONSTANTS
    Char,           \* the characters
    NUL,            \* the character 0
    Messages,       \* what a caller may pass to tty_write or tty_puts
    MaxSerialDevs   \* MAX_SERIAL_DEVS; the number of the screen

VARIABLES
    stream,         \* every character of every message, in the order it will be shown
    pos,            \* per device: how many characters of the stream it was handed
    out,            \* per device: what it transmitted or drew
    out_serial,     \* per serial port: selected by the command line
    out_screen      \* the screen is selected (and compiled in)

vars == <<stream, pos, out, out_serial, out_screen>>

Screen == MaxSerialDevs
Ports == 0 .. MaxSerialDevs - 1
Devices == 0 .. MaxSerialDevs

Receives(d, ch) == IF d = Screen THEN out_screen /\ ch # NUL ELSE out_serial[d]

Init ==
    /\ stream = <<>>
    /\ pos = [d \in Devices |-> 0]
    /\ out = [d \in Devices |-> <<>>]
    /\ out_serial \in [Ports -> BOOLEAN]
    /\ out_screen \in BOOLEAN

\* One call of tty_putc, tty_write or tty_puts: the whole message joins the stream at once.
Commit(m) ==
    /\ stream' = stream \o m
    /\ UNCHANGED <<pos, out, out_serial, out_screen>>

\* Device d is handed its next character of the stream.
Deliver(d) ==
    LET ch == stream[pos[d] + 1] IN
    /\ pos[d] < Len(stream)
    /\ \A e \in Devices : pos[e] = IF e < d THEN pos[d] + 1 ELSE pos[d]
    /\ pos' = [pos EXCEPT ![d] = @ + 1]
    /\ out' = [out EXCEPT ![d] = IF Receives(d, ch) THEN Append(@, ch) ELSE @]
    /\ UNCHANGED <<stream, out_serial, out_screen>>

Next ==
    \/ \E m \in Messages \cup {<<ch>> : ch \in Char} : Commit(m)
    \/ \E d \in Devices : Deliver(d)

Spec == Init /\ [][Next]_vars
=============================================================================
