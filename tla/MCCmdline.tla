----------------------------- MODULE MCCmdline -----------------------------
(* Command lines of three phrases, and of four behind "console=", for TLC. *)
EXTENDS Cmdline

\* 1 is a port, 6 is none, 161 does not fit the int.
Phrases ==
    {<<"console=">>, <<" ">>, <<",">>, <<"tty0">>, <<"ttyS">>, <<"1">>, <<"x">>,
     <<"ttyS", "6">>, <<"ttyS", "1", "6", "1">>, <<"ttyS", "1", "long">>}

MCLines ==
    {None, <<>>} \cup {a \o b \o c : a, b, c \in Phrases}
    \cup {<<"console=">> \o a \o b \o c \o d : a, b, c, d \in Phrases}
=============================================================================
