------------------------------ MODULE MCScreen ------------------------------
(* Small video modes for Screen. *)
EXTENDS Screen

Mode(w, h, s) == [width |-> w, height |-> h, stride |-> s]

\* Two columns and two lines that fit exactly, with the last line cut, and on a
\* padded framebuffer; one line; lower than a line; narrower than a character and
\* its margins; no framebuffer.
MCModes ==
    {Mode(8, 9, 8), Mode(8, 8, 8), Mode(8, 9, 10), Mode(7, 7, 7), Mode(6, 3, 6),
     Mode(3, 9, 3), Mode(0, 0, 0)}
=============================================================================
