------------------------------- MODULE MCBoot -------------------------------
(***************************************************************************)
(* Boot loaders for TLC.  Sections meet only in the ring buffer, so each   *)
(* set varies some of them and leaves the others out or plain.             *)
(***************************************************************************)
EXTENDS Boot

\* A name, a path, a name that printk cuts, a path that ends in a slash.
Texts == {Null, <<"a">>, <<"a", "/", "a">>, <<"/", "long">>, <<"long", "/">>}

SeqsUpTo(S, n) == UNION {[1 .. m -> S] : m \in 0 .. n}
Opt(S) == {<<>>} \cup {<<s>> : s \in S}

Bare == [file |-> TRUE, framebuffer |-> TRUE, bootloader |-> <<>>, memmap |-> <<>>,
         kernel_address |-> FALSE, rsdp |-> FALSE, modules |-> <<>>]

Names == {Null, <<"a">>, <<"/", "long">>}
Loaders == Opt([name : Names, version : Names])
Maps == Opt(SeqsUpTo([length : {3, 5}, usable : BOOLEAN], 3))
ModuleLists == Opt(SeqsUpTo(Texts, 3))

MCMachines ==
    {[Bare EXCEPT !.memmap = m] : m \in Maps}
    \cup {[Bare EXCEPT !.modules = m] : m \in ModuleLists}
    \cup {[Bare EXCEPT !.bootloader = b, !.file = f, !.framebuffer = v,
                       !.kernel_address = k, !.rsdp = r, !.modules = m] :
             b \in Loaders, f \in BOOLEAN, v \in BOOLEAN, k \in BOOLEAN, r \in BOOLEAN,
             m \in {<<>>, <<<<>>>>, <<<<<<"/", "long">>>>>>}}
=============================================================================
