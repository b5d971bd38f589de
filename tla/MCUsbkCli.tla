----------------------------- MODULE MCUsbkCli ------------------------------
(***************************************************************************)
(* Bounds for model-checking UsbkCli: the command lines that are typed.    *)
(* The options that carry values come first, because the option loop looks *)
(* at no flag when it takes them; the others come in every order.          *)
(***************************************************************************)
EXTENDS MCLibUsbk, UsbkCli

CONSTANTS Owner, Guess      \* the two passwords

CliView == <<View, run>>

Dev == Opt("u", 0)

(* Options that set a key or a name, whose order matters, and the others.  *)
KeyOptions ==
    {Opt("X", 0)} \cup {Opt("m", n) : n \in KeyNames} \cup {Opt("x", k) : k \in UserKeys}

Operations ==
    {Opt(l, 0) : l \in {"a", "d", "t", "T", "l", "s", "v", "?"}}
    \cup {Opt("c", Owner)} \cup {Opt("n", l) : l \in Labels} \cup KeyOptions

Orders == BoundedSeq(KeyOptions, 3) \cup BoundedSeq(Operations, 2)
Shown  == {<<o, Opt("i", 0)>> : o \in {Opt("a", 0), Opt("c", Owner)} \cup KeyOptions}

(* The settings as they are usually given, and others, with the operations *)
(* that they may change.                                                   *)
Usual == <<Dev, Opt("p", Owner)>>

Unusual ==
    {<<s, o>> : s \in {Dev, Opt("p", Owner)}, o \in Operations}
    \cup {<<Dev, s, o>> : s \in {Opt("p", Guess), Opt("f", 0)}, o \in Operations}
    \cup {Usual \o <<s, o>> : s \in {Opt("k", 0), Opt("k", 257)},
                             o \in {Opt("a", 0), Opt("t", 0)} \cup KeyOptions}
    \cup {Usual \o <<Opt("F", 100), o>> : o \in KeyOptions}

MCCommandLines == {Usual \o o : o \in Orders \cup Shown} \cup Unusual \cup {<< >>}

=============================================================================
