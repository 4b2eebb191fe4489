------------------------------ MODULE AsciiTexts ------------------------------
(***************************************************************************)
(* Texts of the instances, written as strings of ASCII.                    *)
(***************************************************************************)
EXTENDS Integers, Sequences

\* The characters of a string; X stands for the grave accent.
Ascii == " !\"#$%&'()*+,-./0123456789:;<=>?@ABCDEFGHIJKLMNOPQRSTUVWXYZ[\\]^_" \o "Xabcdefghijklmnopqrstuvwxyz{|}~"
Code(text) ==
    [i \in 1..Len(text) |-> 31 + CHOOSE n \in 1..Len(Ascii) : SubSeq(Ascii, n, n) = SubSeq(text, i, i)]
Codes(texts) == {Code(text) : text \in texts}

a ** b == {x \o y : x \in a, y \in b}

===============================================================================
