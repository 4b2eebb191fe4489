------------------------------ MODULE Characters ------------------------------
(***************************************************************************)
(* The characters of TOML by their code points.                            *)
(***************************************************************************)
EXTENDS Integers

NUL == 0
Tab == 9
LF == 10
CR == 13
Space == 32
Quote == 34
Hash == 35
Apostrophe == 39
Plus == 43
Comma == 44
Minus == 45
Dot == 46
Colon == 58
Equals == 61
OpenBracket == 91
Backslash == 92
CloseBracket == 93
Underscore == 95
OpenBrace == 123
CloseBrace == 125

Letter == [a |-> 97, b |-> 98, e |-> 101, f |-> 102, i |-> 105, l |-> 108, n |-> 110, o |-> 111,
           r |-> 114, s |-> 115, t |-> 116, u |-> 117, x |-> 120, z |-> 122,
           E |-> 69, T |-> 84, U |-> 85, Z |-> 90]

Zero == 48
DecimalDigit == 48..57
SmallLetter == 97..122
CapitalLetter == 65..90

===============================================================================
