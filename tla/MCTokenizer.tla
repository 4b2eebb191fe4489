----------------------------- MODULE MCTokenizer -----------------------------
(***************************************************************************)
(* The documents TLC gives to the tokenizer, put together from parts: every *)
(* way to write the tokens of each kind, and what is nearly one.            *)
(***************************************************************************)
EXTENDS TokenizerProperties, AsciiTexts

Words(characters, length) == BoundedSeq(characters, length)

Tails == Codes({"", ",", " ", "]", "x", "#"}) \cup {<<LF>>}

Sign == Codes({"", "+", "-"})

AnyNumbers == Words(ToSet(Code("01_.e-")), 4)

Floats ==
    Sign ** Codes({"0", "12", "1_2", "01"}) ** Codes({"", ".5", ".5_", ".", "._5"})
      ** Codes({"", "e5", "E+1_0", "e", "e-", "e_1"}) ** Codes({"", ","})

Prefixed ==
    Codes({"0x", "0o", "0b", "1x", "-0x"})
      ** Codes({"", "1", "8", "fF", "g", "_1", "1_", "1_1", "1__1", "7f", "80", "177", "200"})
      ** Codes({"", " ", "x"})

\* At the limits of 8 bits, and of the length of a number, 8.
LongNumbers ==
    Sign ** Codes({"127", "128", "129", "1_2_8", "11111111", "111111111", "1111111111", "1111111.5",
                   "11111111.5", "1111111e1", "11111111e+1", "1.111111", "1.1111111", "1.11111e+1", "1e1x1"})
         ** Codes({"", ","})

Constants ==
    Sign ** Codes({"inf", "nan", "true", "false", "Inf", "tru", "a", "-", "_1"})
         ** (Tails \cup Codes({"=", ".", "=1"}))

\* One character of s is left out, replaced or inserted, or s ends early.
Near(s, characters) ==
    {SubSeq(s, 1, i) : i \in 0..Len(s)}
      \cup {RemoveAt(s, i) : i \in DOMAIN s}
      \cup {ReplaceAt(s, i, c) : i \in DOMAIN s, c \in characters}
      \cup {InsertAt(s, i, c) : i \in DOMAIN s, c \in characters}

DateChars == ToSet(Code("09T:._ -+Z")) \cup {LF}

Dates ==
    UNION {Near(Code(s), DateChars) : s \in {"1979-05-27 07:32:00.5-01:30", "2000-02-29t23:59:59Z#", "07:32:09.999 "}}
      \cup Codes({"1979-05-27", "1900-02-29", "2024-02-29", "1979-13-01", "1979-04-31"}) ** Codes({"", ",", "T07:32,", " x", " #"})
      \cup Codes({"1979-05-27T", "1979-05-27 ", ""})
             ** Codes({"07:32:00.0123456789", "24:00:00", "23:60:00", "23:59:60", "07:32", "07:32:00.12"})
             ** Codes({"", ",", "1", "12,", "Z", "z,", "+23:59", "-24:00", "+00:60 ", "+23:59x1"})

\* Strings that begin with one or three quotes.
BasicChars == ToSet(Code("\"\\n ")) \cup {LF}
Strings ==
    Codes({"\"", "\"\"\""}) ** Words(BasicChars, 4)
      \cup Codes({"'", "'''"}) ** Words(ToSet(Code("'\\")) \cup {LF, CR}, 4)
      \cup Codes({"\"\"\"", "\"\"\"a"}) ** Words({Quote}, 7) ** Codes({"", ",", "x"})
      \cup {Code("\"\"\"") \o s \o Code("\"\"\",") : s \in Words({CR, LF, Backslash, Tab}, 4) \cup Words({1, 97}, 6)}

Escaped ==
    Codes({"\""})
      ** Codes({"\\b", "\\t", "\\f", "\\r", "\\e", "\\\"", "\\\\", "\\a", "\\x41", "\\xfG", "\\u00e9", "\\u00G0", "\\uD7FF",
                "\\uD800", "\\uDFFF", "\\uE000", "\\U0010FFFF", "\\U00110000", "\\U10000041", "\\U00000041", "\\u0000", "\\u004"})
      ** Codes({"\"", "", "x\","})

\* Characters outside of ASCII, those of two code units included.
Wide ==
    {Code("\"") \o s \o Code("\",") : s \in Words({233, 127, 128, 57344}, 2) \cup {<<55357, 56832>>, <<97, 98, 99, 55357, 56832, 55357, 56832>>}}

AnyValues == Words(ToSet(Code("1,[]{}")) \cup {Space, LF}, 3)

InValue == UNION {AnyNumbers, Floats, Prefixed, LongNumbers, Constants, Dates, Strings, Escaped, Wide, AnyValues}

InStructure ==
    Words(ToSet(Code("[].=a\"#")) \cup {Space, LF, CR}, 3)
      \cup {Code("#") \o s : s \in Words({97, 1, Tab, LF, CR}, 3)}
      \cup Words({97, 45, 95, 48}, 2) ** Words({178, 180, 185, 190, 192, 215, 894, 8204, 8206, 55295, 63744}, 1) ** Codes({"=", ".", "", "!"})
      \cup Codes({"abcde", "abcdef", "abcdefg"}) ** Codes({"=", ""})
      \cup Codes({"[", "[["}) ** Codes({"\"a\"", "a.b", "'''a'''"}) ** Codes({"]", "]]"}) ** {<<>>, <<LF>>, <<CR, LF>>}

Written == {8, 9, 10, 12, 13, 27, 32, 34, 39, 92, 0, 65, 233, 55295, 57344, 1114111}

\* A lone surrogate at each place.
Corrupted ==
    LET text == Code("[a]") \o <<LF>> \o Code("a=[\"\\n\",1,'']#")
    IN  {SubSeq(text, 1, i) \o <<55357>> : i \in 0..Len(text)}

AllTexts ==
    UNION {InStructure, Codes({"a="}) ** InValue,
           Codes({"a=[", "a={"}) ** (AnyValues \cup Constants \cup Prefixed), Corrupted}

AllDocuments == {[encoding |-> "UTF-16", units |-> text] : text \in AllTexts}

\* A date and a time at the end of a document, and before it.
LateDateTimes == {[encoding |-> "UTF-16", units |-> Code(text)] :
                     text \in {"a=1979-05-27T07:32:00,", "a=1979-05-27T07:32:00"}}

===============================================================================
