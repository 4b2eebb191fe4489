------------------------------ MODULE TomlTokens ------------------------------
(***************************************************************************)
(* Reference, not code: the tokens of TOML by its grammar, each as a        *)
(* condition on a complete sequence of characters, and what they mean.      *)
(*                                                                         *)
(* A meaning is a tuple of numbers: the characters of a string or a key, an *)
(* integer, the parts of a date; a float is its text without underscores.   *)
(***************************************************************************)
EXTENDS Integers, Sequences, SequencesExt, Characters

CONSTANTS Bits

NotToml == [is |-> FALSE, value |-> <<>>]
Toml(value) == [is |-> TRUE, value |-> value]
TomlIf(condition, value) == IF condition THEN Toml(value) ELSE NotToml

From(s, i) == SubSeq(s, i, Len(s))
Upto(s, i) == SubSeq(s, 1, i)
AllOf(s, characters) == \A i \in DOMAIN s : s[i] \in characters
Without(s, c) == SelectSeq(s, LAMBDA x : x # c)
StartsWith(s, prefix) == Len(prefix) <= Len(s) /\ Upto(s, Len(prefix)) = prefix

BlankChars == {Space, Tab}
ControlChars == (0..31 \ {Tab}) \cup {127}
HexDigits == DecimalDigit \cup 65..70 \cup 97..102
Signs == {Plus, Minus}

\* unquoted-key-char; the ranges of TOML 1.1 with what lies between them left out.
IsKeyChar(c, version) ==
    \/ c \in CapitalLetter \cup SmallLetter \cup DecimalDigit \cup {Minus, Underscore}
    \/ /\ version # "1.0"
       /\ c \notin {215, 247, 894}
       /\ \/ c \in {178, 179, 185, 188, 189, 190}
          \/ \E range \in {<<192, 8191>>, <<8204, 8205>>, <<8255, 8256>>, <<8304, 8591>>, <<9312, 9471>>,
                           <<11264, 12271>>, <<12289, 55295>>, <<63744, 64975>>, <<65008, 65533>>, <<65536, 983039>>} :
                range[1] <= c /\ c <= range[2]

-------------------------------------------------------------------------------
(* Numbers                                                                 *)

\* Digits with single underscores between them.
IsGrouped(s, digits) ==
    /\ s # <<>>
    /\ \A i \in DOMAIN s :
          \/ s[i] \in digits
          \/ /\ s[i] = Underscore
             /\ i \in 2..(Len(s) - 1)
             /\ s[i - 1] \in digits /\ s[i + 1] \in digits

Unsigned(s) == IF s # <<>> /\ s[1] \in Signs THEN Tail(s) ELSE s

NoLeadingZero(s) == s # <<>> /\ (s[1] = Zero => Len(s) = 1)

IsDecimal(s) == IsGrouped(Unsigned(s), DecimalDigit) /\ NoLeadingZero(Unsigned(s))

Worth(c) == CHOOSE n \in 0..15 : c \in IF n < 10 THEN {48 + n} ELSE {55 + n, 87 + n}

RECURSIVE ValueOf(_, _)
ValueOf(digits, base) ==
    IF digits = <<>> THEN 0 ELSE ValueOf(Front(digits), base) * base + Worth(Last(digits))

Fits(n) == -(2^(Bits - 1)) <= n /\ n < 2^(Bits - 1)

DecimalInteger(s) ==
    IF ~IsDecimal(s) THEN NotToml
    ELSE LET n == ValueOf(Without(Unsigned(s), Underscore), 10) * (IF s[1] = Minus THEN -1 ELSE 1)
         IN  TomlIf(Fits(n), <<n>>)

PrefixedInteger(s, prefix, digits, base) ==
    IF StartsWith(s, prefix) /\ IsGrouped(From(s, 3), digits)
      THEN LET n == ValueOf(Without(From(s, 3), Underscore), base) IN TomlIf(Fits(n), <<n>>)
      ELSE NotToml

IsExponent(s) == s # <<>> /\ s[1] \in {101, 69} /\ IsGrouped(Unsigned(Tail(s)), DecimalDigit)

IsFraction(s) == s # <<>> /\ s[1] = Dot /\ IsGrouped(Tail(s), DecimalDigit)

IsFloat(s) ==
    \E i \in 1..(Len(s) - 1) :
        /\ IsDecimal(Upto(s, i))
        /\ \/ IsExponent(From(s, i + 1))
           \/ \E j \in (i + 1)..Len(s) :
                 IsFraction(SubSeq(s, i + 1, j)) /\ (j = Len(s) \/ IsExponent(From(s, j + 1)))

Inf == <<105, 110, 102>>
Nan == <<110, 97, 110>>

\* There is one nan only.
Float(s) ==
    IF Unsigned(s) = Nan THEN Toml(Nan)
    ELSE TomlIf(IsFloat(s) \/ Unsigned(s) = Inf, Without(s, Underscore))

Boolean(s) ==
    IF s = <<116, 114, 117, 101>> THEN Toml(<<1>>)
    ELSE TomlIf(s = <<102, 97, 108, 115, 101>>, <<0>>)

-------------------------------------------------------------------------------
(* Dates and times                                                         *)

\* The characters of s, each of the set at its place.
HasForm(s, form) == Len(s) = Len(form) /\ \A i \in DOMAIN form : s[i] \in form[i]

Digits(n) == [i \in 1..n |-> DecimalDigit]
DateForm == Digits(4) \o <<{Minus}>> \o Digits(2) \o <<{Minus}>> \o Digits(2)
ShortForm == Digits(2) \o <<{Colon}>> \o Digits(2)
LongForm == ShortForm \o <<{Colon}>> \o Digits(2)

Two(s, i) == ValueOf(SubSeq(s, i, i + 1), 10)

Days == <<31, 28, 31, 30, 31, 30, 31, 31, 30, 31, 30, 31>>

\* Year zero is left out: Qt does not have it.
Date(s) ==
    IF ~HasForm(s, DateForm) THEN NotToml
    ELSE LET y == ValueOf(Upto(s, 4), 10)
             m == Two(s, 6)
             d == Two(s, 9)
             leap == IF m = 2 /\ y % 4 = 0 /\ (y % 100 # 0 \/ y % 400 = 0) THEN 1 ELSE 0
         IN  TomlIf(y # 0 /\ m \in 1..12 /\ d >= 1 /\ d <= Days[IF m \in 1..12 THEN m ELSE 1] + leap,
                    <<y, m, d>>)

Millis(s) ==
    LET digit(i) == IF i <= Len(s) THEN Worth(s[i]) ELSE 0
    IN  100 * digit(1) + 10 * digit(2) + digit(3)

\* Leap seconds are left out.
Time(version, s) ==
    LET short == version # "1.0" /\ HasForm(s, ShortForm)
        long == Len(s) >= 8 /\ HasForm(Upto(s, 8), LongForm)
        rest == From(s, 9)
        fraction == long /\ (rest = <<>> \/ (Len(rest) > 1 /\ rest[1] = Dot /\ AllOf(Tail(rest), DecimalDigit)))
    IN  IF ~(short \/ fraction) THEN NotToml
        ELSE LET second == IF short THEN 0 ELSE Two(s, 7)
                 ms == IF short \/ rest = <<>> THEN 0 ELSE Millis(Tail(rest))
             IN  TomlIf(Two(s, 1) <= 23 /\ Two(s, 4) <= 59 /\ second <= 59,
                        <<Two(s, 1), Two(s, 4), second, ms>>)

Offset(s) ==
    IF s \in {<<90>>, <<122>>} THEN Toml(<<0>>)
    ELSE IF ~HasForm(s, <<Signs>> \o ShortForm) THEN NotToml
    ELSE TomlIf(Two(s, 2) <= 23 /\ Two(s, 5) <= 59,
                <<(60 * Two(s, 2) + Two(s, 5)) * (IF s[1] = Minus THEN -1 ELSE 1)>>)

And(a, b) == TomlIf(a.is /\ b.is, a.value \o b.value)

LocalDateTime(version, s) ==
    IF Len(s) > 11 /\ s[11] \in {84, 116, Space}
      THEN And(Date(Upto(s, 10)), Time(version, From(s, 12)))
      ELSE NotToml

OffsetDateTime(version, s) ==
    IF \E i \in DOMAIN s : LocalDateTime(version, Upto(s, i)).is /\ Offset(From(s, i + 1)).is
      THEN LET i == CHOOSE i \in DOMAIN s :
                        LocalDateTime(version, Upto(s, i)).is /\ Offset(From(s, i + 1)).is
           IN  And(LocalDateTime(version, Upto(s, i)), Offset(From(s, i + 1)))
      ELSE NotToml

-------------------------------------------------------------------------------
(* Strings                                                                 *)

\* The characters behind a backslash, and what they stand for.
Escapes(version) == <<98, 116, 110, 102, 114, 34, 92>> \o (IF version = "1.0" THEN <<>> ELSE <<101>>)
Unescaped == <<8, 9, 10, 12, 13, 34, 92, 27>>

\* The number of digits behind u, U and x.
Lengths(version) == [c \in {117, 85} \cup (IF version = "1.0" THEN {} ELSE {120}) |->
                        CASE c = 120 -> 2 [] c = 117 -> 4 [] OTHER -> 8]

\* Eight digits are taken apart: all of them would be too much for TLC.
ScalarValue(digits) ==
    IF Len(digits) = 8
      THEN IF AllOf(Upto(digits, 2), {Zero}) THEN ValueOf(From(digits, 3), 16) ELSE 16777215
      ELSE ValueOf(digits, 16)

IsScalar(n) == n \in 0..55295 \/ n \in 57344..1114111

\* The number of characters that are a new line.
NewLineAt(s, i) ==
    IF i <= Len(s) /\ s[i] = LF THEN 1
    ELSE IF i < Len(s) /\ s[i] = CR /\ s[i + 1] = LF THEN 2 ELSE 0

\* Blanks, a new line, then blanks and new lines: how far from position i.
RECURSIVE BlanksFrom(_, _), SpaceFrom(_, _)
BlanksFrom(s, i) == IF i <= Len(s) /\ s[i] \in BlankChars THEN BlanksFrom(s, i + 1) ELSE i
SpaceFrom(s, i) ==
    IF i <= Len(s) /\ s[i] \in BlankChars THEN SpaceFrom(s, i + 1)
    ELSE IF NewLineAt(s, i) > 0 THEN SpaceFrom(s, i + NewLineAt(s, i)) ELSE i

\* The body of a string between its quotes.  Two quotes are part of a
\* multi-line string, three end it.
RECURSIVE Body(_, _, _, _)
Body(version, s, quote, multi) ==
    LET More(taken, value) ==
            LET rest == Body(version, From(s, taken + 1), quote, multi)
            IN  TomlIf(rest.is, value \o rest.value)
        escape == quote = Quote /\ s[1] = Backslash
        line == BlanksFrom(s, 2)
    IN  IF s = <<>> THEN Toml(<<>>)
        ELSE IF escape /\ multi /\ NewLineAt(s, line) > 0
          THEN More(SpaceFrom(s, line) - 1, <<>>)
        ELSE IF escape
          THEN IF Len(s) > 1 /\ s[2] \in ToSet(Escapes(version))
                 THEN LET i == CHOOSE i \in DOMAIN Escapes(version) : Escapes(version)[i] = s[2]
                      IN  More(2, <<Unescaped[i]>>)
               ELSE IF Len(s) > 1 /\ s[2] \in DOMAIN Lengths(version)
                 THEN LET n == Lengths(version)[s[2]]
                          digits == SubSeq(s, 3, n + 2)
                      IN  IF Len(s) >= n + 2 /\ AllOf(digits, HexDigits) /\ IsScalar(ScalarValue(digits))
                            THEN More(n + 2, <<ScalarValue(digits)>>) ELSE NotToml
               ELSE NotToml
        ELSE IF multi /\ NewLineAt(s, 1) > 0 THEN More(NewLineAt(s, 1), <<LF>>)
        ELSE IF s[1] \in ControlChars THEN NotToml
        ELSE IF s[1] = quote /\ (~multi \/ StartsWith(s, <<quote, quote, quote>>)) THEN NotToml
        ELSE More(1, <<s[1]>>)

SingleLineString(version, s) ==
    IF Len(s) >= 2 /\ s[1] \in {Quote, Apostrophe} /\ Last(s) = s[1]
      THEN Body(version, SubSeq(s, 2, Len(s) - 1), s[1], FALSE)
      ELSE NotToml

MultiLineString(version, s) ==
    LET quotes == <<s[1], s[1], s[1]>>
        body == SubSeq(s, 4, Len(s) - 3)
    IN  IF Len(s) >= 6 /\ s[1] \in {Quote, Apostrophe} /\ StartsWith(s, quotes)
             /\ From(s, Len(s) - 2) = quotes
          THEN Body(version, From(body, NewLineAt(body, 1) + 1), s[1], TRUE)
          ELSE NotToml

-------------------------------------------------------------------------------
\* A date may have a space behind it.
DateToken(s) == IF s # <<>> /\ Last(s) = Space THEN Date(Front(s)) ELSE Date(s)

Punctuation ==
    [NameSeperator |-> <<Dot>>, Assignment |-> <<Equals>>,
     TableNameBegin |-> <<OpenBracket>>, TableNameEnd |-> <<CloseBracket>>,
     ArrayNameBegin |-> <<OpenBracket, OpenBracket>>, ArrayNameEnd |-> <<CloseBracket, CloseBracket>>,
     ArrayBegin |-> <<OpenBracket>>, ArrayEnd |-> <<CloseBracket>>,
     TableBegin |-> <<OpenBrace>>, TableEnd |-> <<CloseBrace>>, TableSeperator |-> <<Comma>>]

\* What s means as a token of a type.
Meaning(type, version, s) ==
    CASE type = "DecimalInteger"   -> DecimalInteger(s)
      [] type = "HexInteger"       -> PrefixedInteger(s, <<48, 120>>, HexDigits, 16)
      [] type = "OctalInteger"     -> PrefixedInteger(s, <<48, 111>>, 48..55, 8)
      [] type = "BinaryInteger"    -> PrefixedInteger(s, <<48, 98>>, 48..49, 2)
      [] type = "Float"            -> Float(s)
      [] type = "Boolean"          -> Boolean(s)
      [] type = "LocalDate"        -> DateToken(s)
      [] type = "LocalTime"        -> Time(version, s)
      [] type = "LocalDateTime"    -> LocalDateTime(version, s)
      [] type = "OffsetDateTime"   -> OffsetDateTime(version, s)
      [] type = "SingleLineString" -> SingleLineString(version, s)
      [] type = "MultiLineString"  -> MultiLineString(version, s)
      [] type = "BareKey"          -> TomlIf(s # <<>> /\ \A i \in DOMAIN s : IsKeyChar(s[i], version), s)
      [] type = "Whitespace"       -> TomlIf(s # <<>> /\ AllOf(s, BlankChars), <<>>)
      [] type = "NewLine"          -> TomlIf(s \in {<<LF>>, <<CR, LF>>}, <<>>)
      [] type = "Comment"          -> TomlIf(s # <<>> /\ s[1] = Hash
                                               /\ \A i \in DOMAIN s : s[i] \notin ControlChars, <<>>)
      [] type \in DOMAIN Punctuation -> TomlIf(s = Punctuation[type], <<>>)

===============================================================================
