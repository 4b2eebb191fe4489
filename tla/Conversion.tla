------------------------------ MODULE Conversion ------------------------------
(***************************************************************************)
(* ParserData::parseValue for scalars: the value a token stands for.  Text  *)
(* is a sequence of characters.  What Qt does is modelled as far as the     *)
(* code depends on it: conversion to numbers, search, the calendar.  A      *)
(* float keeps its text, the conversion to binary is left to Qt.            *)
(***************************************************************************)
EXTENDS Integers, Sequences, SequencesExt, Characters

CONSTANTS Bits          \* the width of an integer, 64 in the code

ASSUME BitsAssumption == Bits \in Nat \ {0}

\* A value is a tuple of numbers; a date that does not exist is the null date.
Error == [failed |-> TRUE, value |-> <<>>]
Converted(value) == [failed |-> FALSE, value |-> value]
NullDate == <<>>

-------------------------------------------------------------------------------
(* Qt                                                                      *)

DigitValue(c) == IF c \in DecimalDigit THEN c - 48 ELSE IF c \in SmallLetter THEN c - 87 ELSE c - 55

Number(digits, base) == FoldLeft(LAMBDA n, c : n * base + DigitValue(c), 0, digits)

HasSign(text) == text[1] \in {Plus, Minus}

\* Zero where the number does not fit.
toLongLong(text, base) ==
    LET n == IF HasSign(text) THEN Number(Tail(text), base) ELSE Number(text, base)
        signed == IF text[1] = Minus THEN -n ELSE n
    IN  IF signed \in (-(2^(Bits - 1)))..(2^(Bits - 1) - 1) THEN signed ELSE 0

\* Positions are counted from 1; 0 is not found.
indexOf(text, c) ==
    IF \E i \in DOMAIN text : text[i] = c
      THEN CHOOSE i \in DOMAIN text : text[i] = c /\ \A j \in 1..(i - 1) : text[j] # c
      ELSE 0

mid(text, from, length) == SubSeq(text, from, IF from + length - 1 > Len(text) THEN Len(text) ELSE from + length - 1)

toInt(text) == Number(text, 10)

IsLeapYear(year) == (year % 4 = 0 /\ year % 100 # 0) \/ year % 400 = 0

DaysInMonth(year, month) ==
    IF month = 2 THEN IF IsLeapYear(year) THEN 29 ELSE 28
    ELSE IF month \in {4, 6, 9, 11} THEN 30 ELSE 31

\* QDate::fromString with Qt::ISODate: what follows the date is not looked at,
\* unless it is a digit; there is no year zero.
DateFromString(text) ==
    LET year == toInt(mid(text, 1, 4))
        month == toInt(mid(text, 6, 2))
        day == toInt(mid(text, 9, 2))
    IN  IF /\ Len(text) > 10 => text[11] \notin DecimalDigit
           /\ year > 0 /\ month \in 1..12 /\ day \in 1..DaysInMonth(year, month)
          THEN <<year, month, day>>
          ELSE NullDate

-------------------------------------------------------------------------------
WithoutSign(text) == IF HasSign(text) THEN Tail(text) ELSE text

\* Mutant: a lone zero is a leading zero, too.
parseIntegerValue_NoZero(text) ==
    IF WithoutSign(text)[1] = Zero THEN Error ELSE Converted(<<toLongLong(text, 10)>>)

parseIntegerValue(text) ==
    LET digits == WithoutSign(text)
    IN  IF digits # <<Zero>> /\ digits[1] = Zero THEN Error
        ELSE Converted(<<toLongLong(text, 10)>>)

NaN == <<Letter.n, Letter.a, Letter.n>>

parseFloatValue(text) ==
    LET digits == WithoutSign(text)
    IN  IF digits = NaN THEN Converted(NaN)
        ELSE IF digits[1] = Zero /\ digits[2] \notin {Dot, Letter.e, Letter.E} THEN Error
        ELSE Converted(text)

\* The first three digits behind the dot, filled up with zeros.
milliseconds(text, fraction, offset) ==
    IF fraction = 0 THEN 0
    ELSE LET length == IF offset > 0 /\ offset - (fraction + 1) < 3 THEN offset - (fraction + 1) ELSE 3
             digits == mid(text, fraction + 1, length)
         IN  toInt(digits \o [i \in 1..(3 - Len(digits)) |-> Zero])

\* convertTime: hour, minute, second, millisecond, and the offset in minutes, if
\* there is one.
convertTime(text) ==
    LET isUtc == Last(text) \in {Letter.z, Letter.Z}
        minus == indexOf(text, Minus)
        plus == indexOf(text, Plus)
        offset == IF isUtc THEN Len(text) ELSE IF minus > plus THEN minus ELSE plus
        offsetHour == IF isUtc \/ offset = 0 THEN 0 ELSE toInt(mid(text, offset + 1, 2))
        offsetMinute == IF isUtc \/ offset = 0 THEN 0 ELSE toInt(mid(text, offset + 4, 2))
        offsetMinutes == (offsetHour * 60 + offsetMinute) * (IF minus > plus THEN -1 ELSE 1)
        fraction == indexOf(text, Dot)
        length == IF fraction > 0 THEN fraction - 1 ELSE IF offset > 0 THEN offset - 1 ELSE Len(text)
        hour == toInt(mid(text, 1, 2))
        minute == toInt(mid(text, 4, 2))
        second == IF length > 5 THEN toInt(mid(text, 7, 2)) ELSE 0
    IN  IF offsetHour >= 24 \/ offsetMinute >= 60 \/ hour > 23 \/ minute > 59 \/ second > 59
          THEN Error
          ELSE Converted(<<hour, minute, second, milliseconds(text, fraction, offset)>>
                           \o (IF offset > 0 THEN <<offsetMinutes>> ELSE <<>>))

parseTimeValue(text) ==
    IF convertTime(text).failed THEN Error ELSE Converted(mid(convertTime(text).value, 1, 4))

parseDateTimeValue(text) ==
    LET date == DateFromString(mid(text, 1, 10))
        time == convertTime(SubSeq(text, 12, Len(text)))
    IN  IF date = NullDate \/ time.failed THEN Error ELSE Converted(date \o time.value)

parseValue(type, text) ==
    CASE type \in {"SingleLineString", "MultiLineString"} -> Converted(text)
      [] type = "Boolean"        -> Converted(<<IF text[1] = Letter.t THEN 1 ELSE 0>>)
      [] type = "DecimalInteger" -> parseIntegerValue(text)
      [] type = "HexInteger"     -> Converted(<<toLongLong(SubSeq(text, 3, Len(text)), 16)>>)
      [] type = "OctalInteger"   -> Converted(<<toLongLong(SubSeq(text, 3, Len(text)), 8)>>)
      [] type = "BinaryInteger"  -> Converted(<<toLongLong(SubSeq(text, 3, Len(text)), 2)>>)
      [] type = "Float"          -> parseFloatValue(text)
      [] type \in {"OffsetDateTime", "LocalDateTime"} -> parseDateTimeValue(text)
      [] type = "LocalDate"      -> Converted(DateFromString(text))
      [] type = "LocalTime"      -> parseTimeValue(text)
      [] OTHER                   -> Error

===============================================================================
