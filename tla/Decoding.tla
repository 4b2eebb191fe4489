------------------------------- MODULE Decoding -------------------------------
(***************************************************************************)
(* The streams of the library decode bytes and strings one character at a  *)
(* time: TextStreamInputStream reads UTF-8, for data and files, and        *)
(* StringInputStream reads the UTF-16 code units of a QString.             *)
(*                                                                         *)
(* A document is its encoding and its units, bytes or code units.  To read *)
(* the character after the first n units is to get the character and the   *)
(* number of units it takes, or Corrupt where readOrThrow throws.          *)
(***************************************************************************)
EXTENDS Integers, Sequences, SequencesExt

LastUnit == 65535
Byte == 0..255
CodeUnit == 0..LastUnit

\* What can be read: bytes as UTF-8, the code units of a string as UTF-16.
IsDocument(d) ==
    \/ d.encoding = "UTF-8" /\ d.units \in Seq(Byte)
    \/ d.encoding = "UTF-16" /\ d.units \in Seq(CodeUnit)

Corrupt == [char |-> 0, size |-> 0]

LastCharacter == 1114111
FirstSurrogate == 55296
LastSurrogate == 57343
Surrogate == FirstSurrogate..LastSurrogate

\* Mutant: the last character before the surrogates is one of them.
isValidUnicode_OffByOne(c) ==
    c \in 0..LastCharacter /\ c \notin (FirstSurrogate - 1)..LastSurrogate

\* Char::isValidUnicode
isValidUnicode(c) == c \in 0..LastCharacter /\ c \notin Surrogate

IfValid(c, size) == IF isValidUnicode(c) THEN [char |-> c, size |-> size] ELSE Corrupt

\* Mutant: two bytes for a character that needs one.
FirstByte_AnyTwo == <<0..127, 192..223, 224..239, 240..244>>

\* The first bytes of one byte to four.
FirstByte == <<0..127, 194..223, 224..239, 240..244>>

\* The number of bytes a first byte announces; 0 if it cannot be one.
Utf8Size(first) ==
    IF \E size \in 1..4 : first \in FirstByte[size]
      THEN CHOOSE size \in 1..4 : first \in FirstByte[size]
      ELSE 0

\* The bits of the first byte that belong to the character.
FirstBits(first, size) == first % <<128, 32, 16, 8>>[size]

AddByte(bits, byte) == (bits * 64) + (byte % 64)

ReadUtf8(units, n) ==
    LET first == units[n + 1]
        size == Utf8Size(first)
        bits[i \in 1..size] == IF i = 1 THEN FirstBits(first, size)
                                         ELSE AddByte(bits[i - 1], units[n + i])
    IN  IF size # 0 /\ n + size <= Len(units) /\ (\A i \in 2..size : units[n + i] \in 128..191)
          THEN IfValid(bits[size], size)
          ELSE Corrupt

LastHighSurrogate == 56319
HighSurrogate == FirstSurrogate..LastHighSurrogate

\* QChar::surrogateToUcs4, which computes with whatever it is given.
surrogateToUcs4(high, low) == high * 1024 + low - (55296 * 1024 + 56320 - 65536)

ReadUtf16(units, n) ==
    LET first == units[n + 1]
    IN  IF first \notin HighSurrogate THEN IfValid(first, 1)
        ELSE IF n + 2 > Len(units) \/ units[n + 2] \in HighSurrogate THEN Corrupt
        ELSE IfValid(surrogateToUcs4(first, units[n + 2]), 2)

\* readOrThrow: at the end it returns the null character.
ReadOrThrow(document, n) ==
    IF n = Len(document.units) THEN [char |-> 0, size |-> 0, failed |-> FALSE]
    ELSE LET read == IF document.encoding = "UTF-8" THEN ReadUtf8(document.units, n)
                                                    ELSE ReadUtf16(document.units, n)
         IN  [char |-> read.char, size |-> read.size, failed |-> read = Corrupt]

===============================================================================
