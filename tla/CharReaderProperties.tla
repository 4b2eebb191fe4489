------------------------- MODULE CharReaderProperties -------------------------
(***************************************************************************)
(* What CharReader and the streams promise.  The encodings are defined     *)
(* here a second time, the other way around and independent of the code:   *)
(* by the forms of RFC 3629 and by the units of a character.               *)
(***************************************************************************)
EXTENDS CharReader, FiniteSets

Other == 128..191
LowSurrogate == (LastHighSurrogate + 1)..LastSurrogate

\* The well-formed encodings of a character: RFC 3629, UTF8-octets, and the
\* code units of UTF-16.
Forms(encoding) ==
    IF encoding = "UTF-8"
      THEN {<<0..127>>, <<194..223, Other>>,
            <<224..224, 160..191, Other>>, <<225..236, Other, Other>>,
            <<237..237, 128..159, Other>>, <<238..239, Other, Other>>,
            <<240..240, 144..191, Other, Other>>, <<241..243, Other, Other, Other>>,
            <<244..244, 128..143, Other, Other>>}
      ELSE {<<0..(FirstSurrogate - 1)>>, <<(LastSurrogate + 1)..LastUnit>>,
            <<HighSurrogate, LowSurrogate>>}

IsWellFormed(encoding, units) ==
    \E form \in Forms(encoding) :
        Len(form) = Len(units) /\ \A i \in DOMAIN form : units[i] \in form[i]

\* There is a character after the first n units.
CharacterAt(d, n) ==
    \E size \in 1..4 :
        n + size <= Len(d.units) /\ IsWellFormed(d.encoding, SubSeq(d.units, n + 1, n + size))

Utf8(c) ==
    CASE c < 128 -> <<c>>
      [] 128 <= c /\ c < 2048 -> <<192 + (c \div 64), 128 + (c % 64)>>
      [] 2048 <= c /\ c < 65536 -> <<224 + (c \div 4096), 128 + ((c \div 64) % 64), 128 + (c % 64)>>
      [] OTHER -> <<240 + (c \div 262144), 128 + ((c \div 4096) % 64),
                        128 + ((c \div 64) % 64), 128 + (c % 64)>>

Utf16(c) ==
    IF c < 65536 THEN <<c>>
    ELSE <<55296 + ((c - 65536) \div 1024), 56320 + ((c - 65536) % 1024)>>

UnitsOf(encoding, c) == IF encoding = "UTF-8" THEN Utf8(c) ELSE Utf16(c)

Encoded(encoding, chars) == FlattenSeq([i \in DOMAIN chars |-> UnitsOf(encoding, chars[i])])

\* Three and four bytes for a character that needs less; a high surrogate
\* without a low one.
IsOverlong(first, second) ==
    (first = 224 /\ second \in 128..159) \/ (first = 240 /\ second \in 128..143)

IsUnpaired(first, second) == first \in HighSurrogate /\ second \notin LowSurrogate

IsStrict(d) ==
    \A i \in 1..(Len(d.units) - 1) :
        IF d.encoding = "UTF-8" THEN ~IsOverlong(d.units[i], d.units[i + 1])
                                ELSE ~IsUnpaired(d.units[i], d.units[i + 1])

-------------------------------------------------------------------------------
TypeOK ==
    /\ document.units \in Seq(Nat)
    /\ position \in 0..Len(document.units)
    /\ char \in Nat
    /\ hasChar \in BOOLEAN
    /\ token \in Seq(Nat)
    /\ location \in Location
    /\ startLocation \in Location
    /\ place \in Place
    /\ tokens \in Seq(Token)
    /\ seen \in Seq(Nat)

\* The characters read: those passed and the one ahead.
CharactersRead == IF hasChar /\ place # "encoding" THEN Append(seen, char) ELSE seen

\* Encoded again, the characters read are the units read.  A null character that
\* ends the document is read, but not delivered.
DeliversWhatIsRead ==
    LET read == SubSeq(document.units, 1, position)
        chars == Encoded(document.encoding, CharactersRead)
    IN  \/ read = chars
        \/ read = Append(chars, NUL) /\ position = Len(document.units)

\* No character is lost, made up or read twice.  Documents the decoders are too
\* tolerant with are left out, see DecodesStrictly.
DecodesDocument == place # "encoding" /\ IsStrict(document) => DeliversWhatIsRead

\* Data is rejected as corrupted only where no character can be read, and the
\* error is located right there.
ErrorsAreCorruption ==
    place = "encoding" =>
        /\ IsStrict(document) => position = Len(Encoded(document.encoding, seen))
        /\ ~CharacterAt(document, position)
        /\ location.index = Len(seen)

\* The end of a document is reported only when every character has been part
\* of a token, but for a null character at the very end.
EndsAtEnd ==
    place = "end" =>
        /\ position = Len(document.units)
        /\ ~hasChar
        /\ startLocation.index = Len(seen)

\* The location of a character is determined by the characters before it: lines
\* are counted by their line feeds, whatever ends them, and columns in
\* characters, not units.
LineFeeds == {i \in DOMAIN seen : seen[i] = LF}

LocationFits ==
    /\ location.index = Len(seen)
    /\ location.line = Cardinality(LineFeeds) + 1
    /\ location.column \in 1..Len(seen) + 1
    /\ location.column <= Len(seen) => Len(seen) + 1 - location.column \in LineFeeds
    /\ \A i \in LineFeeds : i <= Len(seen) + 1 - location.column

\* Tokens lie one behind the other, from the begin of the document to the begin
\* of the token being read, without gap and overlap.
Ends == [i \in 0..Len(tokens) |-> IF i = 0 THEN FirstLocation ELSE tokens[i].end]

TokensTile ==
    /\ \A i \in DOMAIN tokens : tokens[i].begin = Ends[i - 1] /\ tokens[i].end.index <= Len(seen)
    /\ startLocation = Ends[Len(tokens)]

\* A document is read to its end only if all of its data is well-formed
\* (README.md:5 and 15, parser.rst:99).
DecodesStrictly == place = "end" => DeliversWhatIsRead

-------------------------------------------------------------------------------
\* The inductive invariant: locations, tokens and the character ahead.
IndInv ==
    /\ TypeOK
    /\ hasChar => ~atEnd
    /\ LocationFits
    /\ TokensTile
    /\ EndsAtEnd

\* And the one for decoding: without a character ahead nothing can be passed, and
\* the null character at the very end is the only one read and never ahead.
ReadingFits ==
    LET read == SubSeq(document.units, 1, position)
        chars == Encoded(document.encoding, CharactersRead)
    IN  \/ read = chars
        \/ /\ read = Append(chars, NUL) /\ position = Len(document.units)
           /\ ~hasChar /\ place # "encoding"

ReadInv ==
    /\ IsDocument(document)
    /\ ~hasChar => char = NUL
    /\ IsStrict(document) => ReadingFits
    /\ place = "encoding" => ~CharacterAt(document, position)

ReaderInv == IndInv /\ ReadInv

===============================================================================
