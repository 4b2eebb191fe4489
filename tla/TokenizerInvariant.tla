-------------------------- MODULE TokenizerInvariant --------------------------
(***************************************************************************)
(* What class Tokenizer owes to the character reader and to its limits,     *)
(* and the inductive invariant behind both: at each point of its functions, *)
(* how many characters were passed, how long the token is, and which types  *)
(* it can still become.  Module TokenizerProofs proves it for all           *)
(* documents and limits.                                                    *)
(***************************************************************************)
EXTENDS Tokenizer, CharReaderProperties

DateTypes == {"OffsetDateTime", "LocalDateTime", "LocalDate", "LocalTime"}
IntegerTypes == {"DecimalInteger", "HexInteger", "OctalInteger", "BinaryInteger"}

\* Tokenizer is a tokenizer as module CharReader allows: all of the properties of
\* the reader hold for it.
ReaderSpec == Spec

Delivered == {i \in DOMAIN types : types[i] # "EndOfDocument"}

\* Tokens have a limit by their type: quotes at the end of a multi-line string
\* come on top, and the last characters of a number that ends the document are
\* not counted any more.
IsWithinLimit(type, size, isLast) ==
    /\ type = "BareKey"          => size <= cBareKeyCharacterLimit
    /\ type = "SingleLineString" => size <= cStringCharacterLimit
    /\ type = "MultiLineString"  => size <= cStringCharacterLimit + 2
    /\ type \in IntegerTypes     => size <= cIntOrFloatCharacterLimit + (IF isLast THEN 1 ELSE 0)
    /\ type = "Float"            => size <= cIntOrFloatCharacterLimit + (IF isLast THEN 3 ELSE 0)
    /\ type \in DateTypes        => size <= 37
    /\ type \notin ValueTypes \cup {"BareKey"} => size = 0

\* No token is longer than its limit allows.
TokensLimited ==
    \A i \in Delivered :
        IsWithinLimit(types[i], SizeOf(tokens[i].text), tokens[i].end.index = Len(seen) /\ streamAtEnd)

-------------------------------------------------------------------------------
(* The inductive invariant.                                                *)

\* The points of the tokenizer, the types of its tokens, its variables.
PointNames ==
    Expecting \cup DigitLoops \cup DigitGroups \cup
    {"read", "created", "begin", "whiteSpace", "comment", "finish", "bareKey", "word",
     "thirdQuote", "endQuotes", "closing", "quotes", "firstDigit", "dateSpace", "secondFraction", "zone"}

Brackets == {"ArrayBegin", "ArrayEnd", "TableBegin", "TableEnd"}

SimpleTypes ==
    ValueTypes \cup
    {"Whitespace", "NewLine", "Comment", "BareKey", "Assignment", "NameSeperator",
     "TableNameBegin", "TableNameEnd", "ArrayNameBegin", "ArrayNameEnd", "TableSeperator", "EndOfDocument"}

TokenTypes == SimpleTypes \cup Brackets

Points == [at : PointNames, type : TokenTypes \cup {"None"}, count : Nat, unicode : Nat, digit : BOOLEAN]

Members == [specification : Specifications, context : {"Structure", "Value"}, nesting : Int,
            quotes : {"None", "Literal", "Regular"}, mode : {"None", "SingleLine", "MultiLine"},
            sign : {"None", "Plus", "Minus"}]

\* The points at which nothing has been written to the token.
NothingWritten ==
    {"begin", "whiteSpace", "comment", "openName", "closeName", "expectMore", "secondQuote",
     "thirdQuote", "firstLine"}

\* The points in a string at which its limit was just checked.
LimitChecked == {"endQuotes", "escape", "blanks", "lines", "hex"}

\* The types of tokens that end at a common point.
TypeFits(at, type, size) ==
    /\ at = "expectMore" =>
          type \in {"Assignment", "NameSeperator", "ArrayBegin", "TableBegin", "TableSeperator",
                   "ArrayNameBegin", "ArrayNameEnd"}
    /\ at = "finish" =>
          \/ type = "OffsetDateTime" /\ size <= 37
          \/ type \in {"NewLine", "ArrayEnd", "TableEnd"} /\ size = 0
    /\ at = "prefix" => type \in IntegerTypes
    /\ at \in {"month", "day", "dateSpace", "hour", "minute", "second", "secondFraction", "zone"} =>
          type \in {"LocalDate", "LocalTime"}

\* How long the token can be.
SizeFits(at, count, size) ==
    /\ at \in NothingWritten => size = 0
    /\ at \in LimitChecked => size <= cStringCharacterLimit
    /\ at = "closing" => size + count <= cStringCharacterLimit + 2
    /\ at = "endQuotes" => count \in 1..5
    /\ at = "sign" => size <= 1
    /\ at = "firstDigit" => size <= 2
    /\ at \in {"integer", "prefix", "fraction", "exponent"} => size <= cIntOrFloatCharacterLimit + 1
    /\ at \in {"fractionDigits", "exponentDigit"} => size <= cIntOrFloatCharacterLimit + 2
    /\ at = "exponentDigits" => size <= cIntOrFloatCharacterLimit + 3

DateFits(at, count, size) ==
    /\ at = "month" => size + count <= 7
    /\ at = "day" => size + count <= 10
    /\ at = "dateSpace" => size <= 10
    /\ at = "hour" => size + count <= 13
    /\ at = "minute" => size + count <= 16
    /\ at = "second" => size + count <= 19
    /\ at = "secondFraction" => count <= 11 /\ size <= 20 + count
    /\ at = "zone" => size <= 31
    /\ at = "zoneHour" => size + count <= 34
    /\ at = "zoneMinute" => size + count <= 37

\* What was passed of the token, but is not written to it yet.
LengthFits(at, count, length, passed) ==
    /\ length <= passed
    /\ at \in {"endQuotes", "closing", "quotes"} => length + count <= passed
    /\ at \in {"escape", "hex", "dateSpace"} => length < passed

\* A token of this length and size can be at this point, when so many of its
\* characters were passed.
Fits(at, type, count, members, length, size, passed) ==
    /\ at \notin {"read", "created"}
    /\ LengthFits(at, count, length, passed)
    /\ at = "sign" => members.sign = "None" \/ passed > 0
    /\ at \in {"expectMore", "finish"} /\ type \in Brackets => members.context = "Value"
    /\ at \notin {"begin", "sign"} => passed > 0
    /\ TypeFits(at, type, size)
    /\ SizeFits(at, count, size)
    /\ DateFits(at, count, size)

Passed == location.index - startLocation.index

\* Nothing follows this token.
IsClosed(i) == tokens[i].end.index = Len(seen) /\ atEnd /\ place \notin {"inside", "newLine"}

AllWithinLimits ==
    \A i \in Delivered : IsWithinLimit(types[i], SizeOf(tokens[i].text), IsClosed(i))

TokenInv ==
    /\ IndInv
    /\ run \in Points
    /\ tokenizer \in Members
    /\ types \in Seq(TokenTypes) /\ Len(types) = Len(tokens)
    /\ place = "between" => run.at \in {"read", "created"} /\ token = <<>> /\ startLocation = location
    /\ place = "between" /\ run.at = "created" =>
          types # <<>> /\ (types[Len(types)] \in Brackets => tokenizer.context = "Value")
    /\ place \in {"inside", "newLine"} =>
          /\ hasChar <=> ~atEnd
          /\ Fits(run.at, run.type, run.count, tokenizer, Len(token), tokenSize, Passed)
    /\ AllWithinLimits

===============================================================================
