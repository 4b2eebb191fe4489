------------------------------ MODULE Tokenizer ------------------------------
(***************************************************************************)
(* Class Tokenizer, character by character, on top of module CharReader.   *)
(*                                                                         *)
(* One action is what the code does from one character to the next.        *)
(* tokenizer holds the members of the class, run.at the point in its       *)
(* functions where the character ahead is looked at next.  A point in      *)
(* Expecting is one behind expectMoreData.                                 *)
(***************************************************************************)
EXTENDS CharReader, FiniteSets

CONSTANTS
    Specifications,             \* the versions of TOML: "1.0", "1.1"
    cValueNestingLimit,
    cBareKeyCharacterLimit,
    cStringCharacterLimit,
    cIntOrFloatCharacterLimit

ASSUME SpecificationsAssumption == Specifications \subseteq {"1.0", "1.1"}
ASSUME LimitsAssumption ==
    /\ cValueNestingLimit \in Nat
    /\ cBareKeyCharacterLimit \in Nat \ {0}
    /\ cStringCharacterLimit \in Nat
    /\ cIntOrFloatCharacterLimit \in Nat \ 0..3     \* "-inf" is a number

VARIABLES
    tokenizer,  \* _specification, _tokenContext, _valueNestingCount, _stringQuotes, _stringMode, _readSign
    run,        \* the point reached, the type of the token, and local variables
    types       \* history: the types of tokens

allVars == <<vars, tokenizer, run, types>>

\* Token::isValue
ValueTypes ==
    {"SingleLineString", "MultiLineString", "DecimalInteger", "HexInteger", "BinaryInteger",
     "OctalInteger", "Float", "Boolean", "OffsetDateTime", "LocalDateTime", "LocalDate", "LocalTime"}

TokenizerInit ==
    /\ Init
    /\ \E specification \in Specifications :
        tokenizer = [specification |-> specification, context |-> "Structure", nesting |-> 0,
                     quotes |-> "None", mode |-> "None", sign |-> "None"]
    /\ run = [at |-> "read", type |-> "None", count |-> 0, unicode |-> 0, digit |-> FALSE]
    /\ types = <<>>

To(point) == [run EXCEPT !.at = point]
ToType(point, type) == [run EXCEPT !.at = point, !.type = type]
ToCount(point, count) == [run EXCEPT !.at = point, !.count = count]

At(point) == place = "inside" /\ run.at = point

-------------------------------------------------------------------------------
(* What the steps have in common.  An ...As step changes members, too.     *)

\* skipChar and consumeChar, then go on at a point.
SkipAs(next, members) ==
    /\ skipChar("inside")
    /\ run' = next
    /\ tokenizer' = members
    /\ UNCHANGED <<document, token, startLocation, tokens, types>>

Skip(next) == SkipAs(next, tokenizer)

ConsumeAs(next, members) ==
    /\ skipChar("inside")
    /\ token' = Append(token, char)
    /\ run' = next
    /\ tokenizer' = members
    /\ UNCHANGED <<document, startLocation, tokens, types>>

Consume(next) == ConsumeAs(next, tokenizer)

\* skipCharAndWrite
SkipAndWrite(c, next) ==
    /\ skipChar("inside")
    /\ token' = IF place' = "encoding" THEN token ELSE Append(token, c)
    /\ run' = next
    /\ UNCHANGED <<document, startLocation, tokens, types, tokenizer>>

\* writeToToken
Write(c, next) ==
    /\ token' = Append(token, c)
    /\ run' = next
    /\ UNCHANGED <<document, position, char, hasChar, location, startLocation, place, tokens, seen>>
    /\ UNCHANGED <<types, tokenizer>>

\* Go on with the same character.
ContinueAs(next, members) == run' = next /\ tokenizer' = members /\ UNCHANGED <<vars, types>>
Continue(next) == ContinueAs(next, tokenizer)

throwSyntaxError ==
    /\ place' = "syntax"
    /\ UNCHANGED <<document, position, char, hasChar, token, location, startLocation, tokens, seen>>
    /\ UNCHANGED <<tokenizer, run, types>>

createToken(type) ==
    /\ takeToken
    /\ place' = "between"
    /\ types' = Append(types, type)
    /\ tokenizer' = [tokenizer EXCEPT !.quotes = "None", !.mode = "None"]
    /\ run' = To("created")
    /\ UNCHANGED <<document, position, char, hasChar, location, seen>>

streamAtEnd == position = Len(document.units)

\* The size of a text in UTF-16 code units.
SizeOf(text) == Len(text) + Cardinality({i \in DOMAIN text : text[i] >= 65536})

tokenSize == SizeOf(token)

isNewLineOrCarriageReturn == char \in {LF, CR}
isWhiteSpace == char \in {Space, Tab}
isDecimalDigit == char \in DecimalDigit
isPlusMinusSign == char \in {Plus, Minus}
isNumberSystemPrefix == char \in {Letter.x, Letter.o, Letter.b}
isExponentPrefix == char \in {Letter.e, Letter.E}

\* The ranges of characters TOML 1.1 adds to bare keys.
Fractions == {<<188, 190>>}
Letters ==
    {<<178, 179>>, <<185, 185>>, <<192, 214>>, <<216, 246>>, <<248, 893>>, <<895, 8191>>, <<8204, 8205>>,
     <<8255, 8256>>, <<8304, 8591>>, <<9312, 9471>>, <<11264, 12271>>, <<12289, 55295>>,
     <<63744, 64975>>, <<65008, 65533>>, <<65536, 983039>>}

IsIn(ranges) == \E range \in ranges : range[1] <= char /\ char <= range[2]

isPlainKey == char \in SmallLetter \cup CapitalLetter \cup DecimalDigit \cup {Underscore, Minus}

isBareKey == isPlainKey \/ (tokenizer.specification = "1.1" /\ IsIn(Letters \cup Fractions))

isPossibleValueEnd ==
    \/ streamAtEnd \/ isWhiteSpace \/ isNewLineOrCarriageReturn
    \/ char \in {Comma, Hash, CloseBrace, CloseBracket}

isPossibleBareKeyEnd == isWhiteSpace \/ char \in {Hash, Dot, CloseBracket, Equals}

\* expectValueEnd, expectBareKeyEnd, and the token that ends there.
EndValue(type) == IF isPossibleValueEnd THEN createToken(type) ELSE throwSyntaxError

EndBareKey ==
    IF ~atEnd /\ isPossibleBareKeyEnd THEN createToken("BareKey") ELSE throwSyntaxError

\* The end of the stream behind expectMoreData.
Expecting ==
    {"expectMore", "openName", "closeName", "sign", "secondQuote", "firstLine", "content",
     "escape", "blanks", "lines", "hex", "fraction", "exponent", "exponentDigit",
     "month", "hour", "zoneHour"}

PrematureEnd ==
    /\ place = "inside"
    /\ run.at \in Expecting
    /\ ~hasChar
    /\ throwSyntaxError

\* A point with a character to look at, where one is expected.
Looking(point) == At(point) /\ (point \in Expecting => hasChar)

-------------------------------------------------------------------------------
(* Tokenizer::read                                                         *)

ReadEnd ==
    /\ run.at = "read"
    /\ ReadEndOfDocument
    /\ types' = Append(types, "EndOfDocument")
    /\ UNCHANGED <<tokenizer, run>>

ReadNextChar ==
    /\ run.at = "read"
    /\ BeginToken
    /\ run' = To("begin")
    /\ UNCHANGED <<tokenizer, types>>

\* Mutant: any closing bracket ends the context of values.
ReturnToken_AnyBracket ==
    /\ place = "between"
    /\ run.at = "created"
    /\ LET type == types[Len(types)]
           value == tokenizer.context = "Value"
           nesting == tokenizer.nesting
                        + (IF ~value THEN 0
                           ELSE IF type \in {"ArrayBegin", "TableBegin"} THEN 1
                           ELSE IF type \in {"ArrayEnd", "TableEnd"} THEN -1 ELSE 0)
           leaves == value /\ (type \in {"ArrayEnd", "TableEnd"} \/ (nesting = 0 /\ type \in ValueTypes))
           enters == ~value /\ type = "Assignment"
       IN  IF nesting > cValueNestingLimit
             THEN throwSyntaxError
             ELSE /\ tokenizer' = [tokenizer EXCEPT !.nesting = nesting,
                                     !.context = IF enters THEN "Value"
                                                 ELSE IF leaves THEN "Structure" ELSE @]
                  /\ run' = To("read")
                  /\ UNCHANGED <<vars, types>>

\* read hands out the token: the context may change.
ReturnToken ==
    /\ place = "between"
    /\ run.at = "created"
    /\ LET type == types[Len(types)]
           value == tokenizer.context = "Value"
           nesting == tokenizer.nesting
                        + (IF ~value THEN 0
                           ELSE IF type \in {"ArrayBegin", "TableBegin"} THEN 1
                           ELSE IF type \in {"ArrayEnd", "TableEnd"} THEN -1 ELSE 0)
           leaves == value /\ nesting = 0 /\ type \in {"ArrayEnd", "TableEnd"} \cup ValueTypes
           enters == ~value /\ type = "Assignment"
       IN  IF nesting > cValueNestingLimit
             THEN throwSyntaxError
             ELSE /\ tokenizer' = [tokenizer EXCEPT !.nesting = nesting,
                                     !.context = IF enters THEN "Value"
                                                 ELSE IF leaves THEN "Structure" ELSE @]
                  /\ run' = To("read")
                  /\ UNCHANGED <<vars, types>>

-------------------------------------------------------------------------------
(* Tokens that can be everywhere.                                          *)

ReadWhiteSpace ==
    /\ At("begin") \/ At("whiteSpace")
    /\ isWhiteSpace
    /\ Skip(To("whiteSpace"))

EndWhiteSpace ==
    /\ At("whiteSpace")
    /\ ~isWhiteSpace
    /\ createToken("Whitespace")

ReadComment ==
    /\ \/ At("begin") /\ char = Hash
       \/ At("comment") /\ hasChar /\ ~isNewLineOrCarriageReturn /\ ~isControlCharacter
    /\ Skip(To("comment"))

EndComment ==
    /\ At("comment")
    /\ IF ~hasChar \/ isNewLineOrCarriageReturn THEN createToken("Comment")
       ELSE isControlCharacter /\ throwSyntaxError

\* New lines between tokens, behind the quotes of a string, in a string, and
\* behind a backslash.
NewLineSkipped ==
    \/ run.at = "begin"
    \/ run.at = "firstLine" /\ hasChar
    \/ run.at \in {"escape", "lines"} /\ hasChar /\ tokenizer.mode = "MultiLine"

NewLineConsumed == run.at = "content" /\ hasChar /\ tokenizer.mode = "MultiLine"

AfterNewLine ==
    CASE run.at = "begin" -> ToType("finish", "NewLine")
      [] run.at \in {"firstLine", "content"} -> To("content")
      [] run.at \in {"escape", "lines"} -> To("lines")

ReadCarriageReturn ==
    /\ place = "inside"
    /\ char = CR
    /\ NewLineSkipped \/ (NewLineConsumed /\ tokenSize <= cStringCharacterLimit)
    /\ skipChar("newLine")
    /\ UNCHANGED <<document, token, startLocation, tokens, tokenizer, run, types>>

ReadLineFeed ==
    /\ place \in {"inside", "newLine"}
    /\ char = LF
    /\ IF NewLineConsumed
         THEN tokenSize <= cStringCharacterLimit /\ Consume(AfterNewLine)
         ELSE NewLineSkipped /\ Skip(AfterNewLine)

LineFeedMissing ==
    /\ place = "newLine"
    /\ char # LF
    /\ throwSyntaxError

Finish ==
    /\ At("finish") \/ Looking("expectMore")
    /\ createToken(run.type)

-------------------------------------------------------------------------------
(* readStructure and readValue                                             *)

Structure == At("begin") /\ tokenizer.context = "Structure"
Value == At("begin") /\ tokenizer.context = "Value"

ReadPunctuation ==
    /\ \/ /\ Structure \/ Value
          /\ \/ char = Equals /\ Skip(ToType("expectMore", "Assignment"))
             \/ char = Dot /\ Skip(ToType("expectMore", "NameSeperator"))
       \/ /\ Structure
          /\ \/ char = OpenBracket /\ Skip(To("openName"))
             \/ char = CloseBracket /\ Skip(To("closeName"))
       \/ /\ Value
          /\ \/ char = OpenBracket /\ Skip(ToType("expectMore", "ArrayBegin"))
             \/ char = OpenBrace /\ Skip(ToType("expectMore", "TableBegin"))
             \/ char = Comma /\ Skip(ToType("expectMore", "TableSeperator"))
             \/ char = CloseBracket /\ Skip(ToType("finish", "ArrayEnd"))
             \/ char = CloseBrace /\ Skip(ToType("finish", "TableEnd"))

ReadNameBracket ==
    \/ /\ Looking("openName")
       /\ IF char = OpenBracket
            THEN Skip(ToType("expectMore", "ArrayNameBegin"))
            ELSE createToken("TableNameBegin")
    \/ /\ Looking("closeName")
       /\ IF char = CloseBracket
            THEN Skip(ToType("expectMore", "ArrayNameEnd"))
            ELSE createToken("TableNameEnd")

\* Mutant: the limit is forgotten.
ReadBareKey_Unlimited ==
    \/ /\ Structure \/ (At("bareKey") /\ hasChar)
       /\ isBareKey
       /\ Consume(To("bareKey"))
    \/ /\ At("bareKey") /\ (hasChar => ~isBareKey)
       /\ EndBareKey

ReadBareKey ==
    \/ /\ Structure \/ (At("bareKey") /\ hasChar /\ tokenSize <= cBareKeyCharacterLimit)
       /\ isBareKey
       /\ Consume(To("bareKey"))
    \/ /\ At("bareKey") /\ (hasChar => ~isBareKey /\ tokenSize <= cBareKeyCharacterLimit)
       /\ EndBareKey

BareKeyTooLong ==
    /\ At("bareKey") \/ At("word")
    /\ hasChar
    /\ tokenSize > cBareKeyCharacterLimit
    /\ throwSyntaxError

ReadSign ==
    /\ Value
    /\ char \notin {Equals, Dot, OpenBracket, CloseBracket, OpenBrace, CloseBrace, Comma,
                    Quote, Apostrophe, Hash, Space, Tab, LF, CR}
    /\ IF isPlusMinusSign
         THEN ConsumeAs(To("sign"), [tokenizer EXCEPT !.sign = IF char = Plus THEN "Plus" ELSE "Minus"])
         ELSE ContinueAs(To("sign"), [tokenizer EXCEPT !.sign = "None"])

\* Behind the sign: a number, a word, or a bare key.
ReadAfterSign ==
    /\ Looking("sign")
    /\ IF isDecimalDigit THEN Consume(To("firstDigit"))
       ELSE IF isBareKey THEN Consume(To("word"))
       ELSE IF tokenizer.sign = "Minus" THEN EndBareKey
       ELSE throwSyntaxError

UnexpectedCharacter ==
    /\ Structure
    /\ char \notin {Equals, Dot, OpenBracket, CloseBracket, Quote, Apostrophe, Hash}
    /\ ~isWhiteSpace /\ ~isNewLineOrCarriageReturn /\ ~isBareKey
    /\ throwSyntaxError

\* readFloatBoolOrBareKey
FloatSpecials ==
    LET inf == <<Letter.i, Letter.n, Letter.f>>
        nan == <<Letter.n, Letter.a, Letter.n>>
    IN  {sign \o word : sign \in {<<>>, <<Plus>>, <<Minus>>}, word \in {inf, nan}}

BooleanValues ==
    {<<Letter.t, Letter.r, Letter.u, Letter.e>>,
     <<Letter.f, Letter.a, Letter.l, Letter.s, Letter.e>>}

EndWord ==
    IF token \in FloatSpecials THEN EndValue("Float")
    ELSE IF token \in BooleanValues THEN EndValue("Boolean")
    ELSE IF tokenizer.sign = "Plus" THEN throwSyntaxError
    ELSE EndBareKey

ReadWord ==
    /\ At("word")
    /\ hasChar => tokenSize <= cBareKeyCharacterLimit
    /\ IF hasChar /\ isBareKey THEN Consume(To("word")) ELSE EndWord

-------------------------------------------------------------------------------
(* readString.  run.count is the number of end quotes, or of digits left.  *)

\* Char of the quotes, isString and getStringChar.
StringChar == IF tokenizer.quotes = "Literal" THEN Apostrophe ELSE Quote

EndOfString == IF tokenizer.mode = "MultiLine" THEN "MultiLineString" ELSE "SingleLineString"

\* detectStringType
ReadFirstQuote ==
    /\ At("begin")
    /\ char \in {Quote, Apostrophe}
    /\ SkipAs(To("secondQuote"),
              [tokenizer EXCEPT !.mode = "SingleLine",
                                !.quotes = IF char = Apostrophe THEN "Literal" ELSE "Regular"])

ReadSecondQuote ==
    /\ Looking("secondQuote")
    /\ IF char = StringChar THEN Skip(To("thirdQuote")) ELSE Continue(To("content"))

ReadThirdQuote ==
    /\ At("thirdQuote")
    /\ IF hasChar /\ char = StringChar
         THEN SkipAs(To("firstLine"), [tokenizer EXCEPT !.mode = "MultiLine"])
         ELSE createToken(EndOfString)

NoFirstNewLine ==
    /\ Looking("firstLine")
    /\ ~isNewLineOrCarriageReturn
    /\ Continue(To("content"))

\* readStringContent, but for new lines
InContent == Looking("content") /\ tokenSize <= cStringCharacterLimit

ReadContent_Uncontrolled ==
    /\ InContent
    /\ char # StringChar
    /\ char # Backslash \/ tokenizer.quotes = "Literal"
    /\ ~isNewLineOrCarriageReturn
    /\ Consume(To("content"))

ReadContent ==
    /\ InContent
    /\ char # StringChar
    /\ char # Backslash \/ tokenizer.quotes = "Literal"
    /\ ~isControlCharacter
    /\ Consume(To("content"))

ContentRejected ==
    /\ Looking("content")
    /\ \/ tokenSize > cStringCharacterLimit
       \/ isControlCharacter /\ ~(isNewLineOrCarriageReturn /\ tokenizer.mode = "MultiLine")
    /\ throwSyntaxError

\* detectStringEnd
ReadEndQuote ==
    /\ \/ InContent
       \/ At("endQuotes") /\ hasChar /\ tokenizer.mode = "MultiLine" /\ run.count < 5
    /\ char = StringChar
    /\ Skip(ToCount("endQuotes", IF run.at = "content" THEN 1 ELSE run.count + 1))

EndQuotesRead ==
    /\ At("endQuotes")
    /\ tokenizer.mode = "MultiLine" => ~hasChar \/ char # StringChar \/ run.count >= 5

DetectStringEnd ==
    /\ EndQuotesRead
    /\ IF tokenizer.mode # "MultiLine" THEN createToken("SingleLineString")
       ELSE IF hasChar /\ char = StringChar THEN throwSyntaxError   \* more than five
       ELSE IF ~hasChar /\ run.count = 1 THEN throwSyntaxError
       ELSE IF run.count >= 3 THEN Continue(ToCount("closing", run.count - 3))
       ELSE Continue(To("quotes"))

\* The quotes that were part of the string are written one by one.
WriteQuote ==
    /\ At("closing") \/ At("quotes")
    /\ run.count > 0
    /\ Write(StringChar, [run EXCEPT !.count = @ - 1])

QuotesWritten ==
    /\ run.count = 0
    /\ \/ At("closing") /\ createToken("MultiLineString")
       \/ At("quotes") /\ Continue(To("content"))

\* readBackslashEscaped
ReadBackslash ==
    /\ InContent
    /\ tokenizer.quotes = "Regular"
    /\ char = Backslash
    /\ Skip(To("escape"))

\* A backslash at the end of a line: blanks, the new line, and what is before
\* the next character.
ReadBlanks ==
    /\ \/ Looking("escape") /\ tokenizer.mode = "MultiLine"
       \/ Looking("blanks")
    /\ isWhiteSpace
    /\ Skip(To("blanks"))

EndBlanks ==
    /\ Looking("blanks")
    /\ ~isWhiteSpace
    /\ IF isNewLineOrCarriageReturn THEN Continue(To("lines")) ELSE throwSyntaxError

\* Mutant: the loop over blanks is not left at another character.
ReadLines_BlanksOnly ==
    /\ Looking("lines")
    /\ isWhiteSpace
    /\ Skip(To("lines"))

ReadLines ==
    /\ Looking("lines")
    /\ ~isNewLineOrCarriageReturn
    /\ IF isWhiteSpace THEN Skip(To("lines")) ELSE Continue(To("content"))

\* The character behind a backslash and what it stands for.
EscapeChar ==
    [c \in {Letter.b, Letter.t, Letter.n, Letter.f, Letter.r, Quote, Backslash}
             \cup (IF tokenizer.specification = "1.1" THEN {Letter.e} ELSE {}) |->
        CASE c = Letter.b -> 8
          [] c = Letter.t -> Tab
          [] c = Letter.n -> LF
          [] c = Letter.f -> 12
          [] c = Letter.r -> CR
          [] c = Letter.e -> 27
          [] OTHER -> c]

UnicodeDigits ==
    [c \in {Letter.u, Letter.U} \cup (IF tokenizer.specification = "1.1" THEN {Letter.x} ELSE {}) |->
        CASE c = Letter.x -> 2 [] c = Letter.u -> 4 [] OTHER -> 8]

LineContinues == tokenizer.mode = "MultiLine" /\ (isWhiteSpace \/ isNewLineOrCarriageReturn)

ReadEscape ==
    /\ Looking("escape")
    /\ ~LineContinues
    /\ IF char \in DOMAIN EscapeChar
         THEN SkipAndWrite(EscapeChar[char], To("content"))
       ELSE IF char \in DOMAIN UnicodeDigits
         THEN Skip([run EXCEPT !.at = "hex", !.count = UnicodeDigits[char], !.unicode = 0])
       ELSE throwSyntaxError

\* skipHexDigit
HexDigit(c) ==
    IF c \in DecimalDigit THEN c - 48 ELSE IF c \in 97..102 THEN c - 87
    ELSE IF c \in 65..70 THEN c - 55 ELSE -1

\* Beyond the last character all values are alike.
AddHexDigit(unicode, c) ==
    LET next == unicode * 16 + HexDigit(c)
    IN  IF next > LastCharacter THEN LastCharacter + 1 ELSE next

ReadHexDigit ==
    /\ Looking("hex")
    /\ run.count > 0
    /\ IF HexDigit(char) = -1 THEN throwSyntaxError
       ELSE Skip([run EXCEPT !.count = @ - 1, !.unicode = AddHexDigit(@, char)])

WriteUnicode ==
    /\ Looking("hex")
    /\ run.count = 0
    /\ IF isValidUnicode(run.unicode) THEN Write(run.unicode, To("content")) ELSE throwSyntaxError

-------------------------------------------------------------------------------
(* Numbers                                                                 *)

\* readNumberLike, behind the first digit
ReadNumberLike ==
    /\ At("firstDigit")
    /\ IF ~hasChar THEN createToken("DecimalInteger")
       ELSE IF ~isNumberSystemPrefix
         THEN Continue([run EXCEPT !.at = "integer", !.type = "DecimalInteger", !.digit = TRUE])
       ELSE IF Last(token) = Zero /\ tokenizer.sign = "None"
         THEN Consume([run EXCEPT !.at = "prefix", !.digit = FALSE,
                         !.type = CASE char = Letter.x -> "HexInteger"
                                    [] char = Letter.o -> "OctalInteger"
                                    [] OTHER -> "BinaryInteger"])
       ELSE throwSyntaxError

\* The points in consumeDigits, by the digits before.
DigitLoops == {"integer", "prefix", "fractionDigits", "exponentDigits"}

isDigit ==
    CASE run.type = "HexInteger"    -> HexDigit(char) # -1
      [] run.type = "OctalInteger"  -> char \in 48..55
      [] run.type = "BinaryInteger" -> char \in 48..49
      [] OTHER                      -> isDecimalDigit

InDigits == run.at \in DigitLoops /\ Looking(run.at) /\ tokenSize <= cIntOrFloatCharacterLimit

ConsumeDigit ==
    /\ InDigits
    /\ isDigit
    /\ Consume([run EXCEPT !.digit = TRUE])

SkipUnderscore_Repeated ==
    /\ InDigits
    /\ char = Underscore
    /\ Skip([run EXCEPT !.digit = FALSE])

SkipUnderscore ==
    /\ InDigits
    /\ char = Underscore
    /\ run.digit
    /\ Skip([run EXCEPT !.digit = FALSE])

DigitsRejected ==
    /\ place = "inside" /\ run.at \in DigitLoops
    /\ \/ hasChar /\ tokenSize > cIntOrFloatCharacterLimit
       \/ ~run.digit /\ (hasChar => ~isDigit)
    /\ throwSyntaxError

DigitsRead(loop) ==
    /\ At(loop)
    /\ run.digit
    /\ hasChar => InDigits /\ ~isDigit /\ char # Underscore

Exponent == Consume(To("exponent"))

\* The start of a date or of a time.
DateOrTime(digits, point, type) ==
    IF tokenSize = digits
      THEN Consume([run EXCEPT !.at = point, !.type = type, !.count = 2])
      ELSE throwSyntaxError

\* Back in readNumberLike
EndInteger ==
    /\ DigitsRead("integer")
    /\ IF streamAtEnd THEN createToken("DecimalInteger")
       ELSE IF char = Dot THEN Consume(To("fraction"))
       ELSE IF isExponentPrefix THEN Exponent
       ELSE IF char = Minus /\ tokenizer.sign = "None" THEN DateOrTime(4, "month", "LocalDate")
       ELSE IF char = Colon /\ tokenizer.sign = "None" THEN DateOrTime(2, "minute", "LocalTime")
       ELSE EndValue("DecimalInteger")

\* readFloatFraction and readExponent
ReadFirstDigitOf(point, loop) ==
    /\ Looking(point)
    /\ IF isDecimalDigit
         THEN Consume([run EXCEPT !.at = loop, !.digit = TRUE])
         ELSE throwSyntaxError

ReadFraction == ReadFirstDigitOf("fraction", "fractionDigits")

EndFraction ==
    /\ DigitsRead("fractionDigits")
    /\ IF ~streamAtEnd /\ isExponentPrefix THEN Exponent ELSE EndValue("Float")

ReadExponentSign ==
    /\ Looking("exponent")
    /\ IF isPlusMinusSign THEN Consume(To("exponentDigit")) ELSE Continue(To("exponentDigit"))

ReadExponent == ReadFirstDigitOf("exponentDigit", "exponentDigits")

EndExponent == DigitsRead("exponentDigits") /\ EndValue("Float")

\* readPrefixedNumber
EndPrefixed == DigitsRead("prefix") /\ EndValue(run.type)

-------------------------------------------------------------------------------
(* Dates and times.  run.type is "LocalTime" in readTime, else "LocalDate". *)

\* consumeDecimalDigits
DigitGroups == {"month", "day", "hour", "minute", "second", "zoneHour", "zoneMinute"}

ConsumeDecimalDigit ==
    /\ place = "inside" /\ run.at \in DigitGroups
    /\ run.count > 0
    /\ IF isDecimalDigit THEN Consume([run EXCEPT !.count = @ - 1]) ELSE throwSyntaxError

Group(point) == At(point) /\ run.count = 0

\* A separator, and the two digits behind it.
Separated(separator, point) ==
    IF char = separator THEN Consume(ToCount(point, 2)) ELSE throwSyntaxError

EndMonth == Group("month") /\ hasChar /\ Separated(Minus, "day")

EndDay ==
    /\ Group("day")
    /\ IF ~hasChar THEN createToken("LocalDate")
       ELSE IF char \in {Letter.T, Letter.t} THEN Consume(ToCount("hour", 2))
       ELSE IF char = Space THEN Skip(To("dateSpace"))
       ELSE EndValue("LocalDate")

\* The space may be the one of a date-time.
EndDateSpace ==
    /\ At("dateSpace")
    /\ IF ~hasChar THEN createToken("LocalDate")
       ELSE IF isDecimalDigit THEN Write(Space, ToCount("hour", 2))
       ELSE EndValue("LocalDate")

EndHour == Group("hour") /\ hasChar /\ Separated(Colon, "minute")

EndMinute ==
    /\ Group("minute")
    /\ IF ~hasChar
         THEN IF run.type = "LocalTime" THEN throwSyntaxError ELSE createToken("LocalDate")
       ELSE IF char = Colon THEN Consume(ToCount("second", 2))
       ELSE IF tokenizer.specification = "1.0" THEN throwSyntaxError
       ELSE Continue(To("zone"))

EndSecond ==
    /\ Group("second")
    /\ IF ~hasChar THEN createToken(run.type)
       ELSE IF char = Dot THEN Consume(ToCount("secondFraction", 0))
       ELSE Continue(To("zone"))

\* readOptionalFraction, run.count digits behind the dot
ReadSecondFraction ==
    /\ At("secondFraction")
    /\ IF ~hasChar
         THEN IF run.count = 0 THEN throwSyntaxError ELSE Continue(To("zone"))
       ELSE IF run.count = 11 THEN throwSyntaxError
       ELSE IF isDecimalDigit THEN Consume([run EXCEPT !.count = @ + 1])
       ELSE Continue(To("zone"))

\* readTimeZone, for a date-time; the end, for a time.
ReadTimeZone ==
    /\ At("zone")
    /\ IF run.type = "LocalTime" THEN EndValue("LocalTime")
       ELSE IF char \in {Letter.z, Letter.Z}
         THEN Consume(ToType("finish", "OffsetDateTime"))
       ELSE IF isPlusMinusSign THEN Consume(ToCount("zoneHour", 2))
       ELSE EndValue("LocalDateTime")

EndZoneHour == Group("zoneHour") /\ hasChar /\ Separated(Colon, "zoneMinute")

EndZoneMinute ==
    /\ Group("zoneMinute")
    /\ IF ~hasChar THEN createToken("OffsetDateTime") ELSE EndValue("OffsetDateTime")

-------------------------------------------------------------------------------
TokenizerNext ==
    \/ ReadEnd \/ ReadNextChar \/ ReturnToken \/ Finish \/ PrematureEnd
    \/ ReadWhiteSpace \/ EndWhiteSpace \/ ReadComment \/ EndComment
    \/ ReadCarriageReturn \/ ReadLineFeed \/ LineFeedMissing
    \/ ReadPunctuation \/ ReadNameBracket \/ ReadBareKey \/ BareKeyTooLong
    \/ ReadSign \/ ReadAfterSign \/ ReadWord \/ UnexpectedCharacter
    \/ ReadFirstQuote \/ ReadSecondQuote \/ ReadThirdQuote \/ NoFirstNewLine
    \/ ReadContent \/ ContentRejected \/ ReadEndQuote \/ DetectStringEnd \/ WriteQuote \/ QuotesWritten
    \/ ReadBackslash \/ ReadBlanks \/ EndBlanks \/ ReadLines
    \/ ReadEscape \/ ReadHexDigit \/ WriteUnicode
    \/ ReadNumberLike \/ ConsumeDigit \/ SkipUnderscore \/ DigitsRejected
    \/ EndInteger \/ ReadFraction \/ EndFraction \/ ReadExponentSign \/ ReadExponent
    \/ EndExponent \/ EndPrefixed
    \/ ConsumeDecimalDigit \/ EndMonth \/ EndDay \/ EndDateSpace \/ EndHour \/ EndMinute
    \/ EndSecond \/ ReadSecondFraction \/ ReadTimeZone \/ EndZoneHour \/ EndZoneMinute

TokenizerSpec == TokenizerInit /\ [][TokenizerNext]_allVars

===============================================================================
