------------------------------- MODULE Syntax -------------------------------
(***************************************************************************)
(* Which documents the parser accepts: the tokenizer's two contexts        *)
(* (impl/Tokenizer.cpp) and the recursive descent of class ParserData      *)
(* (impl/ParserData.cpp) that drives it, one token at a time.              *)
(*                                                                         *)
(* The tokenizer decides by its own count of brackets whether it reads a   *)
(* name or a value; the parser decides by where it stands in its functions *)
(* what token it wants.  Neither tells the other.                          *)
(*                                                                         *)
(* One ParserData parses any number of documents one after another.        *)
(*                                                                         *)
(* The characters are abstracted to lexemes: a lexeme is what the          *)
(* tokenizer reads in one go and what cannot be cut differently.  The      *)
(* environment chooses them one by one as the reader advances, so that     *)
(* every document over the offered lexemes is a behaviour.  Errors inside  *)
(* a lexeme are left out.                                                  *)
(***************************************************************************)
EXTENDS Integers, Sequences

CONSTANTS
    NestingLimit,   \* Tokenizer::cValueNestingLimit
    Offered,        \* the lexemes the input may consist of, besides "end"
    MaxLexemes      \* bound: length of the input

\* "word": a bare key that is no value, as abc; "integer": a bare key that is a
\* decimal integer, as 12; "literal": one that is another value, as true, inf,
\* 0x1f or a date.  "string": a single-line string, a key or a value; "text": a
\* multi-line string.  "space": white space or a comment.
Word == {"word", "integer", "literal"}
Lexeme == Word \cup {"string", "text", "=", ".", ",", "[", "]", "{", "}",
                     "newline", "space", "end"}

ASSUME NestingLimitAssumption == NestingLimit \in Nat
ASSUME OfferedAssumption == Offered \subseteq Lexeme \ {"end"}
ASSUME MaxLexemesAssumption == MaxLexemes \in Nat

VARIABLES
    specification, \* ParserData::_specification, given to the constructor
    ahead,      \* CharReader::_char: the lexeme at the reading position
    taken,      \* number of lexemes read so far
    context,    \* Tokenizer::_tokenContext
    nesting,    \* Tokenizer::_valueNestingCount
    token,      \* ParserData::_token, or "none" while the tokenizer reads
    calls,      \* where each activation of the parser's functions stands
    outcome     \* "parsing", or how the last parse ended

vars == <<specification, ahead, taken, context, nesting, token, calls, outcome>>

\* TokenType.  "Value" stands for every type that is a value and no key.  The
\* four last ones are tokens the tokenizer has read half.
Half == {"HalfTableNameBegin", "HalfTableNameEnd", "HalfFloat", "HalfFraction"}
Token == {"Assignment", "NameSeperator", "TableNameBegin", "TableNameEnd",
          "ArrayNameBegin", "ArrayNameEnd", "BareKey", "SingleLineString",
          "MultiLineString", "DecimalInteger", "Value", "ArrayBegin", "ArrayEnd",
          "TableBegin", "TableEnd", "TableSeperator", "NewLine", "EndOfDocument"}

isKey == token \in {"BareKey", "SingleLineString", "DecimalInteger"}
ValueToken == {"SingleLineString", "MultiLineString", "DecimalInteger", "Value"}

\* Where a function stands: named for the token it waits for.
DocumentPlace == {"statement", "statementEnd", "tableName", "tableNameEnd", "arrayName",
                  "arrayNameEnd", "keyPart", "keyEnd", "value"}
ArrayPlace    == {"arrayItem", "arrayItemEnd"}
TablePlace    == {"inlineKey", "inlineNextKey", "inlineKeyPart", "inlineKeyEnd",
                  "inlineValue", "inlineEntryEnd"}
Place         == DocumentPlace \cup ArrayPlace \cup TablePlace

TypeOK ==
    /\ specification \in {"1.0", "1.1"}
    /\ ahead \in Lexeme
    /\ taken \in Nat
    /\ context \in {"Structure", "Value"}
    /\ nesting \in -1..(NestingLimit + 1)
    /\ token \in Token \cup Half \cup {"none"}
    /\ calls \in Seq(Place)
    /\ outcome \in {"idle", "parsing", "ok", "syntax", "limit"}

\* The lexemes that may come after l: two words would be one, as would two
\* white spaces.
Follow(l) ==
    IF taken + 1 >= MaxLexemes THEN {"end"}
    ELSE {"end"} \cup {m \in Offered : ~(l \in Word /\ m \in Word) /\ ~(l = "space" /\ m = "space")}

Init ==
    /\ specification \in {"1.0", "1.1"}
    /\ ahead = "end"
    /\ taken = 0
    /\ context = "Structure"
    /\ nesting = 0
    /\ token = "none"
    /\ calls = <<"statement">>
    /\ outcome = "idle"

\* Mutant: the count of an earlier parse is kept.
Start_KeepsNesting ==
    /\ outcome # "parsing"
    /\ ahead' \in Offered \cup {"end"}
    /\ taken' = 0
    /\ context' = "Structure"
    /\ token' = "none"
    /\ calls' = <<"statement">>
    /\ outcome' = "parsing"
    /\ UNCHANGED nesting

\* parseStream starts the tokenizer on another document, wherever the parse
\* before has ended.
Start ==
    /\ outcome # "parsing"
    /\ ahead' \in Offered \cup {"end"}
    /\ taken' = 0
    /\ context' = "Structure"
    /\ nesting' = 0
    /\ token' = "none"
    /\ calls' = <<"statement">>
    /\ outcome' = "parsing"

----------------------------------------------------------------------------
\* CharReader.

Fail(error) == outcome' = error
Proceed == UNCHANGED outcome

\* skipChar and consumeChar.
Consume ==
    /\ taken' = taken + 1
    /\ ahead' \in Follow(ahead)

\* The token t is complete, if more data follows (skipCharAndExpectMore).
ExpectMore(t) ==
    \/ ahead' # "end" /\ token' = t /\ Proceed
    \/ ahead' = "end" /\ UNCHANGED token /\ Fail("syntax")

\* The token t is complete, if a lexeme of S follows (expectValueEnd,
\* expectBareKeyEnd).  The last character of the stream always passes as the
\* end of a value; what it leads to is rejected in any case.
ExpectEnd(t, S) ==
    \/ ahead' \in S /\ token' = t /\ Proceed
    \/ ahead' \notin S /\ UNCHANGED token /\ Fail("syntax")

isPossibleValueEnd   == {"end", "space", "newline", ",", "]", "}"}
\* Mutant: the dot is missing.
isPossibleBareKeyEnd_NoDot == {"space", "]", "="}

isPossibleBareKeyEnd == {"space", ".", "]", "="}

----------------------------------------------------------------------------
\* Tokenizer::read.

Reading(c) == outcome = "parsing" /\ token = "none" /\ context = c

ReadEndOfDocument ==
    /\ outcome = "parsing" /\ token = "none"
    /\ ahead = "end"
    /\ token' = "EndOfDocument"
    /\ UNCHANGED <<ahead, taken, context, nesting, calls, outcome>>

\* ParserData::readNextToken reads on after white space and comments.
ReadWhiteSpace ==
    /\ outcome = "parsing" /\ token = "none"
    /\ ahead = "space"
    /\ Consume
    /\ UNCHANGED <<context, nesting, token, calls, outcome>>

ReadNewLine ==
    /\ outcome = "parsing" /\ token = "none"
    /\ ahead = "newline"
    /\ Consume
    /\ token' = "NewLine"
    /\ UNCHANGED <<context, nesting, calls, outcome>>

\* The assignment operator switches to the context of values.
ReadStructureMark ==
    /\ Reading("Structure")
    /\ Consume
    /\ \/ ahead = "=" /\ ExpectMore("Assignment")
       \/ ahead = "." /\ ExpectMore("NameSeperator")
    /\ context' = IF token' = "Assignment" THEN "Value" ELSE context
    /\ UNCHANGED <<nesting, calls>>

ReadStructureString ==
    /\ Reading("Structure")
    /\ Consume
    /\ \/ ahead = "string" /\ token' = "SingleLineString"
       \/ ahead = "text" /\ token' = "MultiLineString"
    /\ UNCHANGED <<context, nesting, calls, outcome>>

ReadStructureName ==
    /\ Reading("Structure")
    /\ ahead \in Word
    /\ Consume
    /\ ExpectEnd("BareKey", isPossibleBareKeyEnd)
    /\ UNCHANGED <<context, nesting, calls>>

ReadStructureBracket ==
    /\ Reading("Structure")
    /\ Consume
    /\ \/ ahead = "[" /\ ExpectMore("HalfTableNameBegin")
       \/ ahead = "]" /\ ExpectMore("HalfTableNameEnd")
    /\ UNCHANGED <<context, nesting, calls>>

\* A second bracket directly after the first.
ReadSecondBracket ==
    /\ outcome = "parsing"
    /\ \/ token = "HalfTableNameBegin" /\ ahead = "[" /\ Consume /\ ExpectMore("ArrayNameBegin")
       \/ token = "HalfTableNameEnd" /\ ahead = "]" /\ Consume /\ ExpectMore("ArrayNameEnd")
       \/ /\ token = "HalfTableNameBegin" /\ ahead # "[" /\ token' = "TableNameBegin"
          /\ UNCHANGED <<ahead, taken, outcome>>
       \/ /\ token = "HalfTableNameEnd" /\ ahead # "]" /\ token' = "TableNameEnd"
          /\ UNCHANGED <<ahead, taken, outcome>>
    /\ UNCHANGED <<context, nesting, calls>>

ReadStructureOther ==
    /\ Reading("Structure")
    /\ ahead \in {",", "{", "}"}
    /\ Fail("syntax")
    /\ UNCHANGED <<ahead, taken, context, nesting, token, calls>>

ReadValueMark ==
    /\ Reading("Value")
    /\ Consume
    /\ \/ ahead = "=" /\ ExpectMore("Assignment")
       \/ ahead = "." /\ ExpectMore("NameSeperator")
       \/ ahead = "," /\ ExpectMore("TableSeperator")
    /\ UNCHANGED <<context, nesting, calls>>

\* Mutant: the context is left inside an array or table.
LeaveContext_AtAnyDepth ==
    context' = IF token' \in ValueToken \cup {"ArrayEnd", "TableEnd"}
               THEN "Structure" ELSE context

\* Outside of any array and table, a value is the last token of its context.
LeaveContext == context' = IF nesting' = 0 /\ token' \in ValueToken \cup {"ArrayEnd", "TableEnd"}
                           THEN "Structure" ELSE context

ReadValueString ==
    /\ Reading("Value")
    /\ Consume
    /\ \/ ahead = "string" /\ token' = "SingleLineString"
       \/ ahead = "text" /\ token' = "MultiLineString"
    /\ UNCHANGED <<nesting, calls, outcome>>
    /\ LeaveContext

\* Mutant: the limit is off by one.
ReadValueBegin_OffByOne ==
    /\ Reading("Value")
    /\ Consume
    /\ \/ ahead = "[" /\ token' = "ArrayBegin"
       \/ ahead = "{" /\ token' = "TableBegin"
    /\ nesting' = nesting + 1
    /\ outcome' = IF ahead' = "end" THEN "syntax"
                  ELSE IF nesting' >= NestingLimit THEN "limit" ELSE outcome
    /\ UNCHANGED <<context, calls>>

ReadValueBegin ==
    /\ Reading("Value")
    /\ Consume
    /\ \/ ahead = "[" /\ token' = "ArrayBegin"
       \/ ahead = "{" /\ token' = "TableBegin"
    /\ nesting' = nesting + 1
    /\ outcome' = IF ahead' = "end" THEN "syntax"
                  ELSE IF nesting' > NestingLimit THEN "limit" ELSE outcome
    /\ UNCHANGED <<context, calls>>

ReadValueEnd ==
    /\ Reading("Value")
    /\ Consume
    /\ \/ ahead = "]" /\ token' = "ArrayEnd"
       \/ ahead = "}" /\ token' = "TableEnd"
    /\ nesting' = nesting - 1
    /\ LeaveContext
    /\ UNCHANGED <<calls, outcome>>

ReadValueWord ==
    /\ Reading("Value")
    /\ Consume
    /\ \/ ahead = "word" /\ ExpectEnd("BareKey", isPossibleBareKeyEnd)
       \/ ahead = "literal" /\ ExpectEnd("Value", isPossibleValueEnd)
    /\ UNCHANGED <<nesting, calls>>
    /\ LeaveContext

\* readNumberLike: a dot makes the integer a float.
ReadInteger ==
    /\ Reading("Value")
    /\ ahead = "integer"
    /\ Consume
    /\ \/ ahead' = "." /\ token' = "HalfFloat" /\ Proceed
       \/ ahead' # "." /\ ExpectEnd("DecimalInteger", isPossibleValueEnd)
    /\ UNCHANGED <<nesting, calls>>
    /\ LeaveContext

\* readFloatFraction.
ReadFraction ==
    /\ outcome = "parsing"
    /\ \/ token = "HalfFloat" /\ Consume /\ ExpectMore("HalfFraction")
       \/ /\ token = "HalfFraction" /\ ahead = "integer"
          /\ Consume /\ ExpectEnd("Value", isPossibleValueEnd)
       \/ /\ token = "HalfFraction" /\ ahead # "integer"
          /\ Fail("syntax") /\ UNCHANGED <<ahead, taken, token>>
    /\ UNCHANGED <<nesting, calls>>
    /\ LeaveContext

----------------------------------------------------------------------------
\* ParserData: each action handles one token, and reads the next.

top == calls[Len(calls)]
At(places) == outcome = "parsing" /\ token \in Token /\ top \in places

ReturnTo(place) == [calls EXCEPT ![Len(calls)] = place]
Continue(place) ==
    /\ calls' = ReturnTo(place)
    /\ token' = "none"
    /\ UNCHANGED <<ahead, taken, context, nesting, outcome>>

\* Mutant: the next token is not read.
SkipNewLine_Stuck ==
    /\ At({"statement"})
    /\ token = "NewLine"
    /\ UNCHANGED <<ahead, taken, context, nesting, token, calls, outcome>>

\* parseDocument.
SkipNewLine == At({"statement"}) /\ token = "NewLine" /\ Continue("statement")

BeginAssignment == At({"statement"}) /\ isKey /\ Continue("keyEnd")

BeginHeader ==
    /\ At({"statement"})
    /\ \/ token = "TableNameBegin" /\ Continue("tableName")
       \/ token = "ArrayNameBegin" /\ Continue("arrayName")

EndOfDocument ==
    /\ At({"statement"})
    /\ token = "EndOfDocument"
    /\ outcome' = "ok"
    /\ UNCHANGED <<ahead, taken, context, nesting, token, calls>>

\* Mutant: no new line is needed after a statement.
EndStatement_AnyToken ==
    /\ At({"statementEnd"})
    /\ calls' = ReturnTo("statement")
    /\ UNCHANGED <<ahead, taken, context, nesting, token, outcome>>

\* The new line after a statement is left to parseDocument.
EndStatement ==
    /\ At({"statementEnd"})
    /\ token \in {"NewLine", "EndOfDocument"}
    /\ calls' = ReturnTo("statement")
    /\ UNCHANGED <<ahead, taken, context, nesting, token, outcome>>

\* The keys of parseTableName, parseArrayOfTablesName, parseKeyValueAssignment
\* and parseInlineTableValue.
NameEnd == [tableName     |-> "tableNameEnd", arrayName |-> "arrayNameEnd",
            keyPart       |-> "keyEnd",       inlineKeyPart |-> "inlineKeyEnd",
            inlineKey     |-> "inlineKeyEnd", inlineNextKey |-> "inlineKeyEnd"]
NextPart == [tableNameEnd |-> "tableName", arrayNameEnd |-> "arrayName",
             keyEnd       |-> "keyPart",   inlineKeyEnd |-> "inlineKeyPart"]
AfterName == [tableNameEnd |-> <<"TableNameEnd", "statementEnd">>,
              arrayNameEnd |-> <<"ArrayNameEnd", "statementEnd">>,
              keyEnd       |-> <<"Assignment", "value">>,
              inlineKeyEnd |-> <<"Assignment", "inlineValue">>]

ReadKey == At(DOMAIN NameEnd) /\ isKey /\ Continue(NameEnd[top])

ReadSeparator == At(DOMAIN NextPart) /\ token = "NameSeperator" /\ Continue(NextPart[top])

EndName ==
    /\ At(DOMAIN AfterName)
    /\ token = AfterName[top][1]
    /\ Continue(AfterName[top][2])

\* parseValue, and where its caller goes on.
AfterValue == [value |-> "statementEnd", arrayItem |-> "arrayItemEnd",
               inlineValue |-> "inlineEntryEnd"]

ReadScalar == At(DOMAIN AfterValue) /\ token \in ValueToken /\ Continue(AfterValue[top])

OpenValue ==
    /\ At(DOMAIN AfterValue)
    /\ \/ token = "ArrayBegin" /\ calls' = Append(ReturnTo(AfterValue[top]), "arrayItem")
       \/ token = "TableBegin" /\ calls' = Append(ReturnTo(AfterValue[top]), "inlineKey")
    /\ token' = "none"
    /\ UNCHANGED <<ahead, taken, context, nesting, outcome>>

\* parseArrayValue and parseInlineTableValue return.  A table of TOML 1.0 has
\* no comma before its end.
CloseValue ==
    /\ \/ At(ArrayPlace) /\ token = "ArrayEnd"
       \/ At({"inlineKey", "inlineEntryEnd"}) /\ token = "TableEnd"
    /\ calls' = SubSeq(calls, 1, Len(calls) - 1)
    /\ token' = "none"
    /\ UNCHANGED <<ahead, taken, context, nesting, outcome>>

\* New lines are skipped in arrays and, in TOML 1.1, around the entries of
\* inline tables.
NewLinePlace == ArrayPlace \cup
    (IF specification = "1.1" THEN {"inlineKey", "inlineEntryEnd"} ELSE {})

SkipNewLineInValue == At(NewLinePlace) /\ token = "NewLine" /\ Continue(top)

NextItem ==
    /\ token = "TableSeperator"
    /\ \/ At({"arrayItemEnd"}) /\ Continue("arrayItem")
       \/ At({"inlineEntryEnd"})
          /\ Continue(IF specification = "1.1" THEN "inlineKey" ELSE "inlineNextKey")

\* Every other token is an error, the end of the document included where
\* readAndRequireNextToken has read the token.
Expected(place) ==
    CASE place = "statement" -> isKey \/ token \in {"NewLine", "TableNameBegin",
                                                    "ArrayNameBegin", "EndOfDocument"}
      [] place = "statementEnd" -> token \in {"NewLine", "EndOfDocument"}
      [] place \in {"tableName", "arrayName", "keyPart", "inlineKeyPart", "inlineNextKey"} -> isKey
      [] place \in DOMAIN NextPart -> token \in {"NameSeperator", AfterName[place][1]}
      [] place \in {"value", "inlineValue"} -> token \in ValueToken \cup {"ArrayBegin", "TableBegin"}
      [] place = "arrayItem" -> token \in ValueToken \cup {"ArrayBegin", "TableBegin", "ArrayEnd"}
      [] place = "arrayItemEnd" -> token \in {"TableSeperator", "ArrayEnd"}
      [] place = "inlineKey" -> isKey \/ token = "TableEnd"
      [] place = "inlineEntryEnd" -> token \in {"TableSeperator", "TableEnd"}

Unexpected ==
    /\ At(Place)
    /\ ~Expected(top)
    /\ ~(token = "NewLine" /\ top \in NewLinePlace)
    /\ Fail("syntax")
    /\ UNCHANGED <<ahead, taken, context, nesting, token, calls>>

----------------------------------------------------------------------------
Tokenize ==
    \/ ReadEndOfDocument \/ ReadWhiteSpace \/ ReadNewLine
    \/ ReadStructureMark \/ ReadStructureString \/ ReadStructureName
    \/ ReadStructureBracket \/ ReadSecondBracket \/ ReadStructureOther
    \/ ReadValueMark \/ ReadValueString \/ ReadValueBegin \/ ReadValueEnd
    \/ ReadValueWord \/ ReadInteger \/ ReadFraction

Parse ==
    \/ SkipNewLine \/ BeginAssignment \/ BeginHeader \/ EndOfDocument \/ EndStatement
    \/ ReadKey \/ ReadSeparator \/ EndName
    \/ ReadScalar \/ OpenValue \/ CloseValue \/ SkipNewLineInValue \/ NextItem
    \/ Unexpected

Next == (Start \/ Tokenize \/ Parse) /\ UNCHANGED specification

Spec == Init /\ [][Next]_vars

=============================================================================
