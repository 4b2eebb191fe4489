----------------------------- MODULE ParserData -----------------------------
(***************************************************************************)
(* Class ParserData as a whole, from the characters of a document to its   *)
(* values: the composition of modules Tokenizer, Syntax, Document and      *)
(* Conversion, which model its parts, and of what only the whole has: the  *)
(* texts of keys, the contents of values and all the locations.            *)
(*                                                                         *)
(* The tokenizer advances while the parser waits for a token (`current' is *)
(* "none"); then the parser takes the token with one action of Syntax, and *)
(* with the action of Document that does the same to the tree; then the    *)
(* steps of Document that need no token run to their end.                  *)
(***************************************************************************)
EXTENDS Tokenizer, Conversion

CONSTANTS
    KeyText,    \* the texts of keys that occur in the documents
    MaxNodes    \* bound: number of values in a document

ASSUME BoundAssumption == MaxNodes \in Nat

VARIABLES
    current,    \* type of _token as Syntax knows it, or "none" while waiting
    calls,      \* as in Syntax
    ending,     \* the outcome as Syntax knows it
    root, heap, used, currentTable, frames, result, walk, outcome,  \* as in Document
    returned, sections, birth,
    keys,       \* the keys of the name being read: their texts and ranges
    named,      \* where the name of the last header is, and its last key
    locals,     \* where the values begin that activations wait for, and their last keys
    contents,   \* the contents of scalars: type and converted value
    ranges,     \* Value::_locationRange
    errorAt     \* the location of the error

Syn == INSTANCE SyntaxProperties WITH
    NestingLimit  <- cValueNestingLimit,
    Offered       <- {},
    MaxLexemes    <- 0,
    specification <- tokenizer.specification,
    ahead         <- "end",     \* the lexemes are Tokenizer's business
    taken         <- 0,
    context       <- tokenizer.context,
    nesting       <- tokenizer.nesting,
    token         <- current,
    outcome       <- ending

Doc == INSTANCE Document WITH
    Key           <- KeyText,
    Path          <- Seq(KeyText) \ {<<>>},     \* names come with the tokens
    MaxValueDepth <- cValueNestingLimit,
    document      <- root,
    value         <- result

syntax == <<current, calls, ending>>
tree == <<root, heap, used, currentTable, frames, result, walk, outcome, returned,
          sections, birth>>
rest == <<keys, named, locals, contents, ranges, errorAt>>
parserVars == <<allVars, syntax, tree, rest>>

NotSet == [begin |-> [index |-> -1, line |-> -1, column |-> -1],
           end |-> [index |-> -1, line |-> -1, column |-> -1]]

ParserInit ==
    /\ TokenizerInit
    /\ Doc!Init
    /\ current = "none" /\ calls = <<"statement">> /\ ending = "parsing"
    /\ keys = <<>> /\ named = [begin |-> FirstLocation, end |-> FirstLocation, key |-> FirstLocation]
    /\ locals = <<>>
    /\ contents = [n \in Doc!Node |-> <<>>]
    /\ ranges = [n \in Doc!Node |-> NotSet]
    /\ errorAt = FirstLocation

----------------------------------------------------------------------------
\* _token: the token delivered last.
_token == Last(tokens)
range == [begin |-> _token.begin, end |-> _token.end]

\* What Syntax calls a type of token.  Token::isKey takes an integer for a key,
\* but not behind a plus sign.
SyntaxType(type, text) ==
    CASE type \in {"Whitespace", "Comment"} -> "none"
      [] type = "DecimalInteger" -> IF text[1] = Plus THEN "Value" ELSE "DecimalInteger"
      [] type \in ValueTypes \ {"SingleLineString", "MultiLineString", "DecimalInteger"} -> "Value"
      [] OTHER -> type

Parsing == outcome = "parsing" /\ ending = "parsing"

\* The steps of the tree that follow a token.
Building == Parsing /\ (result # Doc!Null \/ walk.goal # "none")

Waiting == Parsing /\ ~Building /\ current = "none"
Taking == Parsing /\ ~Building /\ current # "none"

----------------------------------------------------------------------------
\* parseDocument creates the root.
Begin ==
    /\ outcome = "idle"
    /\ Doc!BeginParse
    /\ UNCHANGED <<allVars, syntax, rest>>

\* readNextToken: white space and comments are no tokens to the parser.
ReadNextToken ==
    /\ Waiting
    /\ place \notin {"encoding", "syntax"}
    /\ TokenizerNext
    /\ current' = IF (run.at = "created" /\ run'.at = "read") \/ place' = "end"
                    THEN SyntaxType(Last(types'), Last(tokens').text)
                    ELSE "none"
    /\ UNCHANGED <<calls, ending, tree, rest>>

\* An error of the reader or the tokenizer, at the location read.
TokenizerThrows ==
    /\ Waiting
    /\ place \in {"encoding", "syntax"}
    /\ Doc!Abort
    /\ errorAt' = location
    /\ UNCHANGED <<allVars, syntax, keys, named, locals, contents, ranges>>

----------------------------------------------------------------------------
\* Tokens that leave the tree alone.
SkipToken ==
    /\ Taking
    /\ UNCHANGED <<allVars, tree, rest>>
    /\ \/ Syn!SkipNewLine \/ Syn!BeginHeader \/ Syn!EndStatement \/ Syn!ReadSeparator
       \/ Syn!SkipNewLineInValue \/ Syn!NextItem

\* A key, the first of a name or a further one.
TakeKey ==
    /\ Taking
    /\ UNCHANGED <<allVars, tree, named, locals, contents, ranges, errorAt>>
    /\ Syn!BeginAssignment \/ Syn!ReadKey
    /\ keys' = Append(keys, _token)

KeyTexts == [i \in DOMAIN keys |-> keys[i].text]

Local(begin, key) == [begin |-> begin, key |-> key]

\* Mutant: the keys of an inline table are collected in one list.
TakeName_KeepsKeys ==
    /\ Taking
    /\ UNCHANGED <<allVars, contents, ranges, errorAt>>
    /\ \/ calls[Len(calls)] = "tableNameEnd" /\ Doc!BeginTable(KeyTexts)
       \/ calls[Len(calls)] = "arrayNameEnd" /\ Doc!BeginArrayOfTables(KeyTexts)
       \/ calls[Len(calls)] = "keyEnd" /\ Doc!BeginAssignment(KeyTexts)
       \/ calls[Len(calls)] = "inlineKeyEnd" /\ Doc!BeginInlineEntry(KeyTexts)
    /\ Syn!EndName
    /\ keys' = IF calls[Len(calls)] = "inlineKeyEnd" THEN keys ELSE <<>>
    /\ IF current = "Assignment"
         THEN locals' = Append(locals, Local(keys[1].begin, Last(keys).begin)) /\ UNCHANGED named
         ELSE named' = [begin |-> keys[1].begin, end |-> Last(keys).end, key |-> Last(keys).begin]
              /\ UNCHANGED locals

\* The end of a name.  A header is walked at once, a name before a value waits.
TakeName ==
    /\ Taking
    /\ UNCHANGED <<allVars, contents, ranges, errorAt>>
    /\ \/ calls[Len(calls)] = "tableNameEnd" /\ Doc!BeginTable(KeyTexts)
       \/ calls[Len(calls)] = "arrayNameEnd" /\ Doc!BeginArrayOfTables(KeyTexts)
       \/ calls[Len(calls)] = "keyEnd" /\ Doc!BeginAssignment(KeyTexts)
       \/ calls[Len(calls)] = "inlineKeyEnd" /\ Doc!BeginInlineEntry(KeyTexts)
    /\ Syn!EndName
    /\ keys' = <<>>
    /\ IF current = "Assignment"
         THEN locals' = Append(locals, Local(keys[1].begin, Last(keys).begin)) /\ UNCHANGED named
         ELSE named' = [begin |-> keys[1].begin, end |-> Last(keys).end, key |-> Last(keys).begin]
              /\ UNCHANGED locals

\* The element of an array begins with its first token.
Opened == IF calls[Len(calls)] = "arrayItem"
            THEN Append(locals, Local(_token.begin, _token.begin)) ELSE locals

\* The caller of parseValue gives the value its range; it ends where its last
\* token begins ("not prefect", ParserData.cpp:411).
Located(n, opened) ==
    [ranges EXCEPT ![n] = [begin |-> Last(opened).begin, end |-> _token.begin]]

type == Last(types)
converted == parseValue(type, _token.text)

\* Value::Type of what parseValue creates for a token.
ValueType ==
    CASE type \in {"SingleLineString", "MultiLineString"} -> "String"
      [] type \in {"DecimalInteger", "HexInteger", "OctalInteger", "BinaryInteger"} -> "Integer"
      [] type \in {"OffsetDateTime", "LocalDateTime"} -> "DateTime"
      [] type = "LocalDate" -> "Date"
      [] type = "LocalTime" -> "Time"
      [] OTHER -> type

TakeScalar ==
    /\ Taking
    /\ ~converted.failed
    /\ UNCHANGED <<allVars, keys, named, errorAt>>
    /\ Doc!ParseScalar
    /\ contents' = [contents EXCEPT ![Doc!new] = <<ValueType, converted.value>>]
    /\ ranges' = Located(Doc!new, Opened)
    /\ locals' = Opened
    /\ Syn!ReadScalar

\* A token that is no value of its type, as a date with 13 months.
ConversionFails ==
    /\ Taking
    /\ current \in Syn!ValueToken
    /\ converted.failed
    /\ Doc!Abort
    /\ errorAt' = _token.begin
    /\ Syn!At(DOMAIN Syn!AfterValue)
    /\ UNCHANGED <<allVars, syntax, keys, named, locals, contents, ranges>>

TakeOpen ==
    /\ Taking
    /\ UNCHANGED <<allVars, keys, named, contents, ranges, errorAt>>
    /\ \/ current = "ArrayBegin" /\ Doc!OpenArray
       \/ current = "TableBegin" /\ Doc!OpenInlineTable
    /\ locals' = Opened
    /\ Syn!OpenValue

\* The range that parseArrayValue and parseInlineTableValue set themselves is
\* replaced by their caller.
TakeClose ==
    /\ Taking
    /\ UNCHANGED <<allVars, keys, named, locals, contents, errorAt>>
    /\ Doc!CloseValue
    /\ ranges' = Located(result', locals)
    /\ Syn!CloseValue

EndDocument ==
    /\ Taking
    /\ UNCHANGED <<allVars, keys, named, locals, contents, errorAt>>
    /\ Doc!EndOfDocument
    /\ Syn!EndOfDocument
    /\ ranges' = [ranges EXCEPT ![root] = [begin |-> FirstLocation, end |-> _token.begin]]

UnexpectedToken ==
    /\ Taking
    /\ UNCHANGED <<allVars, keys, named, locals, contents, ranges>>
    /\ Doc!Abort
    /\ Syn!Unexpected
    /\ errorAt' = _token.begin

----------------------------------------------------------------------------
\* The steps of the tree between two tokens, and where they put what they
\* create.  The range of a table on the way is the one of the last token read.

PlaceNothing ==
    \/ Doc!BeginInlineWalk \/ Doc!BeginAssignWalk
    \/ Doc!DescendToTable
    \/ Doc!DescendIntoArray

\* The activation goes on without the value.
StoreValue == Doc!AddArrayItem \/ Doc!AssignValue \/ Doc!AssignInlineEntry

PlaceImplied ==
    /\ Doc!DescendToNewTable
    /\ ranges' = [ranges EXCEPT ![Doc!new] = range]

Named == [begin |-> named.begin, end |-> named.end]

\* Mutant: the location of a table implied before is kept.
PlaceNamed_NewOnly ==
    \/ /\ Doc!CreateNewTable \/ Doc!CreateNewArrayOfTables \/ Doc!ExtendArrayOfTables
       /\ ranges' = [n \in Doc!Node |-> IF n \in Doc!new..used' THEN Named ELSE ranges[n]]
    \/ Doc!CreateImpliedTable /\ UNCHANGED ranges

PlaceNamed ==
    \/ /\ Doc!CreateNewTable \/ Doc!CreateNewArrayOfTables \/ Doc!ExtendArrayOfTables
       /\ ranges' = [n \in Doc!Node |-> IF n \in Doc!new..used' THEN Named ELSE ranges[n]]
    \/ Doc!CreateImpliedTable /\ ranges' = [ranges EXCEPT ![Doc!child] = Named]

Build ==
    /\ Building
    /\ UNCHANGED <<allVars, syntax, keys, named, contents, errorAt>>
    /\ \/ PlaceNothing /\ UNCHANGED <<locals, ranges>>
       \/ PlaceImplied /\ UNCHANGED locals
       \/ PlaceNamed /\ UNCHANGED locals
       \/ StoreValue /\ locals' = Front(locals) /\ UNCHANGED ranges

\* A conflict over the last key of a header or an assignment is reported at that
\* key, any other at the last token.
BuildFails ==
    /\ Building
    /\ UNCHANGED <<allVars, syntax, keys, named, locals, contents, ranges>>
    /\ \/ (Doc!CreateTableConflict \/ Doc!CreateArrayOfTablesConflict)
          /\ errorAt' = named.key
       \/ Doc!AssignConflict
          /\ errorAt' = IF walk.goal = "assign" THEN Last(locals).key ELSE _token.begin
       \/ Doc!DescendConflict /\ errorAt' = _token.begin

ParserNext ==
    \/ Begin \/ ReadNextToken \/ TokenizerThrows
    \/ SkipToken \/ TakeKey \/ TakeName \/ TakeScalar \/ ConversionFails
    \/ TakeOpen \/ TakeClose \/ EndDocument \/ UnexpectedToken
    \/ Build \/ BuildFails

ParserSpec == ParserInit /\ [][ParserNext]_parserVars /\ WF_parserVars(ParserNext)

=============================================================================
