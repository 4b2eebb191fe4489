--------------------------- MODULE ParserDataProofs ---------------------------
(***************************************************************************)
(* Proofs about the whole parser, for all documents, limits and bounds:    *)
(* the tokenizer, the recursive descent and the tree work together as each *)
(* of their modules assumes.  What is proved of a part in isolation, in    *)
(* TokenizerProofs, SyntaxProofs and DocumentProofs, therefore holds       *)
(* for documents that are parsed from their characters.                    *)
(***************************************************************************)
EXTENDS ParserDataInvariant, TokenizerProofs

\* The parts, with what was proved about them: Syn with its proofs,
SynP == INSTANCE SyntaxProofs WITH
    NestingLimit  <- cValueNestingLimit,
    Offered       <- {},
    MaxLexemes    <- 0,
    specification <- tokenizer.specification,
    ahead         <- "end",
    taken         <- 0,
    context       <- tokenizer.context,
    nesting       <- tokenizer.nesting,
    token         <- current,
    outcome       <- ending

\* and Doc with its proofs.
Tree == INSTANCE DocumentProofs WITH
    Key           <- KeyText,
    Path          <- Seq(KeyText) \ {<<>>},
    MaxValueDepth <- cValueNestingLimit,
    document      <- root,
    value         <- result

-------------------------------------------------------------------------------
(* The parts are the same with and without their proofs                    *)

\* What the recursive descent assumes of its constants.
LEMMA SyntaxAssumptions ==
    cValueNestingLimit \in Nat /\ 0 \in Nat /\ {} \subseteq SynP!Lexeme \ {"end"}
  BY LimitsAssumption

\* The invariant of the recursive descent,
LEMMA SameInvariant == Syn!IndInv <=> SynP!IndInv
  BY
  DEF Syn!Word, SynP!Word, Syn!Lexeme, SynP!Lexeme, Syn!Half, SynP!Half, Syn!Token, SynP!Token,
      Syn!ValueToken, SynP!ValueToken, Syn!DocumentPlace, SynP!DocumentPlace, Syn!ArrayPlace,
      SynP!ArrayPlace, Syn!TablePlace, SynP!TablePlace, Syn!Place, SynP!Place, Syn!TypeOK,
      SynP!TypeOK, Syn!top, SynP!top, Syn!AwaitsValue, SynP!AwaitsValue, Syn!LimitIsNesting,
      SynP!LimitIsNesting, Syn!Open, SynP!Open, Syn!Close, SynP!Close, Syn!CallsNested,
      SynP!CallsNested, Syn!NestingAhead, SynP!NestingAhead, Syn!ContextAhead, SynP!ContextAhead,
      Syn!IndInv, SynP!IndInv

\* and its steps.
LEMMA SameParse == ASSUME Syn!Parse PROVE SynP!Parse
  BY
  DEF Syn!Token, SynP!Token, Syn!isKey, SynP!isKey, Syn!ValueToken, SynP!ValueToken,
      Syn!DocumentPlace, SynP!DocumentPlace, Syn!ArrayPlace, SynP!ArrayPlace, Syn!TablePlace,
      SynP!TablePlace, Syn!Place, SynP!Place, Syn!Fail, SynP!Fail, Syn!Proceed, SynP!Proceed,
      Syn!top, SynP!top, Syn!At, SynP!At, Syn!ReturnTo, SynP!ReturnTo, Syn!Continue, SynP!Continue,
      Syn!SkipNewLine, SynP!SkipNewLine, Syn!BeginAssignment, SynP!BeginAssignment, Syn!BeginHeader,
      SynP!BeginHeader, Syn!EndOfDocument, SynP!EndOfDocument, Syn!EndStatement, SynP!EndStatement,
      Syn!NameEnd, SynP!NameEnd, Syn!NextPart, SynP!NextPart, Syn!AfterName, SynP!AfterName,
      Syn!ReadKey, SynP!ReadKey, Syn!ReadSeparator, SynP!ReadSeparator, Syn!EndName, SynP!EndName,
      Syn!AfterValue, SynP!AfterValue, Syn!ReadScalar, SynP!ReadScalar, Syn!OpenValue,
      SynP!OpenValue, Syn!CloseValue, SynP!CloseValue, Syn!NewLinePlace, SynP!NewLinePlace,
      Syn!SkipNewLineInValue, SynP!SkipNewLineInValue, Syn!NextItem, SynP!NextItem, Syn!Expected,
      SynP!Expected, Syn!Unexpected, SynP!Unexpected, Syn!Parse, SynP!Parse

-------------------------------------------------------------------------------
(* The tokenizer and the recursive descent                                 *)

\* The steps that take a token are steps of the recursive descent.
LEMMA TakingParses ==
    ASSUME \/ SkipToken \/ TakeKey \/ TakeName \/ TakeScalar \/ TakeOpen \/ TakeClose
           \/ EndDocument \/ UnexpectedToken
    PROVE  Syn!Parse /\ UNCHANGED allVars
  BY DEF SkipToken, TakeKey, TakeName, TakeScalar, TakeOpen, TakeClose, EndDocument, UnexpectedToken,
         Syn!Parse

\* The steps of the tree leave it and the tokenizer alone.
LEMMA OthersWait ==
    ASSUME Begin \/ TokenizerThrows \/ ConversionFails \/ Build \/ BuildFails
    PROVE  UNCHANGED <<allVars, syntax, keys>>
  BY DEF Begin, TokenizerThrows, ConversionFails, Build, BuildFails, rest

\* So the recursive descent keeps its invariant when it takes a token,
LEMMA ParseKeepsSync ==
    ASSUME SynP!IndInv, Syn!Parse, UNCHANGED tokenizer
    PROVE  SynP!IndInv'
<1>1. SynP!Next
  BY SameParse DEF SynP!Next
<1> QED
  BY <1>1, SyntaxAssumptions, SynP!NextInvariant

\* and while the tokenizer and it do nothing that concerns the other.
LEMMA NothingKeepsSync ==
    ASSUME SynP!IndInv, UNCHANGED <<current, calls, ending>>,
           UNCHANGED <<tokenizer.specification, tokenizer.context, tokenizer.nesting>>
    PROVE  SynP!IndInv'
<1>1. UNCHANGED SynP!vars
  BY DEF SynP!vars
<1> QED
  BY <1>1, SyntaxAssumptions, SynP!NextInvariant

-------------------------------------------------------------------------------
(* A token is read                                                         *)

\* What the recursive descent sees of a type of token.
LEMMA TypeSeen ==
    ASSUME NEW text, NEW kind \in TokenTypes
    PROVE  LET seenType == SyntaxType(kind, text)
           IN  /\ seenType \in SynP!Token \cup {"none"}
               /\ kind \in {"ArrayBegin", "TableBegin"} <=> seenType \in SynP!Open
               /\ kind \in {"ArrayEnd", "TableEnd"} <=> seenType \in SynP!Close
               /\ kind = "Assignment" <=> seenType = "Assignment"
               /\ kind \in ValueTypes <=> seenType \in SynP!ValueToken
<1> DEFINE seenType == SyntaxType(kind, text)
<1>1. CASE kind \in {"Whitespace", "Comment"}
  <2>1. seenType = "none"
    BY <1>1 DEF SyntaxType, ValueTypes
  <2> QED
    BY <1>1, <2>1 DEF SynP!Token, SynP!Open, SynP!Close, SynP!ValueToken, ValueTypes
<1>2. CASE kind = "DecimalInteger"
  <2>1. seenType \in {"Value", "DecimalInteger"}
    BY <1>2 DEF SyntaxType, ValueTypes
  <2> QED
    BY <1>2, <2>1 DEF SynP!Token, SynP!Open, SynP!Close, SynP!ValueToken, ValueTypes
<1>3. CASE kind \in ValueTypes \ {"SingleLineString", "MultiLineString", "DecimalInteger"}
  <2>1. seenType = "Value"
    BY <1>3 DEF SyntaxType, ValueTypes
  <2> QED
    BY <1>3, <2>1 DEF SynP!Token, SynP!Open, SynP!Close, SynP!ValueToken, ValueTypes
<1>4. CASE kind \in TokenTypes \ ((ValueTypes \cup {"Whitespace", "Comment"})
                                    \ {"SingleLineString", "MultiLineString"})
  <2>1. seenType = kind
    BY <1>4 DEF SyntaxType, ValueTypes
  <2>2. kind \in {"SingleLineString", "MultiLineString", "NewLine", "BareKey", "Assignment",
                  "NameSeperator", "TableNameBegin", "TableNameEnd", "ArrayNameBegin", "ArrayNameEnd",
                  "TableSeperator", "EndOfDocument", "ArrayBegin", "ArrayEnd", "TableBegin", "TableEnd"}
    BY <1>4 DEF TokenTypes, SimpleTypes, Brackets, ValueTypes
  <2> QED
    BY <2>1, <2>2 DEF SynP!Token, SynP!Open, SynP!Close, SynP!ValueToken, ValueTypes
<1> QED
  BY <1>1, <1>2, <1>3, <1>4 DEF ValueTypes

\* The parser waits for a token.
LEMMA WaitingFacts ==
    ASSUME SynP!IndInv, Waiting
    PROVE  /\ ending = "parsing" /\ current = "none"
           /\ calls \in Seq(SynP!Place) /\ Len(calls) \in Nat \ {0}
           /\ tokenizer.nesting = Len(calls) - 1
           /\ tokenizer.nesting \in 0..cValueNestingLimit
           /\ tokenizer.context = "Value" <=> SynP!AwaitsValue
           /\ tokenizer.context \in {"Structure", "Value"}
           /\ tokenizer.nesting = 0 => ~(Len(calls) > 1)
           /\ tokenizer.nesting # 0 => Len(calls) > 1
<1>1. ending = "parsing" /\ current = "none"
  BY DEF Waiting, Parsing
<1>2. tokenizer.context \in {"Structure", "Value"}
  BY DEF SynP!IndInv, SynP!TypeOK
<1>3. /\ calls \in Seq(SynP!Place) /\ Len(calls) \in Nat \ {0}
      /\ tokenizer.nesting = Len(calls) - 1
      /\ tokenizer.nesting \in 0..cValueNestingLimit
      /\ tokenizer.context = "Value" <=> SynP!AwaitsValue
  BY <1>1, SyntaxAssumptions, SynP!ReadingFacts
<1>4. PICK n \in Nat \ {0} : n = Len(calls)
  BY <1>3
<1>5. tokenizer.nesting = n - 1
  BY <1>3, <1>4
<1>6. (n = 1 \/ n > 1) /\ ~(n = 1 /\ n > 1)
  OBVIOUS
<1>7. n - 1 = 0 <=> n = 1
  OBVIOUS
<1> QED
  BY <1>1, <1>2, <1>3, <1>4, <1>5, <1>6, <1>7

\* A token that is no bracket of a value: the context of the tokenizer changes
\* with it as the recursive descent expects.
LEMMA OtherRead ==
    ASSUME SynP!IndInv, Waiting, UNCHANGED <<calls, ending, tokenizer.specification, tokenizer.nesting>>,
           current' \in (SynP!Token \cup {"none"}) \ (SynP!Open \cup SynP!Close),
           tokenizer'.context = IF current' = "Assignment" THEN "Value"
                                ELSE IF tokenizer.nesting = 0 /\ current' \in SynP!ValueToken
                                  THEN "Structure" ELSE tokenizer.context
    PROVE  SynP!IndInv'
<1>1. /\ ending = "parsing" /\ current = "none"
      /\ Len(calls) \in Nat \ {0} /\ tokenizer.nesting = Len(calls) - 1
      /\ tokenizer.context = "Value" <=> SynP!AwaitsValue
      /\ tokenizer.context \in {"Structure", "Value"}
  BY WaitingFacts
<1>2. "end" \in SynP!Lexeme
  BY DEF SynP!Lexeme
<1>3. SynP!AwaitsValue' <=> SynP!AwaitsValue
  BY DEF SynP!AwaitsValue, SynP!top
<1>4. SynP!ContextAhead'
  <2>1. CASE current' = "Assignment"
    BY <2>1 DEF SynP!ContextAhead, SynP!ValueToken, SynP!Close
  <2>2. CASE current' \in SynP!ValueToken
    <3>1. current' # "Assignment" /\ current' \notin SynP!Close
      BY <2>2 DEF SynP!ValueToken, SynP!Close
    <3>2. tokenizer'.context = IF tokenizer.nesting = 0 THEN "Structure" ELSE tokenizer.context
      BY <2>2, <3>1
    <3>3. /\ tokenizer.nesting = 0 => ~(Len(calls) > 1)
          /\ tokenizer.nesting # 0 => Len(calls) > 1
      BY WaitingFacts
    <3>4. Len(calls) > 1 => tokenizer.context = "Value"
      BY <1>1 DEF SynP!AwaitsValue
    <3>5. tokenizer'.context = "Value" <=> Len(calls) > 1
      BY <3>2, <3>3, <3>4
    <3> QED
      BY <2>2, <3>1, <3>5 DEF SynP!ContextAhead
  <2>3. CASE current' \notin {"Assignment"} \cup SynP!ValueToken
    <3>1. tokenizer'.context = "Value" <=> SynP!AwaitsValue'
      BY <1>1, <1>3, <2>3
    <3> QED
      BY <2>3, <3>1 DEF SynP!ContextAhead
  <2> QED
    BY <2>1, <2>2, <2>3
<1> QED
  BY <1>1, <1>2, <1>4, SyntaxAssumptions, SynP!QuietRead

\* A bracket that begins an array or an inline table: the tokenizer is one ahead.
LEMMA BeginRead ==
    ASSUME SynP!IndInv, Waiting, UNCHANGED <<calls, ending, tokenizer.specification, tokenizer.context>>,
           tokenizer.context = "Value", current' \in SynP!Open,
           tokenizer'.nesting = tokenizer.nesting + 1, ~(tokenizer'.nesting > cValueNestingLimit)
    PROVE  SynP!IndInv'
<1>1. /\ ending = "parsing"
      /\ Len(calls) \in Nat \ {0} /\ tokenizer.nesting = Len(calls) - 1
      /\ SynP!AwaitsValue
  BY WaitingFacts
<1>2. cValueNestingLimit \in Nat
  BY SyntaxAssumptions
<1>3. tokenizer'.nesting = Len(calls) /\ tokenizer'.nesting <= cValueNestingLimit
  BY <1>1, <1>2
<1>4. SynP!TypeOK'
  <2>1. tokenizer'.nesting \in -1..(cValueNestingLimit + 1)
    BY <1>1, <1>2, <1>3
  <2>2. current' \in SynP!Token
    BY DEF SynP!Open, SynP!Token
  <2> QED
    BY <2>1, <2>2 DEF SynP!IndInv, SynP!TypeOK
<1>5. SynP!CallsNested' /\ Len(calls') <= cValueNestingLimit + 1
  BY DEF SynP!IndInv, SynP!CallsNested
<1>6. SynP!NestingAhead' /\ SynP!ContextAhead' /\ SynP!LimitIsNesting'
  BY <1>1, <1>3
  DEF SynP!NestingAhead, SynP!ContextAhead, SynP!LimitIsNesting, SynP!AwaitsValue, SynP!top,
      SynP!Open, SynP!Close, SynP!ValueToken
<1> QED
  BY <1>4, <1>5, <1>6 DEF SynP!IndInv

\* A bracket that ends one: the tokenizer has left it before the recursive descent.
LEMMA EndRead ==
    ASSUME SynP!IndInv, Waiting, UNCHANGED <<calls, ending, tokenizer.specification>>,
           current' \in SynP!Close,
           tokenizer.context = "Value", tokenizer'.nesting = tokenizer.nesting - 1,
           tokenizer'.context = IF tokenizer'.nesting = 0 THEN "Structure" ELSE "Value"
    PROVE  SynP!IndInv'
<1>1. /\ ending = "parsing"
      /\ Len(calls) \in Nat \ {0} /\ tokenizer.nesting = Len(calls) - 1
      /\ tokenizer.nesting \in 0..cValueNestingLimit
  BY WaitingFacts
<1>2. cValueNestingLimit \in Nat
  BY SyntaxAssumptions
<1>3. tokenizer'.nesting = Len(calls) - 2 /\ tokenizer'.nesting \in -1..(cValueNestingLimit + 1)
  BY <1>1, <1>2
<1>4. SynP!TypeOK'
  <2>1. current' \in SynP!Token /\ tokenizer'.context \in {"Structure", "Value"}
    BY DEF SynP!Close, SynP!Token
  <2> QED
    BY <1>3, <2>1 DEF SynP!IndInv, SynP!TypeOK
<1>5. SynP!CallsNested' /\ Len(calls') <= cValueNestingLimit + 1
  BY DEF SynP!IndInv, SynP!CallsNested
<1>6. tokenizer'.context = "Value" <=> Len(calls') # 2
  BY <1>1, <1>3
<1>7. SynP!NestingAhead' /\ SynP!ContextAhead' /\ SynP!LimitIsNesting'
  BY <1>1, <1>3, <1>6
  DEF SynP!NestingAhead, SynP!ContextAhead, SynP!LimitIsNesting, SynP!Open, SynP!Close, SynP!ValueToken
<1> QED
  BY <1>4, <1>5, <1>7 DEF SynP!IndInv

\* Tokenizer::read hands out a token.
LEMMA ReturnedInSync ==
    ASSUME TokenInv, SynP!IndInv, Waiting, ReturnToken, UNCHANGED <<calls, ending>>,
           current' = IF run.at = "created" /\ run'.at = "read"
                        THEN SyntaxType(Last(types'), Last(tokens').text) ELSE "none"
    PROVE  SynP!IndInv'
<1> DEFINE kind == types[Len(types)]
           value == tokenizer.context = "Value"
           step == IF ~value THEN 0
                   ELSE IF kind \in {"ArrayBegin", "TableBegin"} THEN 1
                   ELSE IF kind \in {"ArrayEnd", "TableEnd"} THEN -1 ELSE 0
           nesting == tokenizer.nesting + step
           leaves == value /\ nesting = 0 /\ kind \in {"ArrayEnd", "TableEnd"} \cup ValueTypes
           enters == ~value /\ kind = "Assignment"
           context == IF enters THEN "Value" ELSE IF leaves THEN "Structure" ELSE tokenizer.context
<1>1. CASE throwSyntaxError
  <2>1. UNCHANGED <<tokenizer, run>> /\ run.at = "created"
    BY <1>1 DEF throwSyntaxError, ReturnToken
  <2>2. current' = "none" /\ current = "none"
    BY <2>1 DEF Waiting
  <2> QED
    BY <2>1, <2>2, NothingKeepsSync
<1>2. CASE /\ ~(nesting > cValueNestingLimit)
           /\ tokenizer' = [tokenizer EXCEPT !.nesting = nesting, !.context = context]
           /\ run' = To("read") /\ UNCHANGED <<vars, types>>
  <2>1. /\ tokenizer.nesting \in Nat
        /\ tokenizer.context \in {"Structure", "Value"}
    BY WaitingFacts
  <2>2. /\ kind \in TokenTypes
        /\ kind \in Brackets => value
    BY DEF TokenInv, ReturnToken
  <2> HIDE DEF kind
  <2>3. /\ tokenizer'.nesting = nesting /\ tokenizer'.context = context
        /\ tokenizer'.specification = tokenizer.specification
    <3> HIDE DEF nesting, context
    <3> QED
      BY <1>2 DEF TokenInv, Members
  <2>4. current' = SyntaxType(kind, Last(tokens').text)
    <3>1. run.at = "created" /\ run'.at = "read"
      BY <1>2 DEF ReturnToken, To, TokenInv, Points
    <3>2. Last(types') = kind
      BY <1>2 DEF Last, kind
    <3> QED
      BY <3>1, <3>2
  <2>5. /\ current' \in SynP!Token \cup {"none"}
        /\ kind \in {"ArrayBegin", "TableBegin"} <=> current' \in SynP!Open
        /\ kind \in {"ArrayEnd", "TableEnd"} <=> current' \in SynP!Close
        /\ kind = "Assignment" <=> current' = "Assignment"
        /\ kind \in ValueTypes <=> current' \in SynP!ValueToken
    BY <2>2, <2>4, TypeSeen
  <2>6. CASE kind \in {"ArrayBegin", "TableBegin"}
    <3>1. value
      BY <2>2, <2>6 DEF Brackets
    <3>2. nesting = tokenizer.nesting + 1 /\ context = tokenizer.context
      BY <2>6, <3>1 DEF ValueTypes
    <3> QED
      BY <1>2, <2>3, <2>5, <2>6, <3>1, <3>2, BeginRead
  <2>7. CASE kind \in {"ArrayEnd", "TableEnd"}
    <3>1. value
      BY <2>2, <2>7 DEF Brackets
    <3>2. nesting = tokenizer.nesting - 1
      BY <2>1, <2>7, <3>1
    <3>3. context = IF nesting = 0 THEN "Structure" ELSE "Value"
      BY <2>7, <3>1
    <3> QED
      BY <2>3, <2>5, <2>7, <3>1, <3>2, <3>3, EndRead
  <2>8. CASE kind \notin {"ArrayBegin", "TableBegin", "ArrayEnd", "TableEnd"}
    <3>1. nesting = tokenizer.nesting
      BY <2>1, <2>8
    <3>2. context = IF kind = "Assignment" THEN "Value"
                    ELSE IF tokenizer.nesting = 0 /\ kind \in ValueTypes THEN "Structure"
                    ELSE tokenizer.context
      BY <2>1, <2>8, <3>1 DEF ValueTypes
    <3> QED
      BY <2>3, <2>5, <2>8, <3>1, <3>2, OtherRead
  <2> QED
    BY <2>6, <2>7, <2>8
<1> QED
  BY <1>1, <1>2 DEF ReturnToken

\* Whatever the tokenizer does while the parser waits keeps both together, and
\* there is a token when the parser goes on.
LEMMA ReadKeepsSync ==
    ASSUME TokenInv, SynP!IndInv, ReadNextToken
    PROVE  SynP!IndInv' /\ (current' # "none" => tokens' # <<>>)
<1>1. /\ TokenizerNext /\ Waiting /\ UNCHANGED <<calls, ending>>
      /\ current' = IF (run.at = "created" /\ run'.at = "read") \/ place' = "end"
                      THEN SyntaxType(Last(types'), Last(tokens').text) ELSE "none"
  BY DEF ReadNextToken
<1>2. ending = "parsing" /\ current = "none"
  BY <1>1, WaitingFacts
<1>3. types \in Seq(TokenTypes) /\ Len(types) = Len(tokens) /\ tokens \in Seq(Token)
  BY DEF TokenInv, IndInv, TypeOK
<1>4. CASE ReadEnd
  <2>1. types' = Append(types, "EndOfDocument") /\ place' = "end" /\ UNCHANGED tokenizer
    BY <1>4 DEF ReadEnd, ReadEndOfDocument
  <2>2. Last(types') = "EndOfDocument"
    BY <1>3, <2>1 DEF Last
  <2>3. current' = "EndOfDocument"
    BY <1>1, <2>1, <2>2 DEF SyntaxType, ValueTypes
  <2>4. SynP!ReadEndOfDocument
    BY <1>1, <1>2, <2>1, <2>3 DEF SynP!ReadEndOfDocument
  <2>5. SynP!Next
    BY <2>1, <2>4 DEF SynP!Next, SynP!Tokenize
  <2>6. SynP!IndInv'
    BY <2>5, SyntaxAssumptions, SynP!NextInvariant
  <2>7. tokens' # <<>>
    BY <1>3, <1>4 DEF ReadEnd, ReadEndOfDocument, takeToken
  <2> QED
    BY <2>6, <2>7
<1>5. CASE ReturnToken
  <2>1. place' # "end" /\ UNCHANGED tokens
    BY <1>5 DEF ReturnToken, throwSyntaxError, vars
  <2>2. SynP!IndInv'
    BY <1>1, <1>5, <2>1, ReturnedInSync
  <2>3. types # <<>>
    BY <1>5 DEF ReturnToken, TokenInv
  <2>4. tokens' # <<>>
    BY <1>3, <2>1, <2>3
  <2> QED
    BY <2>2, <2>4
<1>6. CASE KeepsContext
  <2>1. current' = "none"
    BY <1>1, <1>6 DEF KeepsContext
  <2> QED
    BY <1>1, <1>2, <1>6, <2>1, NothingKeepsSync DEF KeepsContext
<1> QED
  BY <1>1, <1>4, <1>5, <1>6, NextGood DEF IsGood

-------------------------------------------------------------------------------
(* Names                                                                   *)

\* The activation that is running goes on at a place.
LEMMA PlaceReplaced ==
    ASSUME NamesHaveKeys, calls \in Seq(SynP!Place), calls # <<>>,
           NEW p, calls' = [calls EXCEPT ![Len(calls)] = p],
           keys' \in Seq(Token), p \in NameEnds => keys' # <<>>
    PROVE  NamesHaveKeys'
<1>1. /\ Len(calls) \in DOMAIN calls /\ Len(calls) \in Nat
      /\ DOMAIN calls = 1..Len(calls)
  OBVIOUS
<1>2. /\ DOMAIN calls' = DOMAIN calls /\ Len(calls') = Len(calls)
      /\ calls'[Len(calls)] = p
      /\ \A i \in DOMAIN calls : i # Len(calls) => calls'[i] = calls[i]
  BY <1>1
<1> QED
  BY <1>2 DEF NamesHaveKeys

\* The places that the recursive descent goes on at when it has no name to read.
LEMMA PlacesWithoutName ==
    /\ {"statement", "statementEnd", "tableName", "arrayName", "keyPart", "inlineKeyPart",
        "value", "inlineValue", "arrayItem", "arrayItemEnd", "inlineKey", "inlineNextKey",
        "inlineEntryEnd"} \cap NameEnds = {}
    /\ AfterValues \cap NameEnds = {}
  BY DEF NameEnds, AfterValues

\* The activations below the one that is running wait for a value.
LEMMA SkipTokenNames ==
    ASSUME NamesHaveKeys, SynP!IndInv, SkipToken
    PROVE  NamesHaveKeys'
<1>1. calls \in Seq(SynP!Place) /\ calls # <<>> /\ UNCHANGED keys
  BY DEF SynP!IndInv, SynP!TypeOK, SynP!CallsNested, SkipToken, rest
<1>2. \E p : p \notin NameEnds /\ calls' = [calls EXCEPT ![Len(calls)] = p]
  <2>1. CASE Syn!SkipNewLine \/ Syn!BeginHeader \/ Syn!EndStatement \/ Syn!NextItem
    <3>1. \E p \in {"statement", "tableName", "arrayName", "arrayItem", "inlineKey", "inlineNextKey"} :
            calls' = [calls EXCEPT ![Len(calls)] = p]
      BY <2>1 DEF Syn!SkipNewLine, Syn!BeginHeader, Syn!EndStatement, Syn!NextItem, Syn!Continue, Syn!ReturnTo
    <3> QED
      BY <3>1 DEF NameEnds
  <2>2. CASE Syn!ReadSeparator
    <3>1. Syn!NextPart[Syn!top] \notin NameEnds
      BY <2>2 DEF Syn!ReadSeparator, Syn!At, Syn!NextPart, NameEnds
    <3>2. calls' = [calls EXCEPT ![Len(calls)] = Syn!NextPart[Syn!top]]
      BY <2>2 DEF Syn!ReadSeparator, Syn!Continue, Syn!ReturnTo
    <3> QED
      BY <3>1, <3>2
  <2>3. CASE Syn!SkipNewLineInValue
    <3>1. Syn!top \notin NameEnds
      BY <2>3 DEF Syn!SkipNewLineInValue, Syn!At, Syn!NewLinePlace, Syn!ArrayPlace, NameEnds
    <3>2. calls' = [calls EXCEPT ![Len(calls)] = Syn!top]
      BY <2>3 DEF Syn!SkipNewLineInValue, Syn!Continue, Syn!ReturnTo
    <3> QED
      BY <3>1, <3>2
  <2> QED
    BY <2>1, <2>2, <2>3 DEF SkipToken
<1> QED
  BY <1>1, <1>2, PlaceReplaced DEF NamesHaveKeys

\* A key is kept until its name ends.
LEMMA TakeKeyNames ==
    ASSUME TokenInv, NamesHaveKeys, SynP!IndInv, TakeKey, tokens # <<>>
    PROVE  NamesHaveKeys'
<1>1. calls \in Seq(SynP!Place) /\ calls # <<>> /\ keys \in Seq(Token)
  BY DEF SynP!IndInv, SynP!TypeOK, SynP!CallsNested, NamesHaveKeys
<1>2. _token \in Token
  BY DEF TokenInv, IndInv, TypeOK, _token, Last
<1>3. keys' \in Seq(Token) /\ keys' # <<>>
  BY <1>1, <1>2 DEF TakeKey
<1>4. \E p : calls' = [calls EXCEPT ![Len(calls)] = p]
  BY DEF TakeKey, Syn!BeginAssignment, Syn!ReadKey, Syn!Continue, Syn!ReturnTo
<1> QED
  BY <1>1, <1>3, <1>4, PlaceReplaced

\* A name that has ended leaves no keys behind.
LEMMA TakeNameNames ==
    ASSUME NamesHaveKeys, SynP!IndInv, TakeName
    PROVE  NamesHaveKeys'
<1>1. calls \in Seq(SynP!Place) /\ calls # <<>> /\ keys' = <<>>
  BY DEF SynP!IndInv, SynP!TypeOK, SynP!CallsNested, TakeName
<1>2. Syn!EndName
  BY DEF TakeName
<1>3. Syn!AfterName[Syn!top][2] \notin NameEnds
  BY <1>2 DEF Syn!EndName, Syn!At, Syn!AfterName, NameEnds
<1>4. calls' = [calls EXCEPT ![Len(calls)] = Syn!AfterName[Syn!top][2]]
  BY <1>2 DEF Syn!EndName, Syn!Continue, Syn!ReturnTo
<1>5. keys' \in Seq(Token)
  BY <1>1
<1> QED
  BY <1>1, <1>3, <1>4, <1>5, PlaceReplaced

\* A value is no name.
LEMMA TakeScalarNames ==
    ASSUME NamesHaveKeys, SynP!IndInv, TakeScalar
    PROVE  NamesHaveKeys'
<1>1. calls \in Seq(SynP!Place) /\ calls # <<>> /\ UNCHANGED keys
  BY DEF SynP!IndInv, SynP!TypeOK, SynP!CallsNested, TakeScalar
<1>2. Syn!ReadScalar
  BY DEF TakeScalar
<1>3. Syn!AfterValue[Syn!top] \notin NameEnds
  BY <1>2 DEF Syn!ReadScalar, Syn!At, Syn!AfterValue, NameEnds
<1>4. calls' = [calls EXCEPT ![Len(calls)] = Syn!AfterValue[Syn!top]]
  BY <1>2 DEF Syn!ReadScalar, Syn!Continue, Syn!ReturnTo
<1> QED
  BY <1>1, <1>3, <1>4, PlaceReplaced DEF NamesHaveKeys

\* A caller goes on behind the value.
LEMMA TakeOpenNames ==
    ASSUME NamesHaveKeys, SynP!IndInv, TakeOpen
    PROVE  NamesHaveKeys'
<1>1. calls \in Seq(SynP!Place) /\ calls # <<>> /\ UNCHANGED keys
  BY DEF SynP!IndInv, SynP!TypeOK, SynP!CallsNested, TakeOpen
<1>2. PICK first \in {"arrayItem", "inlineKey"}, p \in AfterValues :
        calls' = Append([calls EXCEPT ![Len(calls)] = p], first)
  BY DEF TakeOpen, Syn!OpenValue, Syn!ReturnTo, Syn!At, Syn!top, Syn!AfterValue, AfterValues
<1>3. PICK n \in Nat \ {0} : n = Len(calls)
  BY <1>1
<1>4. /\ Len(calls') = n + 1 /\ DOMAIN calls' = 1..(n + 1) /\ DOMAIN calls = 1..n
      /\ calls'[n + 1] = first /\ calls'[n] = p
      /\ \A i \in 1..n : i # n => calls'[i] = calls[i]
  <2> DEFINE s == [calls EXCEPT ![Len(calls)] = p]
  <2>1. s \in Seq(SynP!Place \cup AfterValues) /\ Len(s) = n /\ s[n] = p
        /\ \A i \in 1..n : i # n => s[i] = calls[i]
    BY <1>1, <1>3
  <2> HIDE DEF s
  <2>2. calls' = Append(s, first)
    BY <1>2 DEF s
  <2> QED
    BY <1>1, <1>3, <2>1, <2>2
<1>5. first \notin NameEnds
  BY PlacesWithoutName
<1> QED
  BY <1>1, <1>3, <1>4, <1>5 DEF NamesHaveKeys

\* When an array or inline table ends, its caller runs again.
LEMMA TakeCloseNames ==
    ASSUME NamesHaveKeys, SynP!IndInv, TakeClose
    PROVE  NamesHaveKeys'
<1>1. calls \in Seq(SynP!Place) /\ calls # <<>> /\ UNCHANGED keys
  BY DEF SynP!IndInv, SynP!TypeOK, SynP!CallsNested, TakeClose
<1>2. calls' = SubSeq(calls, 1, Len(calls) - 1)
  BY DEF TakeClose, Syn!CloseValue
<1>3. PICK n \in Nat \ {0} : n = Len(calls)
  BY <1>1
<1>4. n # 1
  <2>1. SynP!CallsNested
    BY DEF SynP!IndInv
  <2>2. calls[n] \in SynP!ArrayPlace \cup SynP!TablePlace
    BY <1>3 DEF TakeClose, Syn!CloseValue, Syn!At, Syn!top, Syn!ArrayPlace, SynP!ArrayPlace, SynP!TablePlace
  <2>3. n = 1 => calls[n] \in SynP!DocumentPlace
    BY <1>3, <2>1 DEF SynP!CallsNested
  <2>4. SynP!DocumentPlace \cap (SynP!ArrayPlace \cup SynP!TablePlace) = {}
    BY SyntaxAssumptions, SynP!PlacesDisjoint
  <2> QED
    BY <2>2, <2>3, <2>4
<1>5. /\ Len(calls') = n - 1 /\ DOMAIN calls' = 1..(n - 1) /\ DOMAIN calls = 1..n
      /\ \A i \in 1..(n - 1) : calls'[i] = calls[i]
  BY <1>1, <1>2, <1>3
<1>6. \A i \in 1..(n - 1) : calls'[i] \in AfterValues
  BY <1>3, <1>5 DEF NamesHaveKeys
<1>7. n - 1 \in 1..(n - 1)
  BY <1>4
<1>8. calls'[Len(calls')] \notin NameEnds
  BY <1>5, <1>6, <1>7, PlacesWithoutName
<1> QED
  BY <1>1, <1>5, <1>6, <1>8 DEF NamesHaveKeys

-------------------------------------------------------------------------------
(* The invariant                                                           *)

\* Nothing has been read.
LEMMA ParserInitInv == ASSUME ParserInit PROVE ParserInv
<1>1. TokenInv
  BY TokenizerInitInv DEF ParserInit
<1>2. /\ tokenizer.specification \in {"1.0", "1.1"}
      /\ tokenizer.context = "Structure" /\ tokenizer.nesting = 0
  BY SpecificationsAssumption DEF ParserInit, TokenizerInit
<1>3. SynP!IndInv
  <2>1. current = "none" /\ calls = <<"statement">> /\ ending = "parsing"
    BY DEF ParserInit
  <2>2. cValueNestingLimit \in Nat
    BY SyntaxAssumptions
  <2>3. SynP!TypeOK
    <3>1. "statement" \in SynP!Place /\ "end" \in SynP!Lexeme
      BY DEF SynP!Place, SynP!DocumentPlace, SynP!Lexeme
    <3> QED
      BY <1>2, <2>1, <2>2, <3>1 DEF SynP!TypeOK
  <2>4. SynP!CallsNested /\ Len(calls) <= cValueNestingLimit + 1
    BY <2>1, <2>2 DEF SynP!CallsNested, SynP!DocumentPlace
  <2>5. SynP!NestingAhead /\ SynP!ContextAhead /\ SynP!LimitIsNesting
    BY <1>2, <2>1 DEF SynP!NestingAhead, SynP!ContextAhead, SynP!LimitIsNesting, SynP!AwaitsValue, SynP!top,
                      SynP!Open, SynP!Close, SynP!ValueToken
  <2> QED
    BY <2>3, <2>4, <2>5 DEF SynP!IndInv
<1>4. NamesHaveKeys
  BY DEF ParserInit, NamesHaveKeys, NameEnds
<1> QED
  BY <1>1, <1>3, <1>4, SameInvariant DEF ParserInv, ParserInit

\* Every step of the parser is a step of the tokenizer or leaves it alone.
LEMMA TokenizerSteps == ASSUME [ParserNext]_parserVars PROVE [TokenizerNext]_allVars
<1>1. CASE ReadNextToken
  BY <1>1 DEF ReadNextToken
<1> QED
  BY <1>1, TakingParses, OthersWait DEF ParserNext, parserVars

\* Every step of the parser keeps what its parts rely on in each other.
LEMMA ParserStepInv == ASSUME ParserInv, [ParserNext]_parserVars PROVE ParserInv'
<1>1. TokenInv /\ SynP!IndInv /\ NamesHaveKeys /\ (current # "none" => tokens # <<>>)
  BY SameInvariant DEF ParserInv
<1>2. TokenInv'
  BY <1>1, TokenizerSteps, NextGood, StutterGood DEF IsGood
<1>3. SynP!IndInv' /\ NamesHaveKeys' /\ (current' # "none" => tokens' # <<>>)
  <2>1. CASE Begin \/ TokenizerThrows \/ ConversionFails \/ Build \/ BuildFails \/ UNCHANGED parserVars
    <3>1. UNCHANGED <<allVars, syntax, keys>>
      BY <2>1, OthersWait DEF parserVars, rest
    <3>2. UNCHANGED <<tokenizer, tokens, current, calls, ending, keys>>
      BY <3>1 DEF allVars, vars, syntax
    <3> QED
      BY <1>1, <3>2, NothingKeepsSync DEF NamesHaveKeys
  <2>2. CASE ReadNextToken
    <3>1. UNCHANGED <<calls, keys>>
      BY <2>2 DEF ReadNextToken, rest
    <3> QED
      BY <1>1, <2>2, <3>1, ReadKeepsSync DEF NamesHaveKeys
  <2>3. CASE \/ SkipToken \/ TakeKey \/ TakeName \/ TakeScalar \/ TakeOpen \/ TakeClose
             \/ EndDocument \/ UnexpectedToken
    <3>1. Syn!Parse /\ UNCHANGED <<tokenizer, tokens>>
      BY <2>3, TakingParses DEF allVars, vars
    <3>2. SynP!IndInv'
      BY <1>1, <3>1, ParseKeepsSync
    <3>3. tokens # <<>>
      BY <1>1, <2>3 DEF SkipToken, TakeKey, TakeName, TakeScalar, TakeOpen, TakeClose, EndDocument,
                        UnexpectedToken, Taking
    <3>4. CASE EndDocument \/ UnexpectedToken
      <4>1. UNCHANGED <<calls, keys>>
        BY <3>4 DEF EndDocument, UnexpectedToken, Syn!EndOfDocument, Syn!Unexpected
      <4> QED
        BY <1>1, <3>1, <3>2, <3>3, <4>1 DEF NamesHaveKeys
    <3>5. CASE SkipToken \/ TakeKey \/ TakeName \/ TakeScalar \/ TakeOpen \/ TakeClose
      <4>1. NamesHaveKeys'
        BY <1>1, <3>3, <3>5, SkipTokenNames, TakeKeyNames, TakeNameNames, TakeScalarNames,
           TakeOpenNames, TakeCloseNames
      <4> QED
        BY <3>1, <3>2, <3>3, <4>1
    <3> QED
      BY <2>3, <3>4, <3>5
  <2> QED
    BY <2>1, <2>2, <2>3 DEF ParserNext
<1>4. Syn!IndInv'
  <2>1. (Syn!IndInv <=> SynP!IndInv)'
    BY SameInvariant, PTL
  <2> QED
    BY <1>3, <2>1
<1> QED
  BY <1>2, <1>3, <1>4 DEF ParserInv

-------------------------------------------------------------------------------
(* The tree                                                                *)

\* The steps and the initial state of the tree are the same with and without proofs.
LEMMA SameTree == (Doc!Init <=> Tree!Init) /\ (Doc!Next <=> Tree!Next)
  BY
  DEF Doc!Node, Tree!Node, Doc!Null, Tree!Null, Doc!Ref, Tree!Ref, Doc!Source, Tree!Source,
      Doc!DottedSource, Tree!DottedSource, Doc!Cell, Tree!Cell, Doc!Heap, Tree!Heap, Doc!NewCell,
      Tree!NewCell, Doc!FreeCell, Tree!FreeCell, Doc!NewTable, Tree!NewTable, Doc!NewArray,
      Tree!NewArray, Doc!NewScalar, Tree!NewScalar, Doc!isTable, Tree!isTable, Doc!isArray,
      Tree!isArray, Doc!valueFromKey, Tree!valueFromKey, Doc!hasKey, Tree!hasKey, Doc!size,
      Tree!size, Doc!valueAt, Tree!valueAt, Doc!setValue, Tree!setValue, Doc!addValue,
      Tree!addValue, Doc!Explicit, Tree!Explicit, Doc!makeExplicit, Tree!makeExplicit, Doc!vars,
      Tree!vars, Doc!Goal, Tree!Goal, Doc!Walk, Tree!Walk, Doc!NoWalk, Tree!NoWalk, Doc!Init,
      Tree!Init, Doc!new, Tree!new, Doc!Create, Tree!Create, Doc!Born, Tree!Born, Doc!section,
      Tree!section, Doc!Walking, Tree!Walking, Doc!AtStatement, Tree!AtStatement, Doc!InValue,
      Tree!InValue, Doc!top, Tree!top, Doc!Pop, Tree!Pop, Doc!NeedsValue, Tree!NeedsValue,
      Doc!HasValue, Tree!HasValue, Doc!BeginParse, Tree!BeginParse, Doc!EndOfDocument,
      Tree!EndOfDocument, Doc!Throw, Tree!Throw, Doc!Conflict, Tree!Conflict, Doc!Abort, Tree!Abort,
      Doc!StartWalk, Tree!StartWalk, Doc!BeginTable, Tree!BeginTable, Doc!BeginArrayOfTables,
      Tree!BeginArrayOfTables, Doc!BeginAssignment, Tree!BeginAssignment, Doc!ParseScalar,
      Tree!ParseScalar, Doc!OpenValue, Tree!OpenValue, Doc!OpenArray, Tree!OpenArray,
      Doc!OpenInlineTable, Tree!OpenInlineTable, Doc!CloseValue, Tree!CloseValue, Doc!AddArrayItem,
      Tree!AddArrayItem, Doc!BeginInlineEntry, Tree!BeginInlineEntry, Doc!BeginInlineWalk,
      Tree!BeginInlineWalk, Doc!BeginAssignWalk, Tree!BeginAssignWalk, Doc!key, Tree!key, Doc!child,
      Tree!child, Doc!Descending, Tree!Descending, Doc!isValueAssignment, Tree!isValueAssignment,
      Doc!StepTo, Tree!StepTo, Doc!DescendToNewTable, Tree!DescendToNewTable, Doc!DescendToTable,
      Tree!DescendToTable, Doc!lastItem, Tree!lastItem, Doc!DescendIntoArray, Tree!DescendIntoArray,
      Doc!DescendConflict, Tree!DescendConflict, Doc!Binding, Tree!Binding, Doc!EnterSection,
      Tree!EnterSection, Doc!CreateNewTable, Tree!CreateNewTable, Doc!CreateImpliedTable,
      Tree!CreateImpliedTable, Doc!CreateTableConflict, Tree!CreateTableConflict,
      Doc!CreateNewArrayOfTables, Tree!CreateNewArrayOfTables, Doc!ExtendArrayOfTables,
      Tree!ExtendArrayOfTables, Doc!CreateArrayOfTablesConflict, Tree!CreateArrayOfTablesConflict,
      Doc!AssignValue, Tree!AssignValue, Doc!AssignInlineEntry, Tree!AssignInlineEntry,
      Doc!AssignConflict, Tree!AssignConflict, Doc!BeginStatement, Tree!BeginStatement,
      Doc!ParseValue, Tree!ParseValue, Doc!Descend, Tree!Descend, Doc!Bind, Tree!Bind, Doc!Next,
      Tree!Next

\* What the tree assumes of its constants.
LEMMA TreeAssumptions ==
    /\ MaxNodes \in Nat /\ cValueNestingLimit \in Nat
    /\ Seq(KeyText) \ {<<>>} \subseteq Seq(KeyText) \ {<<>>}
  BY BoundAssumption, LimitsAssumption

\* A name that ends is a path.
LEMMA NameIsPath ==
    ASSUME Seq(Nat) \subseteq KeyText, NamesHaveKeys, calls[Len(calls)] \in NameEnds
    PROVE  KeyTexts \in Seq(KeyText) \ {<<>>}
<1>1. keys \in Seq(Token) /\ keys # <<>>
  BY DEF NamesHaveKeys
<1>2. PICK n \in Nat \ {0} : n = Len(keys)
  BY <1>1
<1>3. DOMAIN keys = 1..n /\ \A i \in 1..n : keys[i].text \in KeyText
  <2>1. DOMAIN keys = 1..n /\ \A i \in 1..n : keys[i] \in Token
    BY <1>1, <1>2
  <2>2. \A t \in Token : t.text \in Seq(Nat)
    BY DEF Token
  <2> QED
    BY <2>1, <2>2
<1>4. KeyTexts = [i \in 1..n |-> keys[i].text]
  BY <1>3 DEF KeyTexts
<1>5. KeyTexts \in Seq(KeyText)
  BY <1>3, <1>4
<1>6. Len(KeyTexts) = n
  BY <1>2, <1>4
<1> QED
  BY <1>2, <1>5, <1>6

\* Every step of the parser is a step of the tree or leaves it alone.
LEMMA TreeSteps ==
    ASSUME Seq(Nat) \subseteq KeyText, ParserInv, [ParserNext]_parserVars
    PROVE  [Doc!Next]_tree
<1>1. NamesHaveKeys
  BY DEF ParserInv
<1>2. CASE ReadNextToken \/ SkipToken \/ TakeKey \/ UNCHANGED parserVars
  BY <1>2 DEF ReadNextToken, SkipToken, TakeKey, parserVars
<1>3. CASE Begin \/ TokenizerThrows \/ ConversionFails \/ UnexpectedToken \/ EndDocument
  BY <1>3 DEF Begin, TokenizerThrows, ConversionFails, UnexpectedToken, EndDocument, Doc!Next
<1>4. CASE TakeName
  <2>1. calls[Len(calls)] \in NameEnds
    BY <1>4 DEF TakeName, NameEnds
  <2>2. KeyTexts \in Seq(KeyText) \ {<<>>}
    BY <1>1, <2>1, NameIsPath
  <2>3. Doc!BeginStatement(KeyTexts) \/ Doc!BeginInlineEntry(KeyTexts)
    BY <1>4 DEF TakeName, Doc!BeginStatement
  <2> QED
    BY <2>2, <2>3 DEF Doc!Next
<1>5. CASE TakeScalar \/ TakeOpen \/ TakeClose
  BY <1>5 DEF TakeScalar, TakeOpen, TakeClose, Doc!ParseValue, Doc!Next
<1>6. CASE Build
  BY <1>6 DEF Build, PlaceNothing, PlaceImplied, PlaceNamed, StoreValue,
              Doc!ParseValue, Doc!Descend, Doc!Bind, Doc!Next
<1>7. CASE BuildFails
  BY <1>7 DEF BuildFails, Doc!Descend, Doc!Bind, Doc!Next
<1> QED
  BY <1>2, <1>3, <1>4, <1>5, <1>6, <1>7 DEF ParserNext

-------------------------------------------------------------------------------
(* The theorems                                                            *)

\* What the tokenizer, the recursive descent and the tree rely on in each other holds
\* in every state of every parse.
THEOREM ParserInvariance == ParserSpec => []ParserInv
  BY ParserInitInv, ParserStepInv, PTL DEF ParserSpec

\* The tokenizer reads a name where the parser waits for one and a value where it waits
\* for a value, and counts its depth, for every document.
THEOREM TokenizerFollows == ParserSpec => []TokenizerInSync
<1>1. SynP!IndInv => TokenizerInSync
  <2> SUFFICES ASSUME SynP!IndInv PROVE TokenizerInSync
    OBVIOUS
  <2>1. ending = "parsing" /\ current = "none" =>
          /\ tokenizer.context = "Value" <=> SynP!AwaitsValue
          /\ tokenizer.nesting = Len(calls) - 1
    BY SyntaxAssumptions, SynP!ReadingFacts
  <2>2. Len(calls) <= cValueNestingLimit + 1
    BY DEF SynP!IndInv
  <2> QED
    BY <2>1, <2>2 DEF TokenizerInSync, Syn!ContextInSync, Syn!NestingCounted, Syn!AwaitsValue, Syn!top,
                      SynP!AwaitsValue, SynP!top
<1>2. ParserInv => TokenizerInSync
  BY <1>1, SameInvariant DEF ParserInv
<1> QED
  BY <1>2, ParserInvariance, PTL

\* The parser asks nothing of the tokenizer that its module does not allow.
THEOREM ImplementsTokenizer == ParserSpec => TokenizerSpec
<1>1. ParserInit => TokenizerInit
  BY DEF ParserInit
<1> QED
  BY <1>1, TokenizerSteps, PTL DEF ParserSpec, TokenizerSpec

\* So what is proved of the tokenizer holds for the parser: the limits of tokens,
\* and that tokens cover the text.
THEOREM TokensOfTheParser ==
    ParserSpec => [](TokensLimited /\ LocationFits /\ TokensTile /\ EndsAtEnd)
  BY ImplementsTokenizer, LimitsHold, TokenizerTiles, PTL

\* And that what the parser reads are the characters of the document.
THEOREM CharactersOfTheParser ==
    ASSUME WritesCharacters
    PROVE  ParserSpec => [](DecodesDocument /\ ErrorsAreCorruption)
  BY ImplementsTokenizer, TokenizerDecodes, PTL

\* The parser builds trees only as module Document does, if all texts can be keys.
THEOREM ImplementsDocument ==
    ASSUME Seq(Nat) \subseteq KeyText
    PROVE  ParserSpec => Tree!Spec
<1>1. ParserInit => Tree!Init
  BY SameTree DEF ParserInit
<1>2. ParserInv /\ [ParserNext]_parserVars => [Tree!Next]_Tree!vars
  <2> SUFFICES ASSUME ParserInv, [ParserNext]_parserVars PROVE [Tree!Next]_Tree!vars
    OBVIOUS
  <2>1. [Doc!Next]_tree
    BY TreeSteps
  <2>2. UNCHANGED tree => UNCHANGED Tree!vars
    BY DEF tree, Tree!vars
  <2> QED
    BY <2>1, <2>2, SameTree
<1> QED
  BY <1>1, <1>2, ParserInvariance, PTL DEF ParserSpec, Tree!Spec

\* So the characters of a document become a tree: no value is stored twice or below
\* itself, none that was read is lost, none is stored where Value would ignore it,
\* std::logic_error is never thrown, and no table is defined twice.
THEOREM CharactersBecomeTrees ==
    ASSUME Seq(Nat) \subseteq KeyText
    PROVE  ParserSpec => [](/\ Tree!DocumentIsTree /\ Tree!NothingLost /\ Tree!NothingIgnored
                            /\ Tree!NoLogicError /\ Tree!NoTableDefinedTwice)
<1>1. Tree!Spec => []Tree!DocumentIsTree
  BY TreeAssumptions, Tree!DocumentsAreTrees
<1>2. Tree!Spec => []Tree!NothingLost
  BY TreeAssumptions, Tree!NothingGetsLost
<1>3. Tree!Spec => []Tree!NothingIgnored
  BY TreeAssumptions, Tree!StoresTakeEffect
<1>4. Tree!Spec => []Tree!NoLogicError
  BY TreeAssumptions, Tree!LogicErrorFree
<1>5. Tree!Spec => []Tree!NoTableDefinedTwice
  BY TreeAssumptions, Tree!TablesDefinedOnce
<1>6. ParserSpec => Tree!Spec
  BY ImplementsDocument
<1> QED
  BY <1>1, <1>2, <1>3, <1>4, <1>5, <1>6, PTL

\* Nothing is replaced in these trees, no complete value is changed, and no document
\* that was returned.
THEOREM TreesOnlyGrow ==
    ASSUME Seq(Nat) \subseteq KeyText
    PROVE  ParserSpec => /\ Tree!NothingOverwritten
                         /\ Tree!CompleteValuesStay
                         /\ Tree!ReturnedDocumentsStay
<1>1. Tree!Spec => Tree!NothingOverwritten
  BY TreeAssumptions, Tree!OnlyEverAdded
<1>2. Tree!Spec => Tree!CompleteValuesStay
  BY TreeAssumptions, Tree!CompleteValuesKept
<1>3. Tree!Spec => Tree!ReturnedDocumentsStay
  BY TreeAssumptions, Tree!ReturnedDocumentsKept
<1>4. ParserSpec => Tree!Spec
  BY ImplementsDocument
<1> QED
  BY <1>1, <1>2, <1>3, <1>4

===============================================================================
