---------------------------- MODULE SyntaxProofs ----------------------------
(***************************************************************************)
(* Proofs about module Syntax: for every nesting limit, every choice of    *)
(* lexemes and documents of every length, the contexts of the tokenizer    *)
(* follow the parser and the limit of the tokenizer bounds the recursion   *)
(* of the parser.                                                          *)
(*                                                                         *)
(* The inductive invariant IndInv relates both sides at every token: how   *)
(* far the tokenizer is ahead of the parser once it has read a bracket.    *)
(***************************************************************************)
EXTENDS SyntaxProperties, TLAPS

\* Only lexemes follow a lexeme: the input stays inside the alphabet.
LEMMA FollowInLexeme ==
  ASSUME NEW l \in Lexeme
  PROVE  Follow(l) \subseteq Lexeme
BY OfferedAssumption DEF Follow, Lexeme

\* Consuming a lexeme (consumeChar, skipChar) leaves a lexeme ahead.
LEMMA Consumed ==
  ASSUME TypeOK, Consume
  PROVE  ahead' \in Lexeme /\ taken' \in Nat
BY FollowInLexeme DEF TypeOK, Consume

\* While the tokenizer reads, its count is the depth of the parser and its
\* context the one the parser needs.
LEMMA ReadingFacts ==
  ASSUME IndInv, outcome = "parsing", token \in {"none"} \cup Half
  PROVE  /\ calls \in Seq(Place) /\ Len(calls) \in Nat \ {0}
         /\ nesting = Len(calls) - 1
         /\ nesting \in 0..NestingLimit
         /\ context = "Value" <=> AwaitsValue
BY NestingLimitAssumption
DEF IndInv, TypeOK, CallsNested, NestingAhead, ContextAhead, Open, Close, ValueToken, Half

\* Tokenizer::read of a token that is no bracket of a value preserves the
\* invariant if the context fits the new token.
LEMMA QuietRead ==
  ASSUME IndInv, UNCHANGED specification, outcome = "parsing", token \in {"none"} \cup Half,
         UNCHANGED <<calls, nesting>>,
         ahead' \in Lexeme, taken' \in Nat, context' \in {"Structure", "Value"},
         token' \in (Token \cup Half \cup {"none"}) \ (Open \cup Close),
         outcome' \in {"parsing", "syntax"},
         outcome' = "parsing" => ContextAhead'
  PROVE  IndInv'
<1>1. TypeOK'
  BY DEF IndInv, TypeOK
<1>2. CallsNested' /\ Len(calls') <= NestingLimit + 1
  BY DEF IndInv, CallsNested
<1>3. outcome' = "parsing" => NestingAhead'
  BY ReadingFacts DEF NestingAhead
<1>4. LimitIsNesting'
  BY DEF LimitIsNesting
<1> QED
  BY <1>1, <1>2, <1>3, <1>4 DEF IndInv

\* Reading the end of the document keeps tokenizer and parser together.
LEMMA ReadEndOfDocumentStep ==
  ASSUME IndInv, UNCHANGED specification, ReadEndOfDocument
  PROVE  IndInv'
<1>1. TypeOK /\ outcome = "parsing" /\ token \in {"none"} \cup Half
  BY DEF IndInv, ReadEndOfDocument, Reading, Half
<1>2. ahead' \in Lexeme /\ taken' \in Nat
  BY <1>1, Consumed DEF TypeOK, ReadEndOfDocument
<1>3. /\ context' \in {"Structure", "Value"}
      /\ token' \in (Token \cup Half \cup {"none"}) \ (Open \cup Close)
      /\ outcome' \in {"parsing", "syntax"}
  BY <1>1 DEF TypeOK, ReadEndOfDocument, Reading, Fail, Proceed, Token, Half, Open, Close
<1>4. outcome' = "parsing" => ContextAhead'
  BY <1>1, ReadingFacts
  DEF TypeOK, ContextAhead, AwaitsValue, Open, Close, ValueToken, Half, ReadEndOfDocument, Reading, Fail, Proceed, top
<1> QED
  BY <1>1, <1>2, <1>3, <1>4, QuietRead DEF ReadEndOfDocument

\* Skipping white space or a comment keeps tokenizer and parser together.
LEMMA ReadWhiteSpaceStep ==
  ASSUME IndInv, UNCHANGED specification, ReadWhiteSpace
  PROVE  IndInv'
<1>1. TypeOK /\ outcome = "parsing" /\ token \in {"none"} \cup Half
  BY DEF IndInv, ReadWhiteSpace, Reading, Half
<1>2. ahead' \in Lexeme /\ taken' \in Nat
  BY <1>1, Consumed DEF TypeOK, ReadWhiteSpace
<1>3. /\ context' \in {"Structure", "Value"}
      /\ token' \in (Token \cup Half \cup {"none"}) \ (Open \cup Close)
      /\ outcome' \in {"parsing", "syntax"}
  BY <1>1 DEF TypeOK, ReadWhiteSpace, Reading, Fail, Proceed, Token, Half, Open, Close
<1>4. outcome' = "parsing" => ContextAhead'
  BY <1>1, ReadingFacts
  DEF TypeOK, ContextAhead, AwaitsValue, Open, Close, ValueToken, Half, ReadWhiteSpace, Reading, Fail, Proceed, top
<1> QED
  BY <1>1, <1>2, <1>3, <1>4, QuietRead DEF ReadWhiteSpace

\* Reading a new line keeps tokenizer and parser together.
LEMMA ReadNewLineStep ==
  ASSUME IndInv, UNCHANGED specification, ReadNewLine
  PROVE  IndInv'
<1>1. TypeOK /\ outcome = "parsing" /\ token \in {"none"} \cup Half
  BY DEF IndInv, ReadNewLine, Reading, Half
<1>2. ahead' \in Lexeme /\ taken' \in Nat
  BY <1>1, Consumed DEF TypeOK, ReadNewLine
<1>3. /\ context' \in {"Structure", "Value"}
      /\ token' \in (Token \cup Half \cup {"none"}) \ (Open \cup Close)
      /\ outcome' \in {"parsing", "syntax"}
  BY <1>1 DEF TypeOK, ReadNewLine, Reading, Fail, Proceed, Token, Half, Open, Close
<1>4. outcome' = "parsing" => ContextAhead'
  BY <1>1, ReadingFacts
  DEF TypeOK, ContextAhead, AwaitsValue, Open, Close, ValueToken, Half, ReadNewLine, Reading, Fail, Proceed, top
<1> QED
  BY <1>1, <1>2, <1>3, <1>4, QuietRead DEF ReadNewLine

\* Reading an assignment operator or a dot in a name, which may change the
\* context, keeps tokenizer and parser together.
LEMMA ReadStructureMarkStep ==
  ASSUME IndInv, UNCHANGED specification, ReadStructureMark
  PROVE  IndInv'
<1>1. TypeOK /\ outcome = "parsing" /\ token \in {"none"} \cup Half
  BY DEF IndInv, ReadStructureMark, Reading, Half
<1>2. ahead' \in Lexeme /\ taken' \in Nat
  BY <1>1, Consumed DEF TypeOK, ReadStructureMark
<1>3. /\ context' \in {"Structure", "Value"}
      /\ token' \in (Token \cup Half \cup {"none"}) \ (Open \cup Close)
      /\ outcome' \in {"parsing", "syntax"}
  BY <1>1 DEF TypeOK, ReadStructureMark, Reading, Fail, Proceed, ExpectMore, Token, Half, Open, Close
<1>4. outcome' = "parsing" => ContextAhead'
  BY <1>1, ReadingFacts
  DEF TypeOK, ContextAhead, AwaitsValue, Open, Close, ValueToken, Half, ReadStructureMark, Reading, Fail, Proceed, ExpectMore, top
<1> QED
  BY <1>1, <1>2, <1>3, <1>4, QuietRead DEF ReadStructureMark

\* Reading a string as a key keeps tokenizer and parser together.
LEMMA ReadStructureStringStep ==
  ASSUME IndInv, UNCHANGED specification, ReadStructureString
  PROVE  IndInv'
<1>1. TypeOK /\ outcome = "parsing" /\ token \in {"none"} \cup Half
  BY DEF IndInv, ReadStructureString, Reading, Half
<1>2. ahead' \in Lexeme /\ taken' \in Nat
  BY <1>1, Consumed DEF TypeOK, ReadStructureString
<1>3. /\ context' \in {"Structure", "Value"}
      /\ token' \in (Token \cup Half \cup {"none"}) \ (Open \cup Close)
      /\ outcome' \in {"parsing", "syntax"}
  BY <1>1 DEF TypeOK, ReadStructureString, Reading, Fail, Proceed, Token, Half, Open, Close
<1>4. outcome' = "parsing" => ContextAhead'
  BY <1>1, ReadingFacts
  DEF TypeOK, ContextAhead, AwaitsValue, Open, Close, ValueToken, Half, ReadStructureString, Reading, Fail, Proceed, top
<1> QED
  BY <1>1, <1>2, <1>3, <1>4, QuietRead DEF ReadStructureString

\* Reading a bare key keeps tokenizer and parser together.
LEMMA ReadStructureNameStep ==
  ASSUME IndInv, UNCHANGED specification, ReadStructureName
  PROVE  IndInv'
<1>1. TypeOK /\ outcome = "parsing" /\ token \in {"none"} \cup Half
  BY DEF IndInv, ReadStructureName, Reading, Half
<1>2. ahead' \in Lexeme /\ taken' \in Nat
  BY <1>1, Consumed DEF TypeOK, ReadStructureName
<1>3. /\ context' \in {"Structure", "Value"}
      /\ token' \in (Token \cup Half \cup {"none"}) \ (Open \cup Close)
      /\ outcome' \in {"parsing", "syntax"}
  BY <1>1 DEF TypeOK, ReadStructureName, Reading, Fail, Proceed, ExpectEnd, Token, Half, Open, Close
<1>4. outcome' = "parsing" => ContextAhead'
  BY <1>1, ReadingFacts
  DEF TypeOK, ContextAhead, AwaitsValue, Open, Close, ValueToken, Half, ReadStructureName, Reading, Fail, Proceed, ExpectEnd, top
<1> QED
  BY <1>1, <1>2, <1>3, <1>4, QuietRead DEF ReadStructureName

\* Reading the first bracket of a header's name keeps tokenizer and parser
\* together.
LEMMA ReadStructureBracketStep ==
  ASSUME IndInv, UNCHANGED specification, ReadStructureBracket
  PROVE  IndInv'
<1>1. TypeOK /\ outcome = "parsing" /\ token \in {"none"} \cup Half
  BY DEF IndInv, ReadStructureBracket, Reading, Half
<1>2. ahead' \in Lexeme /\ taken' \in Nat
  BY <1>1, Consumed DEF TypeOK, ReadStructureBracket
<1>3. /\ context' \in {"Structure", "Value"}
      /\ token' \in (Token \cup Half \cup {"none"}) \ (Open \cup Close)
      /\ outcome' \in {"parsing", "syntax"}
  BY <1>1 DEF TypeOK, ReadStructureBracket, Reading, Fail, Proceed, ExpectMore, Token, Half, Open, Close
<1>4. outcome' = "parsing" => ContextAhead'
  BY <1>1, ReadingFacts
  DEF TypeOK, ContextAhead, AwaitsValue, Open, Close, ValueToken, Half, ReadStructureBracket, Reading, Fail, Proceed, ExpectMore, top
<1> QED
  BY <1>1, <1>2, <1>3, <1>4, QuietRead DEF ReadStructureBracket

\* Reading the second bracket of a header's name keeps tokenizer and parser
\* together.
LEMMA ReadSecondBracketStep ==
  ASSUME IndInv, UNCHANGED specification, ReadSecondBracket
  PROVE  IndInv'
<1>1. TypeOK /\ outcome = "parsing" /\ token \in {"none"} \cup Half
  BY DEF IndInv, ReadSecondBracket, Reading, Half
<1>2. ahead' \in Lexeme /\ taken' \in Nat
  BY <1>1, Consumed DEF TypeOK, ReadSecondBracket
<1>3. /\ context' \in {"Structure", "Value"}
      /\ token' \in (Token \cup Half \cup {"none"}) \ (Open \cup Close)
      /\ outcome' \in {"parsing", "syntax"}
  BY <1>1 DEF TypeOK, ReadSecondBracket, Reading, Fail, Proceed, ExpectMore, Token, Half, Open, Close
<1>4. outcome' = "parsing" => ContextAhead'
  BY <1>1, ReadingFacts
  DEF TypeOK, ContextAhead, AwaitsValue, Open, Close, ValueToken, Half, ReadSecondBracket, Reading, Fail, Proceed, ExpectMore, top
<1> QED
  BY <1>1, <1>2, <1>3, <1>4, QuietRead DEF ReadSecondBracket

\* Rejecting a mark that no name has keeps tokenizer and parser together.
LEMMA ReadStructureOtherStep ==
  ASSUME IndInv, UNCHANGED specification, ReadStructureOther
  PROVE  IndInv'
<1>1. TypeOK /\ outcome = "parsing" /\ token \in {"none"} \cup Half
  BY DEF IndInv, ReadStructureOther, Reading, Half
<1>2. ahead' \in Lexeme /\ taken' \in Nat
  BY <1>1, Consumed DEF TypeOK, ReadStructureOther
<1>3. /\ context' \in {"Structure", "Value"}
      /\ token' \in (Token \cup Half \cup {"none"}) \ (Open \cup Close)
      /\ outcome' \in {"parsing", "syntax"}
  BY <1>1 DEF TypeOK, ReadStructureOther, Reading, Fail, Proceed, Token, Half, Open, Close
<1>4. outcome' = "parsing" => ContextAhead'
  BY <1>1, ReadingFacts
  DEF TypeOK, ContextAhead, AwaitsValue, Open, Close, ValueToken, Half, ReadStructureOther, Reading, Fail, Proceed, top
<1> QED
  BY <1>1, <1>2, <1>3, <1>4, QuietRead DEF ReadStructureOther

\* Reading a mark in a value keeps tokenizer and parser together.
LEMMA ReadValueMarkStep ==
  ASSUME IndInv, UNCHANGED specification, ReadValueMark
  PROVE  IndInv'
<1>1. TypeOK /\ outcome = "parsing" /\ token \in {"none"} \cup Half
  BY DEF IndInv, ReadValueMark, Reading, Half
<1>2. ahead' \in Lexeme /\ taken' \in Nat
  BY <1>1, Consumed DEF TypeOK, ReadValueMark
<1>3. /\ context' \in {"Structure", "Value"}
      /\ token' \in (Token \cup Half \cup {"none"}) \ (Open \cup Close)
      /\ outcome' \in {"parsing", "syntax"}
  BY <1>1 DEF TypeOK, ReadValueMark, Reading, Fail, Proceed, ExpectMore, Token, Half, Open, Close
<1>4. outcome' = "parsing" => ContextAhead'
  BY <1>1, ReadingFacts
  DEF TypeOK, ContextAhead, AwaitsValue, Open, Close, ValueToken, Half, ReadValueMark, Reading, Fail, Proceed, ExpectMore, top
<1> QED
  BY <1>1, <1>2, <1>3, <1>4, QuietRead DEF ReadValueMark

\* Reading a string as a value, which may end the context of values, keeps
\* tokenizer and parser together.
LEMMA ReadValueStringStep ==
  ASSUME IndInv, UNCHANGED specification, ReadValueString
  PROVE  IndInv'
<1>1. TypeOK /\ outcome = "parsing" /\ token \in {"none"} \cup Half
  BY DEF IndInv, ReadValueString, Reading, Half
<1>2. ahead' \in Lexeme /\ taken' \in Nat
  BY <1>1, Consumed DEF TypeOK, ReadValueString
<1>3. /\ context' \in {"Structure", "Value"}
      /\ token' \in (Token \cup Half \cup {"none"}) \ (Open \cup Close)
      /\ outcome' \in {"parsing", "syntax"}
  BY <1>1 DEF TypeOK, ReadValueString, Reading, Fail, Proceed, LeaveContext, Token, Half, Open, Close
<1>4. outcome' = "parsing" => ContextAhead'
  BY <1>1, ReadingFacts
  DEF TypeOK, ContextAhead, AwaitsValue, Open, Close, ValueToken, Half, ReadValueString, Reading, Fail, Proceed, LeaveContext, top
<1> QED
  BY <1>1, <1>2, <1>3, <1>4, QuietRead DEF ReadValueString

\* Reading a word in the context of values keeps tokenizer and parser
\* together.
LEMMA ReadValueWordStep ==
  ASSUME IndInv, UNCHANGED specification, ReadValueWord
  PROVE  IndInv'
<1>1. TypeOK /\ outcome = "parsing" /\ token \in {"none"} \cup Half
  BY DEF IndInv, ReadValueWord, Reading, Half
<1>2. ahead' \in Lexeme /\ taken' \in Nat
  BY <1>1, Consumed DEF TypeOK, ReadValueWord
<1>3. /\ context' \in {"Structure", "Value"}
      /\ token' \in (Token \cup Half \cup {"none"}) \ (Open \cup Close)
      /\ outcome' \in {"parsing", "syntax"}
  BY <1>1 DEF TypeOK, ReadValueWord, Reading, Fail, Proceed, ExpectEnd, LeaveContext, Token, Half, Open, Close
<1>4. outcome' = "parsing" => ContextAhead'
  BY <1>1, ReadingFacts
  DEF TypeOK, ContextAhead, AwaitsValue, Open, Close, ValueToken, Half, ReadValueWord, Reading, Fail, Proceed, ExpectEnd, LeaveContext, top
<1> QED
  BY <1>1, <1>2, <1>3, <1>4, QuietRead DEF ReadValueWord

\* Reading an integer, or the first part of a float, keeps tokenizer and
\* parser together.
LEMMA ReadIntegerStep ==
  ASSUME IndInv, UNCHANGED specification, ReadInteger
  PROVE  IndInv'
<1>1. TypeOK /\ outcome = "parsing" /\ token \in {"none"} \cup Half
  BY DEF IndInv, ReadInteger, Reading, Half
<1>2. ahead' \in Lexeme /\ taken' \in Nat
  BY <1>1, Consumed DEF TypeOK, ReadInteger
<1>3. /\ context' \in {"Structure", "Value"}
      /\ token' \in (Token \cup Half \cup {"none"}) \ (Open \cup Close)
      /\ outcome' \in {"parsing", "syntax"}
  BY <1>1 DEF TypeOK, ReadInteger, Reading, Fail, Proceed, ExpectEnd, LeaveContext, Token, Half, Open, Close
<1>4. outcome' = "parsing" => ContextAhead'
  BY <1>1, ReadingFacts
  DEF TypeOK, ContextAhead, AwaitsValue, Open, Close, ValueToken, Half, ReadInteger, Reading, Fail, Proceed, ExpectEnd, LeaveContext, top
<1> QED
  BY <1>1, <1>2, <1>3, <1>4, QuietRead DEF ReadInteger

\* Reading the fraction of a float keeps tokenizer and parser together.
LEMMA ReadFractionStep ==
  ASSUME IndInv, UNCHANGED specification, ReadFraction
  PROVE  IndInv'
<1>1. TypeOK /\ outcome = "parsing" /\ token \in {"none"} \cup Half
  BY DEF IndInv, ReadFraction, Reading, Half
<1>2. ahead' \in Lexeme /\ taken' \in Nat
  BY <1>1, Consumed DEF TypeOK, ReadFraction
<1>3. /\ context' \in {"Structure", "Value"}
      /\ token' \in (Token \cup Half \cup {"none"}) \ (Open \cup Close)
      /\ outcome' \in {"parsing", "syntax"}
  BY <1>1 DEF TypeOK, ReadFraction, Reading, Fail, Proceed, ExpectMore, ExpectEnd, LeaveContext, Token, Half, Open, Close
<1>4. outcome' = "parsing" => ContextAhead'
  BY <1>1, ReadingFacts
  DEF TypeOK, ContextAhead, AwaitsValue, Open, Close, ValueToken, Half, ReadFraction, Reading, Fail, Proceed, ExpectMore, ExpectEnd, LeaveContext, top
<1> QED
  BY <1>1, <1>2, <1>3, <1>4, QuietRead DEF ReadFraction

\* A bracket that opens an array or inline table: the tokenizer counts it at
\* once, the parser enters the value with its next step.  The limit stops the
\* tokenizer exactly one level below it.
LEMMA ReadValueBeginStep ==
  ASSUME IndInv, UNCHANGED specification, ReadValueBegin
  PROVE  IndInv'
<1>1. /\ TypeOK
      /\ outcome = "parsing"
      /\ token \in {"none"} \cup Half
      /\ UNCHANGED <<calls, context>>
  BY DEF IndInv, ReadValueBegin, Reading, Half
<1>2. /\ Len(calls) \in Nat
      /\ nesting = Len(calls) - 1
      /\ nesting \in 0..NestingLimit
      /\ context = "Value" /\ AwaitsValue
  BY <1>1, ReadingFacts DEF ReadValueBegin, Reading
<1>3. /\ token' \in Open
      /\ nesting' = nesting + 1
      /\ outcome' \in {"parsing", "syntax", "limit"}
      /\ outcome' = "parsing" => ~(nesting' > NestingLimit)
      /\ outcome' = "limit" => nesting' > NestingLimit
  BY <1>1 DEF ReadValueBegin, Open
<1>4. TypeOK'
  <2>1. ahead' \in Lexeme /\ taken' \in Nat
    BY <1>1, Consumed DEF ReadValueBegin
  <2>2. nesting' \in -1..(NestingLimit + 1)
    BY <1>2, <1>3, NestingLimitAssumption
  <2>3. token' \in Token
    BY <1>3 DEF Open, Token
  <2> QED
    BY <1>1, <1>3, <2>1, <2>2, <2>3 DEF TypeOK
<1>5. CallsNested' /\ Len(calls') <= NestingLimit + 1
  BY <1>1 DEF IndInv, CallsNested
<1>6. outcome' = "parsing" => NestingAhead'
  BY <1>1, <1>2, <1>3, NestingLimitAssumption DEF NestingAhead, Open, Close
<1>7. ContextAhead'
  BY <1>1, <1>2, <1>3 DEF ContextAhead, AwaitsValue, Open, Close, ValueToken, top
<1>8. LimitIsNesting'
  BY <1>1, <1>2, <1>3, NestingLimitAssumption DEF LimitIsNesting
<1> QED
  BY <1>4, <1>5, <1>6, <1>7, <1>8 DEF IndInv

\* A bracket that ends an array or inline table: the tokenizer leaves the
\* context of values exactly when the parser is about to return to the
\* document.
LEMMA ReadValueEndStep ==
  ASSUME IndInv, UNCHANGED specification, ReadValueEnd
  PROVE  IndInv'
<1>1. /\ TypeOK
      /\ outcome = "parsing"
      /\ token \in {"none"} \cup Half
      /\ UNCHANGED <<calls, outcome>>
  BY DEF IndInv, ReadValueEnd, Reading, Half
<1>2. /\ Len(calls) \in Nat
      /\ nesting = Len(calls) - 1
      /\ nesting \in 0..NestingLimit
      /\ context = "Value"
  BY <1>1, ReadingFacts DEF ReadValueEnd, Reading
<1>3. /\ token' \in Close
      /\ nesting' = nesting - 1
  BY <1>1 DEF ReadValueEnd, Close
<1>4. context' = IF nesting' = 0 THEN "Structure" ELSE "Value"
  BY <1>2, <1>3 DEF ReadValueEnd, LeaveContext, Close
<1>5. TypeOK'
  <2>1. ahead' \in Lexeme /\ taken' \in Nat
    BY <1>1, Consumed DEF ReadValueEnd
  <2>2. nesting' \in -1..(NestingLimit + 1)
    BY <1>2, <1>3, NestingLimitAssumption
  <2>3. token' \in Token /\ context' \in {"Structure", "Value"}
    BY <1>3, <1>4 DEF Close, Token
  <2> QED
    BY <1>1, <2>1, <2>2, <2>3 DEF TypeOK
<1>6. CallsNested' /\ Len(calls') <= NestingLimit + 1
  BY <1>1 DEF IndInv, CallsNested
<1>7. NestingAhead'
  BY <1>1, <1>2, <1>3 DEF NestingAhead, Open, Close
<1>8. ContextAhead'
  BY <1>1, <1>2, <1>3, <1>4 DEF ContextAhead, Close, ValueToken
<1>9. LimitIsNesting'
  BY <1>1 DEF LimitIsNesting
<1> QED
  BY <1>5, <1>6, <1>7, <1>8, <1>9 DEF IndInv

----------------------------------------------------------------------------
\* A depth is one or more.
LEMMA OneOrMore ==
  ASSUME NEW n \in Nat \ {0}
  PROVE  (n = 1 \/ n > 1) /\ ~(n = 1 /\ n > 1)
OBVIOUS

\* What the parser knows of the tokenizer when it looks at a token.
LEMMA ParsingFacts ==
  ASSUME IndInv, outcome = "parsing"
  PROVE  /\ calls \in Seq(Place) /\ Len(calls) \in Nat \ {0}
         /\ Len(calls) = 1 => top \in DocumentPlace
         /\ Len(calls) > 1 => top \in ArrayPlace \cup TablePlace
         /\ ContextAhead /\ NestingAhead
<1>1. calls \in Seq(Place) /\ Len(calls) \in Nat \ {0} /\ Len(calls) \in 1..Len(calls)
  BY DEF IndInv, TypeOK, CallsNested
<1>2. /\ Len(calls) = 1 => top \in DocumentPlace
      /\ Len(calls) > 1 => top \in ArrayPlace \cup TablePlace
  BY <1>1 DEF IndInv, CallsNested, top
<1> QED
  BY <1>1, <1>2 DEF IndInv

\* Places of the document and places inside a value are different.
LEMMA PlacesDisjoint ==
  DocumentPlace \cap (ArrayPlace \cup TablePlace) = {}
BY DEF DocumentPlace, ArrayPlace, TablePlace

\* The parser goes on to a place of the same kind, at the same depth, and the
\* tokenizer reads the next token in the context of that place.
LEMMA ContinueStep ==
  ASSUME IndInv, UNCHANGED specification, NEW place, Continue(place), outcome = "parsing",
         token \notin Open \cup Close,
         top \in DocumentPlace => place \in DocumentPlace,
         top \in ArrayPlace \cup TablePlace => place \in ArrayPlace \cup TablePlace,
         context = "Value" <=> Len(calls) > 1 \/ place = "value"
  PROVE  IndInv'
<1>1. Len(calls) \in Nat \ {0} /\ calls \in Seq(Place)
  BY ParsingFacts
<1>2. /\ Len(calls) = 1 => place \in DocumentPlace
      /\ Len(calls) > 1 => place \in ArrayPlace \cup TablePlace
      /\ place \in Place
  <2>1. /\ Len(calls) = 1 => place \in DocumentPlace
        /\ Len(calls) > 1 => place \in ArrayPlace \cup TablePlace
    BY ParsingFacts
  <2>2. Len(calls) = 1 \/ Len(calls) > 1
    BY <1>1, OneOrMore
  <2> QED
    BY <2>1, <2>2 DEF Place
<1>3. /\ calls' = [calls EXCEPT ![Len(calls)] = place]
      /\ calls' \in Seq(Place)
      /\ Len(calls') = Len(calls)
      /\ calls'[Len(calls')] = place
      /\ \A i \in 1..Len(calls) : i # Len(calls) => calls'[i] = calls[i]
  BY <1>1, <1>2 DEF Continue, ReturnTo
<1>4. TypeOK'
  BY <1>3 DEF IndInv, TypeOK, Continue
<1>5. CallsNested' /\ Len(calls') <= NestingLimit + 1
  <2>1. calls' # <<>>
    BY <1>1, <1>3
  <2>2. ASSUME NEW i \in 1..Len(calls')
        PROVE  /\ i = 1 => calls'[i] \in DocumentPlace
               /\ i > 1 => calls'[i] \in ArrayPlace \cup TablePlace
               /\ i = 1 /\ i < Len(calls') => calls'[i] = "statementEnd"
    <3>1. CASE i = Len(calls)
      <4>1. calls'[i] = place
        BY <1>3, <3>1
      <4>2. Len(calls') = Len(calls) /\ Len(calls) \in Nat
        BY <1>1, <1>3
      <4>3. ~(i < Len(calls')) /\ (i = 1 => Len(calls) = 1) /\ (i > 1 => Len(calls) > 1)
        BY <3>1, <4>2
      <4> QED
        BY <1>2, <4>1, <4>3
    <3>2. CASE i # Len(calls)
      BY <1>1, <1>3, <2>2, <3>2 DEF IndInv, CallsNested
    <3> QED
      BY <3>1, <3>2
  <2> QED
    BY <1>3, <2>1, <2>2 DEF IndInv, CallsNested
<1>6. NestingAhead'
  BY <1>3 DEF IndInv, NestingAhead, Open, Close, Continue
<1>7. ContextAhead'
  BY <1>3 DEF ContextAhead, AwaitsValue, top, Continue, ValueToken, Close
<1>8. LimitIsNesting'
  BY DEF LimitIsNesting, Continue
<1> QED
  BY <1>4, <1>5, <1>6, <1>7, <1>8 DEF IndInv

\* A new line between statements keeps tokenizer and parser together.
LEMMA SkipNewLineStep ==
  ASSUME IndInv, UNCHANGED specification, SkipNewLine
  PROVE  IndInv'
<1>1. PICK place :
        /\ Continue(place)
        /\ outcome = "parsing" /\ token \notin Open \cup Close
        /\ top \in DocumentPlace => place \in DocumentPlace
        /\ top \in ArrayPlace \cup TablePlace => place \in ArrayPlace \cup TablePlace
        /\ Len(calls) = 1 => (context = "Value" <=> place = "value")
        /\ Len(calls) > 1 => context = "Value"
  BY ParsingFacts
  DEF SkipNewLine, At, isKey, ContextAhead, AwaitsValue, Open, Close, ValueToken,
      DocumentPlace, ArrayPlace, TablePlace
<1>2. (Len(calls) = 1 \/ Len(calls) > 1) /\ ~(Len(calls) = 1 /\ Len(calls) > 1)
  BY <1>1, ParsingFacts, OneOrMore
<1>3. context = "Value" <=> Len(calls) > 1 \/ place = "value"
  BY <1>1, <1>2
<1> QED
  BY <1>1, <1>3, ContinueStep

\* The first key of an assignment keeps tokenizer and parser together.
LEMMA BeginAssignmentStep ==
  ASSUME IndInv, UNCHANGED specification, BeginAssignment
  PROVE  IndInv'
<1>1. PICK place :
        /\ Continue(place)
        /\ outcome = "parsing" /\ token \notin Open \cup Close
        /\ top \in DocumentPlace => place \in DocumentPlace
        /\ top \in ArrayPlace \cup TablePlace => place \in ArrayPlace \cup TablePlace
        /\ Len(calls) = 1 => (context = "Value" <=> place = "value")
        /\ Len(calls) > 1 => context = "Value"
  BY ParsingFacts
  DEF BeginAssignment, At, isKey, ContextAhead, AwaitsValue, Open, Close, ValueToken,
      DocumentPlace, ArrayPlace, TablePlace
<1>2. (Len(calls) = 1 \/ Len(calls) > 1) /\ ~(Len(calls) = 1 /\ Len(calls) > 1)
  BY <1>1, ParsingFacts, OneOrMore
<1>3. context = "Value" <=> Len(calls) > 1 \/ place = "value"
  BY <1>1, <1>2
<1> QED
  BY <1>1, <1>3, ContinueStep

\* The begin of a header keeps tokenizer and parser together.
LEMMA BeginHeaderStep ==
  ASSUME IndInv, UNCHANGED specification, BeginHeader
  PROVE  IndInv'
<1>1. PICK place :
        /\ Continue(place)
        /\ outcome = "parsing" /\ token \notin Open \cup Close
        /\ top \in DocumentPlace => place \in DocumentPlace
        /\ top \in ArrayPlace \cup TablePlace => place \in ArrayPlace \cup TablePlace
        /\ Len(calls) = 1 => (context = "Value" <=> place = "value")
        /\ Len(calls) > 1 => context = "Value"
  BY ParsingFacts
  DEF BeginHeader, At, isKey, ContextAhead, AwaitsValue, Open, Close, ValueToken,
      DocumentPlace, ArrayPlace, TablePlace
<1>2. (Len(calls) = 1 \/ Len(calls) > 1) /\ ~(Len(calls) = 1 /\ Len(calls) > 1)
  BY <1>1, ParsingFacts, OneOrMore
<1>3. context = "Value" <=> Len(calls) > 1 \/ place = "value"
  BY <1>1, <1>2
<1> QED
  BY <1>1, <1>3, ContinueStep

\* A key of a name keeps tokenizer and parser together.
LEMMA ReadKeyStep ==
  ASSUME IndInv, UNCHANGED specification, ReadKey
  PROVE  IndInv'
<1>1. PICK place :
        /\ Continue(place)
        /\ outcome = "parsing" /\ token \notin Open \cup Close
        /\ top \in DocumentPlace => place \in DocumentPlace
        /\ top \in ArrayPlace \cup TablePlace => place \in ArrayPlace \cup TablePlace
        /\ Len(calls) = 1 => (context = "Value" <=> place = "value")
        /\ Len(calls) > 1 => context = "Value"
  BY ParsingFacts
  DEF ReadKey, At, isKey, NameEnd, ContextAhead, AwaitsValue, Open, Close, ValueToken,
      DocumentPlace, ArrayPlace, TablePlace
<1>2. (Len(calls) = 1 \/ Len(calls) > 1) /\ ~(Len(calls) = 1 /\ Len(calls) > 1)
  BY <1>1, ParsingFacts, OneOrMore
<1>3. context = "Value" <=> Len(calls) > 1 \/ place = "value"
  BY <1>1, <1>2
<1> QED
  BY <1>1, <1>3, ContinueStep

\* A dot between two keys keeps tokenizer and parser together.
LEMMA ReadSeparatorStep ==
  ASSUME IndInv, UNCHANGED specification, ReadSeparator
  PROVE  IndInv'
<1>1. PICK place :
        /\ Continue(place)
        /\ outcome = "parsing" /\ token \notin Open \cup Close
        /\ top \in DocumentPlace => place \in DocumentPlace
        /\ top \in ArrayPlace \cup TablePlace => place \in ArrayPlace \cup TablePlace
        /\ Len(calls) = 1 => (context = "Value" <=> place = "value")
        /\ Len(calls) > 1 => context = "Value"
  BY ParsingFacts
  DEF ReadSeparator, At, isKey, NextPart, ContextAhead, AwaitsValue, Open, Close, ValueToken,
      DocumentPlace, ArrayPlace, TablePlace
<1>2. (Len(calls) = 1 \/ Len(calls) > 1) /\ ~(Len(calls) = 1 /\ Len(calls) > 1)
  BY <1>1, ParsingFacts, OneOrMore
<1>3. context = "Value" <=> Len(calls) > 1 \/ place = "value"
  BY <1>1, <1>2
<1> QED
  BY <1>1, <1>3, ContinueStep

\* The end of a name keeps tokenizer and parser together.
LEMMA EndNameStep ==
  ASSUME IndInv, UNCHANGED specification, EndName
  PROVE  IndInv'
<1>1. PICK place :
        /\ Continue(place)
        /\ outcome = "parsing" /\ token \notin Open \cup Close
        /\ top \in DocumentPlace => place \in DocumentPlace
        /\ top \in ArrayPlace \cup TablePlace => place \in ArrayPlace \cup TablePlace
        /\ Len(calls) = 1 => (context = "Value" <=> place = "value")
        /\ Len(calls) > 1 => context = "Value"
  BY ParsingFacts
  DEF EndName, At, isKey, AfterName, ContextAhead, AwaitsValue, Open, Close, ValueToken,
      DocumentPlace, ArrayPlace, TablePlace
<1>2. (Len(calls) = 1 \/ Len(calls) > 1) /\ ~(Len(calls) = 1 /\ Len(calls) > 1)
  BY <1>1, ParsingFacts, OneOrMore
<1>3. context = "Value" <=> Len(calls) > 1 \/ place = "value"
  BY <1>1, <1>2
<1> QED
  BY <1>1, <1>3, ContinueStep

\* A value that is no array or inline table keeps tokenizer and parser together.
LEMMA ReadScalarStep ==
  ASSUME IndInv, UNCHANGED specification, ReadScalar
  PROVE  IndInv'
<1>1. PICK place :
        /\ Continue(place)
        /\ outcome = "parsing" /\ token \notin Open \cup Close
        /\ top \in DocumentPlace => place \in DocumentPlace
        /\ top \in ArrayPlace \cup TablePlace => place \in ArrayPlace \cup TablePlace
        /\ Len(calls) = 1 => (context = "Value" <=> place = "value")
        /\ Len(calls) > 1 => context = "Value"
  BY ParsingFacts
  DEF ReadScalar, At, isKey, AfterValue, ContextAhead, AwaitsValue, Open, Close, ValueToken,
      DocumentPlace, ArrayPlace, TablePlace
<1>2. (Len(calls) = 1 \/ Len(calls) > 1) /\ ~(Len(calls) = 1 /\ Len(calls) > 1)
  BY <1>1, ParsingFacts, OneOrMore
<1>3. context = "Value" <=> Len(calls) > 1 \/ place = "value"
  BY <1>1, <1>2
<1> QED
  BY <1>1, <1>3, ContinueStep

\* A new line inside a value keeps tokenizer and parser together.
LEMMA SkipNewLineInValueStep ==
  ASSUME IndInv, UNCHANGED specification, SkipNewLineInValue
  PROVE  IndInv'
<1>1. PICK place :
        /\ Continue(place)
        /\ outcome = "parsing" /\ token \notin Open \cup Close
        /\ top \in DocumentPlace => place \in DocumentPlace
        /\ top \in ArrayPlace \cup TablePlace => place \in ArrayPlace \cup TablePlace
        /\ Len(calls) = 1 => (context = "Value" <=> place = "value")
        /\ Len(calls) > 1 => context = "Value"
  BY ParsingFacts
  DEF SkipNewLineInValue, At, isKey, NewLinePlace, ContextAhead, AwaitsValue, Open, Close, ValueToken,
      DocumentPlace, ArrayPlace, TablePlace
<1>2. (Len(calls) = 1 \/ Len(calls) > 1) /\ ~(Len(calls) = 1 /\ Len(calls) > 1)
  BY <1>1, ParsingFacts, OneOrMore
<1>3. context = "Value" <=> Len(calls) > 1 \/ place = "value"
  BY <1>1, <1>2
<1> QED
  BY <1>1, <1>3, ContinueStep

\* A comma keeps tokenizer and parser together.
LEMMA NextItemStep ==
  ASSUME IndInv, UNCHANGED specification, NextItem
  PROVE  IndInv'
<1>1. PICK place :
        /\ Continue(place)
        /\ outcome = "parsing" /\ token \notin Open \cup Close
        /\ top \in DocumentPlace => place \in DocumentPlace
        /\ top \in ArrayPlace \cup TablePlace => place \in ArrayPlace \cup TablePlace
        /\ Len(calls) = 1 => (context = "Value" <=> place = "value")
        /\ Len(calls) > 1 => context = "Value"
  BY ParsingFacts
  DEF NextItem, At, isKey, ContextAhead, AwaitsValue, Open, Close, ValueToken,
      DocumentPlace, ArrayPlace, TablePlace
<1>2. (Len(calls) = 1 \/ Len(calls) > 1) /\ ~(Len(calls) = 1 /\ Len(calls) > 1)
  BY <1>1, ParsingFacts, OneOrMore
<1>3. context = "Value" <=> Len(calls) > 1 \/ place = "value"
  BY <1>1, <1>2
<1> QED
  BY <1>1, <1>3, ContinueStep

\* A statement ends; its last token is left to parseDocument.
LEMMA EndStatementStep ==
  ASSUME IndInv, UNCHANGED specification, EndStatement
  PROVE  IndInv'
<1>1. /\ outcome = "parsing" /\ top = "statementEnd"
      /\ token \in {"NewLine", "EndOfDocument"}
      /\ calls' = ReturnTo("statement")
      /\ UNCHANGED <<ahead, taken, context, nesting, token, outcome>>
  BY DEF EndStatement, At
<1>2. /\ Len(calls) \in Nat \ {0} /\ calls \in Seq(Place)
      /\ Len(calls) > 1 => top \in ArrayPlace \cup TablePlace
      /\ context = "Value" <=> AwaitsValue
      /\ nesting = Len(calls) - 1
      /\ context \in {"Structure", "Value"}
  BY <1>1, ParsingFacts DEF IndInv, TypeOK, ContextAhead, NestingAhead, ValueToken, Open, Close
<1>3. Len(calls) = 1 /\ context = "Structure" /\ nesting = 0
  <2>1. ~(Len(calls) > 1)
    BY <1>1, <1>2 DEF ArrayPlace, TablePlace
  <2> QED
    BY <1>1, <1>2, <2>1 DEF AwaitsValue
<1>4. calls' = <<"statement">>
  BY <1>1, <1>2, <1>3 DEF ReturnTo
<1>5. calls' \in Seq(Place)
  BY <1>4 DEF Place, DocumentPlace
<1>6. TypeOK'
  BY <1>1, <1>5 DEF IndInv, TypeOK
<1>7. CallsNested' /\ Len(calls') <= NestingLimit + 1
  BY <1>4, NestingLimitAssumption DEF CallsNested, DocumentPlace
<1>8. NestingAhead' /\ ContextAhead'
  <2>1. Len(calls') = 1 /\ top' = "statement"
    BY <1>4 DEF top
  <2>2. ~AwaitsValue'
    BY <2>1 DEF AwaitsValue
  <2>3. token' \in {"NewLine", "EndOfDocument"} /\ context' = "Structure" /\ nesting' = 0
    BY <1>1, <1>3
  <2> QED
    BY <2>1, <2>2, <2>3 DEF NestingAhead, ContextAhead, Open, Close, ValueToken
<1>9. LimitIsNesting'
  BY <1>1 DEF LimitIsNesting
<1> QED
  BY <1>6, <1>7, <1>8, <1>9 DEF IndInv

\* parseValue calls parseArrayValue or parseInlineTableValue: the parser has
\* caught up with the bracket that the tokenizer has counted.
LEMMA OpenValueStep ==
  ASSUME IndInv, UNCHANGED specification, OpenValue
  PROVE  IndInv'
<1>1. PICK first \in {"arrayItem", "inlineKey"} :
        /\ outcome = "parsing" /\ token \in Open
        /\ top \in DOMAIN AfterValue
        /\ calls' = Append(ReturnTo(AfterValue[top]), first)
        /\ token' = "none"
        /\ UNCHANGED <<ahead, taken, context, nesting, outcome>>
  BY DEF OpenValue, At, Open
<1>2. /\ Len(calls) \in Nat \ {0} /\ calls \in Seq(Place)
      /\ nesting = Len(calls) /\ nesting <= NestingLimit
      /\ context = "Value"
  <2>1. context = "Value" <=> AwaitsValue
    BY <1>1, ParsingFacts DEF ContextAhead, Open, Close, ValueToken
  <2>2. top = "value" \/ top \in ArrayPlace \cup TablePlace
    BY <1>1 DEF AfterValue, ArrayPlace, TablePlace
  <2>3. AwaitsValue
    <3>1. Len(calls) = 1 \/ Len(calls) > 1
      BY <1>1, ParsingFacts, OneOrMore
    <3> QED
      BY <1>1, <2>2, <3>1, ParsingFacts, PlacesDisjoint DEF AwaitsValue
  <2> QED
    BY <1>1, <2>1, <2>3, ParsingFacts DEF NestingAhead
<1>3. /\ AfterValue[top] \in Place
      /\ Len(calls) = 1 => AfterValue[top] = "statementEnd"
      /\ Len(calls) > 1 => AfterValue[top] \in ArrayPlace \cup TablePlace
  BY <1>1, <1>2, ParsingFacts DEF AfterValue, Place, DocumentPlace, ArrayPlace, TablePlace
<1>4. /\ calls' \in Seq(Place)
      /\ Len(calls') = Len(calls) + 1
      /\ calls'[Len(calls) + 1] = first
      /\ calls'[Len(calls)] = AfterValue[top]
      /\ \A i \in 1..Len(calls) : i # Len(calls) => calls'[i] = calls[i]
  BY <1>1, <1>2, <1>3 DEF ReturnTo, Place, ArrayPlace, TablePlace
<1>5. TypeOK'
  BY <1>1, <1>4 DEF IndInv, TypeOK
<1>6. CallsNested'
  <2>1. calls' # <<>>
    BY <1>2, <1>4
  <2>2. ASSUME NEW i \in 1..Len(calls')
        PROVE  /\ i = 1 => calls'[i] \in DocumentPlace
               /\ i > 1 => calls'[i] \in ArrayPlace \cup TablePlace
               /\ i = 1 /\ i < Len(calls') => calls'[i] = "statementEnd"
    <3>1. CASE i = Len(calls) + 1
      BY <1>2, <1>4, <3>1 DEF ArrayPlace, TablePlace
    <3>2. CASE i = Len(calls)
      BY <1>2, <1>3, <1>4, <3>2 DEF DocumentPlace
    <3>3. CASE i \in 1..Len(calls) /\ i # Len(calls)
      BY <1>2, <1>4, <3>3 DEF IndInv, CallsNested
    <3> QED
      BY <1>2, <1>4, <2>2, <3>1, <3>2, <3>3
  <2> QED
    BY <2>1, <2>2 DEF CallsNested
<1>7. Len(calls') <= NestingLimit + 1
  BY <1>2, <1>4, NestingLimitAssumption
<1>8. NestingAhead' /\ ContextAhead'
  BY <1>1, <1>2, <1>4
  DEF NestingAhead, ContextAhead, AwaitsValue, Open, Close, ValueToken
<1>9. LimitIsNesting'
  BY <1>1 DEF LimitIsNesting
<1> QED
  BY <1>5, <1>6, <1>7, <1>8, <1>9 DEF IndInv

\* parseArrayValue or parseInlineTableValue returns: its caller goes on in the
\* context that the tokenizer has already chosen.
LEMMA CloseValueStep ==
  ASSUME IndInv, UNCHANGED specification, CloseValue
  PROVE  IndInv'
<1>1. /\ outcome = "parsing" /\ token \in Close
      /\ top \in ArrayPlace \cup TablePlace
      /\ calls' = SubSeq(calls, 1, Len(calls) - 1)
      /\ token' = "none"
      /\ UNCHANGED <<ahead, taken, context, nesting, outcome>>
  BY DEF CloseValue, At, Close, TablePlace
<1>2. /\ Len(calls) \in Nat /\ Len(calls) > 1 /\ calls \in Seq(Place)
      /\ nesting = Len(calls) - 2
      /\ context = "Value" <=> Len(calls) # 2
  <2>1. Len(calls) # 1
    BY <1>1, ParsingFacts, PlacesDisjoint
  <2> QED
    <3>1. Len(calls) \in Nat \ {0} /\ calls \in Seq(Place) /\ Len(calls) > 1
      BY <1>1, <2>1, ParsingFacts, OneOrMore
    <3>2. nesting = Len(calls) - 2 /\ (context = "Value" <=> Len(calls) # 2)
      BY <1>1, ParsingFacts DEF NestingAhead, ContextAhead, Close
    <3> QED
      BY <3>1, <3>2
<1>3. /\ calls' \in Seq(Place)
      /\ Len(calls') = Len(calls) - 1
      /\ \A i \in 1..(Len(calls) - 1) : calls'[i] = calls[i]
  BY <1>1, <1>2
<1>4. TypeOK'
  BY <1>1, <1>3 DEF IndInv, TypeOK
<1>5. CallsNested' /\ Len(calls') <= NestingLimit + 1
  BY <1>2, <1>3, NestingLimitAssumption DEF IndInv, CallsNested
<1>6. Len(calls') = 1 => calls'[1] = "statementEnd"
  BY <1>2, <1>3 DEF IndInv, CallsNested
<1>7. NestingAhead'
  BY <1>1, <1>2, <1>3 DEF NestingAhead, Open, Close
<1>8. ContextAhead'
  BY <1>1, <1>2, <1>3, <1>6 DEF ContextAhead, AwaitsValue, top, Close, ValueToken
<1>9. LimitIsNesting'
  BY <1>1 DEF LimitIsNesting
<1> QED
  BY <1>4, <1>5, <1>7, <1>8, <1>9 DEF IndInv

\* The end of the parse, with or without an error, leaves everything as it is.
LEMMA EndStep ==
  ASSUME IndInv, UNCHANGED specification, EndOfDocument \/ Unexpected
  PROVE  IndInv'
<1>1. /\ outcome' \in {"ok", "syntax"}
      /\ UNCHANGED <<ahead, taken, context, nesting, token, calls>>
  BY DEF EndOfDocument, Unexpected, Fail
<1>2. TypeOK' /\ CallsNested' /\ Len(calls') <= NestingLimit + 1
  BY <1>1 DEF IndInv, TypeOK, CallsNested
<1> QED
  BY <1>1, <1>2 DEF IndInv, LimitIsNesting

----------------------------------------------------------------------------
\* The invariant holds before the first parse.
LEMMA InitInvariant ==
  ASSUME Init
  PROVE  IndInv
<1>1. TypeOK
  <2>1. "statement" \in Place /\ "end" \in Lexeme
    BY DEF Place, DocumentPlace, Lexeme
  <2> QED
    BY <2>1, NestingLimitAssumption DEF Init, TypeOK
<1>2. CallsNested /\ Len(calls) <= NestingLimit + 1
  BY NestingLimitAssumption DEF Init, CallsNested, DocumentPlace
<1>3. outcome # "parsing" /\ LimitIsNesting
  BY DEF Init, LimitIsNesting
<1> QED
  BY <1>1, <1>2, <1>3 DEF IndInv

\* Whatever an earlier parse has left behind, the invariant holds when
\* parseStream starts the tokenizer again.
LEMMA StartStep ==
  ASSUME IndInv, UNCHANGED specification, Start
  PROVE  IndInv'
<1>1. TypeOK'
  <2>1. "statement" \in Place
    BY DEF Place, DocumentPlace
  <2>2. ahead' \in Lexeme
    BY OfferedAssumption DEF Start, Lexeme
  <2> QED
    BY <2>1, <2>2, NestingLimitAssumption DEF Start, IndInv, TypeOK
<1>2. CallsNested' /\ Len(calls') <= NestingLimit + 1
  BY NestingLimitAssumption DEF Start, CallsNested, DocumentPlace
<1>3. NestingAhead' /\ ContextAhead' /\ LimitIsNesting'
  BY DEF Start, NestingAhead, ContextAhead, AwaitsValue, top, Open, Close, ValueToken,
         LimitIsNesting
<1> QED
  BY <1>1, <1>2, <1>3 DEF IndInv

\* Every step of the tokenizer and of the parser preserves the invariant.
LEMMA NextInvariant ==
  ASSUME IndInv, [Next]_vars
  PROVE  IndInv'
<1>1. CASE Tokenize /\ UNCHANGED specification
  BY <1>1, ReadEndOfDocumentStep, ReadWhiteSpaceStep, ReadNewLineStep, ReadStructureMarkStep,
     ReadStructureStringStep, ReadStructureNameStep, ReadStructureBracketStep,
     ReadSecondBracketStep, ReadStructureOtherStep, ReadValueMarkStep, ReadValueStringStep,
     ReadValueBeginStep, ReadValueEndStep, ReadValueWordStep, ReadIntegerStep,
     ReadFractionStep
  DEF Tokenize
<1>2. CASE Parse /\ UNCHANGED specification
  BY <1>2, SkipNewLineStep, BeginAssignmentStep, BeginHeaderStep, EndStep, EndStatementStep,
     ReadKeyStep, ReadSeparatorStep, EndNameStep, ReadScalarStep, OpenValueStep,
     CloseValueStep, SkipNewLineInValueStep, NextItemStep
  DEF Parse
<1>3. CASE UNCHANGED vars
  BY <1>3
  DEF vars, IndInv, TypeOK, CallsNested, NestingAhead, ContextAhead, AwaitsValue, top,
      LimitIsNesting
<1>4. CASE Start /\ UNCHANGED specification
  BY <1>4, StartStep
<1> QED
  BY <1>1, <1>2, <1>3, <1>4 DEF Next

\* The inductive invariant holds in every state of every parse.
THEOREM SyntaxInvariance == Spec => []IndInv
BY InitInvariant, NextInvariant, PTL DEF Spec

\* Every variable keeps its type: in particular the counter of the tokenizer,
\* an int32_t, stays within one of the limits 0 and NestingLimit.
THEOREM SyntaxTypeCorrect == Spec => []TypeOK
<1>1. IndInv => TypeOK
  BY DEF IndInv
<1> QED
  BY <1>1, SyntaxInvariance, PTL

\* The tokenizer reads a name where the parser expects one, and a value where
\* it expects a value, at every depth of arrays and inline tables.
THEOREM ContextsAgree == Spec => []ContextInSync
<1>1. IndInv => ContextInSync
  BY DEF IndInv, ContextInSync, ContextAhead, ValueToken, Close
<1> QED
  BY <1>1, SyntaxInvariance, PTL

\* The tokenizer's count is the depth of the parser's recursion, which is
\* therefore bounded by the tokenizer's limit.
THEOREM RecursionBounded == Spec => []NestingCounted
<1>1. IndInv => NestingCounted
  BY DEF IndInv, NestingCounted, NestingAhead, Open, Close
<1> QED
  BY <1>1, SyntaxInvariance, PTL

\* The nesting error is raised only at the limit.
THEOREM LimitReached == Spec => []LimitIsNesting
<1>1. IndInv => LimitIsNesting
  BY DEF IndInv
<1> QED
  BY <1>1, SyntaxInvariance, PTL

=============================================================================
