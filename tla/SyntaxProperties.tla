-------------------------- MODULE SyntaxProperties --------------------------
(***************************************************************************)
(* The tokenizer and the parser of module Syntax agree on where they are,  *)
(* although neither tells the other.                                       *)
(***************************************************************************)
EXTENDS Syntax

\* The parser is inside a value of the document or waits for one.
AwaitsValue == Len(calls) > 1 \/ top = "value"

\* The tokenizer, which only counts brackets, is in the context of values
\* exactly while the parser is inside a value or waits for one.
ContextInSync ==
    outcome = "parsing" /\ token = "none" =>
        (context = "Value" <=> AwaitsValue)

\* The count of the tokenizer is the depth of the parser's recursion, so that
\* the tokenizer's limit bounds the parser's stack.
NestingCounted ==
    /\ outcome = "parsing" /\ token = "none" => nesting = Len(calls) - 1
    /\ Len(calls) <= NestingLimit + 1

\* A document is rejected for its nesting only if it is nested deeper than
\* the limit.
LimitIsNesting == outcome = "limit" => Len(calls) = NestingLimit + 1

----------------------------------------------------------------------------
\* The strengthening that makes the properties above inductive.

Open  == {"ArrayBegin", "TableBegin"}
Close == {"ArrayEnd", "TableEnd"}

\* Only the activation that reads the document is at a place of the document;
\* the ones that have called another go on after the value.
CallsNested ==
    /\ calls # <<>>
    /\ \A i \in 1..Len(calls) :
          /\ i = 1 => calls[i] \in DocumentPlace
          /\ i > 1 => calls[i] \in ArrayPlace \cup TablePlace
          /\ i = 1 /\ i < Len(calls) => calls[i] = "statementEnd"

\* The tokenizer counts a bracket when it reads it, the parser when it takes
\* the token.
NestingAhead ==
    /\ token \in Open => nesting = Len(calls) /\ nesting <= NestingLimit
    /\ token \in Close => nesting = Len(calls) - 2
    /\ token \notin Open \cup Close => nesting = Len(calls) - 1

\* The tokenizer changes its context with the token, the parser its place after
\* it has taken the token.
ContextAhead ==
    /\ token = "Assignment" => context = "Value"
    /\ token \in ValueToken => (context = "Value" <=> Len(calls) > 1)
    /\ token \in Close => (context = "Value" <=> Len(calls) # 2)
    /\ token \notin {"Assignment"} \cup ValueToken \cup Close =>
          (context = "Value" <=> AwaitsValue)

IndInv ==
    /\ TypeOK
    /\ CallsNested
    /\ Len(calls) <= NestingLimit + 1
    /\ outcome = "parsing" => NestingAhead /\ ContextAhead
    /\ LimitIsNesting

=============================================================================
