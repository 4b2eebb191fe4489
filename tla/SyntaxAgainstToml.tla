------------------------ MODULE SyntaxAgainstToml ------------------------
(***************************************************************************)
(* The parser of module Syntax and the grammar of module TomlGrammar read  *)
(* the same document, lexeme by lexeme: does the parser accept what the    *)
(* grammar describes?                                                      *)
(***************************************************************************)
EXTENDS SyntaxProperties

Toml == INSTANCE TomlGrammar

VARIABLES
    viable,     \* what the grammar allows after the lexemes taken
    last        \* the lexeme taken last, for the properties only

\* A step of the parser, followed by the grammar.
Follows(step) ==
    /\ step
    /\ UNCHANGED specification
    /\ IF taken' = taken
         THEN UNCHANGED <<viable, last>>
         ELSE viable' = Toml!Advance(specification, viable, ahead) /\ last' = ahead

ComparedInit == Init /\ viable = Toml!Start /\ last = "end"

ComparedStart ==
    /\ Start
    /\ UNCHANGED specification
    /\ viable' = Toml!Start
    /\ last' = "end"

ComparedStep == Follows(Tokenize) \/ Follows(Parse)

ComparedNext == ComparedStart \/ ComparedStep

\* One call of parseStream runs in one thread to its end: nothing but the code
\* itself could keep it from taking the next step.  Nobody has to call it.
ComparedSpec ==
    /\ ComparedInit
    /\ [][ComparedNext]_<<vars, viable, last>>
    /\ WF_<<vars, viable, last>>(ComparedStep)

----------------------------------------------------------------------------
\* A document the parser accepts is one that the grammar describes: the
\* contexts of the tokenizer, the lookahead of the parser and the places
\* where new lines are skipped let nothing else pass.
AcceptsOnlyToml == outcome = "ok" => ahead = "end" /\ Toml!Complete(specification, viable)

\* A document the parser rejects cannot be completed to one that the grammar
\* describes.  The error is found at the last lexeme taken or at the one ahead.
RejectsOnlyNonToml ==
    outcome = "syntax" =>
        IF ahead = "end" THEN ~Toml!Complete(specification, viable) ELSE Toml!Advance(specification, viable, ahead) = {}

\* A header in the last line of a document that has no new line after it.
HeaderAtEnd ==
    /\ ahead = "end"
    /\ context = "Structure"
    /\ calls \in {<<"tableName">>, <<"tableNameEnd">>, <<"arrayName">>, <<"arrayNameEnd">>}

\* A key of an inline table that the tokenizer, in the context of values, has
\* read as a value or as the integer part of a float.
KeyReadAsValue ==
    /\ top \in {"inlineKey", "inlineNextKey", "inlineKeyPart"}
    /\ last \in {"integer", "literal"} \/ token = "HalfFraction"

\* The same, but for a header that ends with the document and for the keys of
\* inline tables that look like numbers, dates, true, false, inf or nan.
RejectsLittleToml == RejectsOnlyNonToml \/ HeaderAtEnd \/ KeyReadAsValue

\* Every parse comes to an end: no token is looked at for ever.
Terminates == outcome = "parsing" ~> outcome # "parsing"

=============================================================================
