------------------------- MODULE ParserDataInvariant -------------------------
(***************************************************************************)
(* Why the parts of the parser work together: what the tokenizer, the      *)
(* recursive descent and the tree rely on in each other.  Module           *)
(* ParserDataProofs proves it for all documents.                           *)
(***************************************************************************)
EXTENDS ParserData, TokenizerInvariant

\* The tokenizer, that counts the brackets of the text it reads, and the recursive
\* descent agree at every token on the context and on the depth
\* (Tokenizer.cpp:46-89, ParserData.cpp:253-489).
TokenizerInSync == Syn!ContextInSync /\ Syn!NestingCounted

-------------------------------------------------------------------------------
(* The inductive invariant.                                                *)

\* Where a name can end, and where the callers of an activation go on.
NameEnds == {"tableNameEnd", "arrayNameEnd", "keyEnd", "inlineKeyEnd"}
AfterValues == {"statementEnd", "arrayItemEnd", "inlineEntryEnd"}

\* A name that can end has keys; no other activation is inside of a name.
NamesHaveKeys ==
    /\ keys \in Seq(Token)
    /\ calls[Len(calls)] \in NameEnds => keys # <<>>
    /\ \A i \in DOMAIN calls : i # Len(calls) => calls[i] \in AfterValues

ParserInv ==
    /\ TokenInv
    /\ Syn!IndInv
    /\ current # "none" => tokens # <<>>
    /\ NamesHaveKeys

===============================================================================
