------------------------------ MODULE MCSyntax ------------------------------
(* The lexemes offered when model checking SyntaxAgainstToml. *)
EXTENDS SyntaxAgainstToml

Everything == Lexeme \ {"end"}
Headers == {"word", "[", "]"}
=============================================================================
