--------------------------- MODULE MCDocumentUse ---------------------------
(***************************************************************************)
(* Instances of DocumentUse for TLC: a plain key and one with a dot.       *)
(***************************************************************************)
EXTENDS DocumentUseProperties

CONSTANTS
    MaxPath,        \* bound: number of keys in a path
    plain, dotted   \* the keys a and "a.a"

MCPath == UNION {[1..n -> Key] : n \in 1..MaxPath}

MCParts == [k \in Key |-> IF k = dotted THEN <<"a", "a">> ELSE <<"a">>]

=============================================================================
