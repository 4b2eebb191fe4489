------------------------- MODULE DocumentRefinement -------------------------
(***************************************************************************)
(* The tree-building parser (Document) implements the rules for tables     *)
(* (TableRules): what it accepts, rejects and builds is what the rules say.*)
(***************************************************************************)
EXTENDS Document

\* The statement being processed: an assignment is known by its outermost
\* activation, a header by its walk.
pendingStatement ==
    IF frames # <<>>
      THEN [goal |-> "assign", keys |-> frames[1].keys]
      ELSE [goal |-> walk.goal, keys |-> walk.keys]

\* The tables a walk has created so far are no part of the document before
\* the statement takes effect.
Visible(n) == n # Null /\ (Walking /\ walk.goal # "inline" => n <= walk.mark)

kind(n) ==
    CASE heap[n].source = "Value"         -> "value"
      [] isArray(heap, n)                 -> "tables"
      [] heap[n].source = "ImplicitTable" -> "implied"
      [] heap[n].source = "ExplicitTable" -> "table"
      [] OTHER                            -> "dotted"

\* The paths of the document at and below the node n, which is at `path'.
\* Arrays and tables of Source::Value are leaves.
RECURSIVE PathsBelow(_, _)
PathsBelow(path, n) ==
    LET names   == {k \in Key : Visible(heap[n].entries[k])}
        numbers == {i \in DOMAIN heap[n].items : Visible(heap[n].items[i])}
    IN  {path} \cup
        IF heap[n].source = "Value" THEN {}
        ELSE UNION {PathsBelow(Append(path, k), heap[n].entries[k]) : k \in names} \cup
             UNION {PathsBelow(Append(path, <<i>>), heap[n].items[i]) : i \in numbers}

paths == IF document = Null THEN {} ELSE PathsBelow(<<>>, document)

NodeAt(path) ==
    LET After[i \in 0..Len(path)] ==
          IF i = 0 THEN document
          ELSE LET n == After[i - 1]
               IN  IF isArray(heap, n) THEN heap[n].items[path[i][1]]
                                       ELSE heap[n].entries[path[i]]
    IN  After[Len(path)]

Rules == INSTANCE TableRules WITH
    Statement <- [goal : {"table", "tableArray", "assign"}, keys : Path],
    doc       <- [p \in paths |-> kind(NodeAt(p))],
    section   <- IF paths = {} THEN <<>>
                 ELSE CHOOSE p \in paths : NodeAt(p) = currentTable,
    pending   <- pendingStatement,
    result    <- outcome

\* The parser accepts a statement exactly when the rules for tables allow it,
\* and the tree it builds is the one they describe (ParserData.cpp:148-250,
\* 492-501).
ImplementsTableRules == Rules!Spec

=============================================================================
