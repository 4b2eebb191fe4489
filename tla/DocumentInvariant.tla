------------------------- MODULE DocumentInvariant --------------------------
(***************************************************************************)
(* The inductive invariant of Document: why an array of tables is never    *)
(* empty, why a path never walks into a foreign section and why nothing is *)
(* overwritten.  TLC checks it as an invariant of the instances of         *)
(* MCDocument; module DocumentProofs proves it for all of them.            *)
(***************************************************************************)
EXTENDS DocumentProperties

----------------------------------------------------------------------------
\* Parts that speak of a heap h alone, of the number u of its cells in use, and
\* of the histories b (birth) and s (sections).

\* Cells are used in order, and nothing points to a cell that is not in use.
CellsInUse(h, u) ==
    /\ \A n \in Node : h[n].type = "Free" <=> n > u
    /\ \A n \in Node : n > u =>
          h[n].items = <<>> /\ \A k \in Key : h[n].entries[k] = Null
    /\ \A n \in Node, k \in Key : h[n].entries[k] <= u
    /\ \A n \in Node : \A i \in DOMAIN h[n].items : h[n].items[i] <= u

\* Only arrays and tables have a source other than Value.
SourcesFit(h) ==
    \A n \in Node : h[n].source # "Value" => isTable(h, n) \/ isArray(h, n)

\* An array of tables has at least one element, and tables only.
ArraysOfTables(h) ==
    \A n \in Node : isArray(h, n) /\ h[n].source # "Value" =>
        /\ h[n].items # <<>>
        /\ \A i \in DOMAIN h[n].items : isTable(h, h[n].items[i])

\* A table c made by a dotted key hangs below the table p of the section that
\* made it, or below a table that came into being in the same section by a
\* dotted key or as an inline table.
Linked(h, b, s, p, c) ==
    h[c].source \in DottedSource =>
        /\ h[p].source = "ExplicitTable" => b[c] \in DOMAIN s /\ s[b[c]] = p
        /\ h[p].source # "ExplicitTable" =>
              h[p].source \in DottedSource \cup {"Value"} /\ b[p] = b[c]

DottedTablesLinked(h, b, s) ==
    \A p \in Node, k \in Key :
        h[p].entries[k] # Null => Linked(h, b, s, p, h[p].entries[k])

HeapInv ==
    /\ CellsInUse(heap, used)
    /\ SourcesFit(heap)
    /\ ArraysOfTables(heap)
    /\ DottedTablesLinked(heap, birth, sections)

----------------------------------------------------------------------------
\* Every table that ever was current is an explicit table and became current
\* once; the latest is _currentTable.
SectionInv ==
    /\ \A i \in DOMAIN sections :
          /\ sections[i] <= used
          /\ isTable(heap, sections[i])
          /\ heap[sections[i]].source = "ExplicitTable"
    /\ NoTableDefinedTwice
    /\ outcome = "parsing" =>
          /\ document # Null /\ document <= used /\ isTable(heap, document)
          /\ sections # <<>> /\ currentTable = sections[section]

\* The value on its way to its place, and the values being filled.
ValueInv ==
    /\ outcome # "parsing" => frames = <<>>
    /\ value # Null => value <= used /\ heap[value].source = "Value"
    /\ \A i \in DOMAIN frames : frames[i].kind # "assign" =>
          LET n == frames[i].node
          IN  /\ n # Null /\ n <= used /\ birth[n] = section
              /\ heap[n].source = "Value"
              /\ frames[i].kind = "array" => isArray(heap, n)
              /\ frames[i].kind = "inline" => isTable(heap, n)

\* The walk stands on a table; for a value, on one of its own section.
WalkInv ==
    walk.goal # "none" =>
        /\ outcome = "parsing"
        /\ walk.pos >= 1
        /\ walk.at # Null /\ walk.at <= used /\ isTable(heap, walk.at)
        /\ isValueAssignment <=> frames # <<>>
        /\ walk.goal = "assign" =>
              \/ walk.at = currentTable
              \/ heap[walk.at].source \in DottedSource /\ birth[walk.at] = section
        /\ walk.goal = "inline" =>
              heap[walk.at].source \in DottedSource \cup {"Value"} /\ birth[walk.at] = section

IndInv ==
    /\ TypeOK
    /\ HeapInv
    /\ SectionInv
    /\ ValueInv
    /\ WalkInv
    /\ NoLogicError

=============================================================================
