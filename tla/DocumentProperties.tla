------------------------- MODULE DocumentProperties -------------------------
(***************************************************************************)
(* What the parser promises about the trees it builds (module Document).   *)
(***************************************************************************)
EXTENDS Document

----------------------------------------------------------------------------
\* The shape of the heap.

Children(h, n) ==
    ({h[n].entries[k] : k \in Key} \cup {h[n].items[i] : i \in DOMAIN h[n].items})
    \ {Null}

\* The nodes that can be reached from the nodes in S, S included.
Reach(h, S) ==
    LET Closure[T \in SUBSET Node] ==
          LET U == T \cup (UNION {Children(h, n) : n \in T})
          IN  IF U = T THEN T ELSE Closure[U]
    IN  Closure[S]

\* The places a value is stored at: the entries of tables, the items of arrays.
Places(h, n) ==
    {place \in Node \X Key : h[place[1]].entries[place[2]] = n} \cup
    (UNION {{<<p, i>> : i \in {j \in DOMAIN h[p].items : h[p].items[j] = n}} : p \in Node})

OpenNodes == {frames[i].node : i \in DOMAIN frames} \ {Null}

\* Values that are complete: everything at or below a value of Source::Value
\* that no activation of parseValue is still filling.
Sealed ==
    Reach(heap, {n \in Node : /\ heap[n].type # "Free"
                              /\ heap[n].source = "Value"
                              /\ n \notin OpenNodes})

\* The values of the document being parsed: created after its root.
OfThisParse == {n \in Node : outcome = "parsing" /\ n \in document..used}

----------------------------------------------------------------------------
\* The two std::logic_error of createIntermediateNameElements are never
\* thrown: whatever the document, an array of tables has a last element and
\* that element is a table (ParserData.cpp:224-233).
NoLogicError == outcome # "logic"

\* setValue and addValue silently ignore a receiver or a value of the wrong
\* type (Value.cpp:88-108).  The parser never falls into that: the place it
\* is about to store something at always takes it.
NothingIgnored ==
    /\ Walking => isTable(heap, walk.at)
    /\ InValue /\ top.kind = "array" => heap[top.node].source = "Value" /\ isArray(heap, top.node)
    /\ AtStatement => isTable(heap, currentTable)
    /\ \A n \in Node : isArray(heap, n) /\ heap[n].source # "Value" =>
          /\ heap[n].items # <<>>
          /\ \A i \in DOMAIN heap[n].items : isTable(heap, heap[n].items[i])

\* A document is a tree (the note in Value.hpp:37-38 that only trees are
\* built): no value is stored at two places, none contains itself, and the
\* root is stored nowhere.
DocumentIsTree ==
    /\ \A n \in 1..used : Cardinality(Places(heap, n)) <= 1
    /\ \A n \in 1..used : n \notin Reach(heap, Children(heap, n))
    /\ \A r \in (returned \cup {document}) \ {Null} : Places(heap, r) = {}

\* Nothing that was parsed is lost: between two statements every value the
\* parse has created hangs in the document, the table for the next
\* assignments included.
NothingLost ==
    AtStatement => OfThisParse \cup {currentTable} \subseteq Reach(heap, {document})

\* No table is defined twice: a header never makes a table current that was
\* current before, in this document or another (ParserData.cpp:148-205).
NoTableDefinedTwice ==
    \A i, j \in DOMAIN sections : sections[i] = sections[j] => i = j

\* A dotted key of a document-level assignment extends only tables that dotted
\* keys of the same section have created; the tables and values other sections
\* have defined stay out of its reach (ParserData.cpp:234-238).
DottedKeysStayInSection ==
    Walking /\ walk.goal = "assign" /\ walk.at # currentTable =>
        /\ heap[walk.at].source \in DottedSource
        /\ birth[walk.at] = section

\* insert_or_assign never replaces anything and no array ever shrinks or
\* changes an item: a step only adds to the tree (Value.cpp:101-108).
OnlyAdded ==
    \A n \in Node :
        /\ \A k \in Key : heap[n].entries[k] # Null =>
              heap'[n].entries[k] = heap[n].entries[k]
        /\ \A i \in DOMAIN heap[n].items :
              i \in DOMAIN heap'[n].items /\ heap'[n].items[i] = heap[n].items[i]

NothingOverwritten == [][OnlyAdded]_vars

\* An array or inline table that is complete is never changed again, neither
\* by a later dotted key nor by a later header: TOML calls inline tables
\* self-contained (ParserData.cpp:220-222, 155-157, 187-189).
CompleteValuesStay == [][\A n \in Sealed : heap'[n] = heap[n]]_vars

\* A document that was returned belongs to the caller: no later use of the
\* same parser changes any value of it, though _currentTable and the last
\* token still refer to the document before (ParserData.cpp:27, 43-44).
ReturnedDocumentsStay ==
    [][Next => \A n \in Reach(heap, returned) : heap'[n] = heap[n]]_vars

=============================================================================
