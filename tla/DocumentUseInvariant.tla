------------------------ MODULE DocumentUseInvariant ------------------------
(***************************************************************************)
(* The inductive invariant of DocumentUse: why a program that changes the  *)
(* documents it was given disturbs neither the parser nor itself.          *)
(*                                                                         *)
(* What the parser relies on (DocumentInvariant, DocumentTree) does not    *)
(* hold for values the program has changed; it may well store a value in   *)
(* an array of tables that no header has made.  But the parser looks at    *)
(* the values of its own parse only.  So these invariants are stated for   *)
(* the heap as the parser sees it (`View'), where every value of an        *)
(* earlier time is an empty table.                                         *)
(***************************************************************************)
EXTENDS DocumentUseProperties, DocumentTree

----------------------------------------------------------------------------
\* The heap with everything before the node d hidden.
Hidden == NewTable("ExplicitTable")
ViewOf(h, d) == [n \in Node |-> IF n < d THEN Hidden ELSE h[n]]

\* The values that were there when the parse began, and what the parser sees.
Earlier == {n \in Node : n < document}
View == ViewOf(heap, document)

\* The parser at work on what it sees: the earlier values are out of its reach
\* like documents it has returned.
Seen == INSTANCE DocumentTree WITH heap <- View, returned <- Earlier

----------------------------------------------------------------------------
\* Parts that speak of a heap h alone.

\* Arrays of tables hold tables, and only arrays have elements.
TablesOnly(h) ==
    \A n \in Node : isArray(h, n) /\ h[n].source = "ExplicitTable" =>
        \A i \in DOMAIN h[n].items : isTable(h, h[n].items[i])

ItemsOfArrays(h) == \A n \in Node : ~isArray(h, n) => h[n].items = <<>>

HeapFits(h, u) ==
    /\ CellsInUse(h, u)
    /\ SourcesFit(h)
    /\ OnePlace(h)
    /\ NoCycle(h)
    /\ TablesOnly(h)
    /\ ItemsOfArrays(h)

\* Nothing before d refers to d or to anything behind it.
ClosedBefore(h, d) == \A n \in Node : n < d => \A c \in Children(h, n) : c < d

----------------------------------------------------------------------------
\* The trees of the program.
RootsLoose ==
    /\ held \subseteq 1..used
    /\ returned \subseteq 1..used
    /\ held \cap returned = {}
    /\ \A r \in Roots : Places(heap, r) = {}

\* Between two parses nothing is left of the last one.
NothingLeft ==
    outcome # "parsing" =>
        document = Null /\ frames = <<>> /\ value = Null /\ walk.goal = "none"

\* Tables that were made current, in this parse or before.
SectionsPast == \A i \in DOMAIN sections : sections[i] <= used

\* The parser and what it does not see.
ParserApart ==
    outcome = "parsing" =>
        /\ Seen!TreeInv
        /\ ClosedBefore(heap, document)
        /\ Roots \subseteq Earlier
        /\ loop.at.value < document

\* The elements a loop has not reached yet are still where they were.
LoopInPlace ==
    /\ loop \in [at : Iterator, last : Iterator, seen : Seq(Node), was : Seq(Node)]
    /\ loop.at.value = loop.last.value
    /\ loop.at.index <= loop.last.index /\ loop.last.index = Len(loop.was)
    /\ loop.seen = SubSeq(loop.was, 1, loop.at.index)
    /\ loop.at.value = Null => loop.was = <<>>
    /\ loop.at.value # Null =>
          /\ loop.at.value <= used
          /\ isArray(heap, loop.at.value)
          /\ \A i \in DOMAIN loop.was :
                /\ i \in DOMAIN heap[loop.at.value].items
                /\ heap[loop.at.value].items[i] = loop.was[i]

UseInv ==
    /\ TypeOK
    /\ HeapFits(heap, used)
    /\ RootsLoose
    /\ NothingLeft
    /\ SectionsPast
    /\ NoTableDefinedTwice
    /\ NoLogicError
    /\ ParserApart
    /\ LoopInPlace

----------------------------------------------------------------------------
\* Where the values of a document are: why each is found by its keys.

\* The keys lead from the table r to n through tables alone.
Leads(h, r, keys, n) ==
    \E at \in [0..Len(keys) -> Node] :
        /\ at[0] = r /\ at[Len(keys)] = n
        /\ \A i \in 1..Len(keys) : isTable(h, at[i - 1]) /\ h[at[i - 1]].entries[keys[i]] = at[i]

\* The value is one of the elements of an array, or below one.
InArray(h, n) ==
    \E a \in Node : \E i \in DOMAIN h[a].items : n \in Reach(h, {h[a].items[i]})

\* The keys name the value n of the document d, with the arrays of tables ls.
Named(h, d, ls, keys, n) ==
    IF Prefixes(keys) \cap ls = {} THEN Leads(h, d, keys, n) ELSE InArray(h, n)

\* The keys noted for arrays of tables lead to arrays, and every array of
\* tables of the document has been noted.
NotedAreArrays(h, d, ls) ==
    \A keys \in ls : Prefixes(keys) \cap ls = {keys} =>
        \E n \in Node : isArray(h, n) /\ Leads(h, d, keys, n)

ArraysAreNoted(h, d, ls) ==
    \A n \in Node : n >= d /\ isArray(h, n) /\ h[n].source # "Value" =>
        InArray(h, n) \/ \E keys \in ls : Leads(h, d, keys, n)

\* The keys of the walk that are behind it, with those of the section.
Walked == (IF walk.goal = "assign" THEN names ELSE <<>>) \o SubSeq(walk.keys, 1, walk.pos - 1)

\* All that was written is where its keys name it: in the document being read,
\* together with the table and the walk that the next key goes on from, and in
\* the document that was returned.
WrittenInv ==
    /\ names \in Seq(Key)
    /\ listed \in SUBSET (Seq(Key) \ {<<>>})
    /\ written \in SUBSET [keys : Seq(Key), node : Node]
    /\ outcome = "parsing" =>
          /\ Named(heap, document, listed, names, currentTable)
          /\ walk.goal \notin {"none", "inline"} =>
                Named(heap, document, listed, Walked, walk.at)
          /\ \A w \in written : Named(heap, document, listed, w.keys, w.node)
          /\ NotedAreArrays(heap, document, listed)
          /\ ArraysAreNoted(heap, document, listed)
    /\ outcome = "ok" =>
          \A w \in written : \E d \in returned : Named(heap, d, listed, w.keys, w.node)

=============================================================================
