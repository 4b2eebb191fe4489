-------------------------- MODULE DocumentUseProofs --------------------------
(***************************************************************************)
(* The proofs about the program that uses the parser, for all keys, paths, *)
(* documents, numbers of parses and of changes: UseInv of                  *)
(* DocumentUseInvariant is inductive, and the properties of                *)
(* DocumentUseProperties that follow from it.                              *)
(*                                                                         *)
(* The steps of the parser are not proved again.  The first part shows     *)
(* that each of them is a step of the same parser on the heap it sees, so  *)
(* that the invariant proved in DocumentProofs can be taken over from      *)
(* an instance of that module (ParserSteps), and that what holds for the   *)
(* values seen and for the earlier ones apart holds for all of them        *)
(* together (JoinedHeap).  The second part takes what the program does,    *)
(* where a copy is the hard case: its cells are the next free ones         *)
(* (CopyCells), it mirrors the original (ClonedCells, Twins) and is a tree *)
(* again (TwinTrees).  The last part shows that the recursion of toJson    *)
(* ends, and that twins say the same.                                      *)
(***************************************************************************)
EXTENDS DocumentUseInvariant, DocumentProofs

SeenP == INSTANCE DocumentProofs WITH heap <- View, returned <- Earlier

\* What the instance assumes of its constants.
LEMMA SeenAssumptions ==
    /\ MaxNodes \in Nat
    /\ Path \subseteq Seq(Key) \ {<<>>}
    /\ MaxValueDepth \in Nat
  BY MaxNodesAssumption, PathAssumption, MaxValueDepthAssumption

\* The invariant is the same with and without its proofs.
LEMMA SameTreeInv == Seen!TreeInv <=> SeenP!TreeInv
  BY
  DEF Seen!Null, SeenP!Null, Seen!Node, SeenP!Node, Seen!Ref, SeenP!Ref, Seen!Source, SeenP!Source,
      Seen!DottedSource, SeenP!DottedSource, Seen!Type, SeenP!Type, Seen!Cell, SeenP!Cell,
      Seen!Heap, SeenP!Heap, Seen!isTable, SeenP!isTable, Seen!isArray, SeenP!isArray, Seen!Goal,
      SeenP!Goal, Seen!Walk, SeenP!Walk, Seen!Outcome, SeenP!Outcome, Seen!FrameKind,
      SeenP!FrameKind, Seen!Frame, SeenP!Frame, Seen!TypeOK, SeenP!TypeOK, Seen!section,
      SeenP!section, Seen!top, SeenP!top, Seen!isValueAssignment, SeenP!isValueAssignment,
      Seen!CellsInUse, SeenP!CellsInUse, Seen!SourcesFit, SeenP!SourcesFit, Seen!ArraysOfTables,
      SeenP!ArraysOfTables, Seen!Linked, SeenP!Linked, Seen!DottedTablesLinked,
      SeenP!DottedTablesLinked, Seen!HeapInv, SeenP!HeapInv, Seen!SectionInv, SeenP!SectionInv,
      Seen!ValueInv, SeenP!ValueInv, Seen!WalkInv, SeenP!WalkInv, Seen!IndInv, SeenP!IndInv,
      Seen!Children, SeenP!Children, Seen!Reach, SeenP!Reach, Seen!Places, SeenP!Places,
      Seen!OpenNodes, SeenP!OpenNodes, Seen!Sealed, SeenP!Sealed, Seen!NoLogicError,
      SeenP!NoLogicError, Seen!NoTableDefinedTwice, SeenP!NoTableDefinedTwice, Seen!LiveRoots,
      SeenP!LiveRoots, Seen!LooseValues, SeenP!LooseValues, Seen!OnePlace, SeenP!OnePlace,
      Seen!NoCycle, SeenP!NoCycle, Seen!HeaderItems, SeenP!HeaderItems, Seen!FramesFit,
      SeenP!FramesFit, Seen!RootsApart, SeenP!RootsApart, Seen!Loose, SeenP!Loose, Seen!WalkRoot,
      SeenP!WalkRoot, Seen!InPlace, SeenP!InPlace, Seen!Held, SeenP!Held, Seen!TreeInv,
      SeenP!TreeInv

\* The shape of a heap has the same definition for the parser and for the program.
LEMMA SameShapes ==
    ASSUME NEW h
    PROVE  /\ \A n : SeenP!Children(h, n) = Children(h, n) /\ SeenP!Places(h, n) = Places(h, n)
           /\ \A S : SeenP!Reach(h, S) = Reach(h, S)
  BY
  DEF Children, SeenP!Children, Places, SeenP!Places, Reach, SeenP!Reach, Null, SeenP!Null, Node,
      SeenP!Node

\* And so do the operations on it.
LEMMA SameOperations ==
    ASSUME NEW h, NEW n, NEW k, NEW v
    PROVE  /\ SeenP!isTable(h, n) <=> isTable(h, n)
           /\ SeenP!isArray(h, n) <=> isArray(h, n)
           /\ SeenP!valueFromKey(h, n, k) = valueFromKey(h, n, k)
           /\ isArray(h, n) => SeenP!size(h, n) = size(h, n)
           /\ SeenP!valueAt(h, n, k) = valueAt(h, n, k)
           /\ SeenP!setValue(h, n, k, v) = setValue(h, n, k, v)
           /\ SeenP!addValue(h, n, v) = addValue(h, n, v)
           /\ SeenP!makeExplicit(h, n) = makeExplicit(h, n)
<1>1. isArray(h, n) => SeenP!size(h, n) = Len(h[n].items) /\ size(h, n) = Len(h[n].items)
  BY
  DEF size, SeenP!size, isTable, SeenP!isTable, isArray, SeenP!isArray
<1> QED
  BY <1>1
  DEF isTable, SeenP!isTable, isArray, SeenP!isArray, valueFromKey, SeenP!valueFromKey, valueAt,
      SeenP!valueAt, setValue, SeenP!setValue, addValue, SeenP!addValue, makeExplicit,
      SeenP!makeExplicit, Explicit, SeenP!Explicit, Null, SeenP!Null

----------------------------------------------------------------------------
\* What the parser sees of a heap

\* A cell is seen if it is not hidden.
LEMMA ViewCells ==
    ASSUME NEW h \in Heap, NEW d \in Nat
    PROVE  /\ ViewOf(h, d) \in Heap
           /\ \A n \in Node : ViewOf(h, d)[n] = IF n < d THEN Hidden ELSE h[n]
<1>1. Hidden \in Cell
  BY CellTypes DEF Hidden, Source
<1> QED
  BY <1>1 DEF ViewOf, Heap

\* Storing an entry of a table that is seen,
LEMMA ViewOfSet ==
    ASSUME NEW h \in Heap, NEW d \in Nat, NEW p \in Node, p >= d, NEW k \in Key, NEW v \in Ref
    PROVE  /\ ViewOf(setValue(h, p, k, v), d) = setValue(ViewOf(h, d), p, k, v)
           /\ \A n \in Node : n < d => setValue(h, p, k, v)[n] = h[n]
<1>1. p \in Nat /\ ~ (p < d)
  BY NodeTyping
<1> DEFINE g == ViewOf(h, d)
<1>2. /\ g \in Heap /\ g[p] = h[p]
      /\ \A n \in Node : g[n] = IF n < d THEN Hidden ELSE h[n]
  BY <1>1, ViewCells
<1>3. isTable(g, p) <=> isTable(h, p)
  BY <1>2 DEF isTable
<1>4. CASE ~isTable(h, p)
  BY <1>3, <1>4 DEF setValue
<1>5. CASE isTable(h, p)
  <2>1. setValue(h, p, k, v) = [h EXCEPT ![p].entries[k] = v]
    BY <1>5 DEF setValue
  <2>2. setValue(g, p, k, v) = [g EXCEPT ![p].entries[k] = v]
    BY <1>3, <1>5 DEF setValue
  <2> HIDE DEF g
  <2>3. ASSUME NEW n \in Node
        PROVE  ViewOf(setValue(h, p, k, v), d)[n] = setValue(g, p, k, v)[n]
    BY <1>1, <1>2, <2>1, <2>2 DEF ViewOf, Heap
  <2>4. ViewOf(setValue(h, p, k, v), d) = setValue(g, p, k, v)
    BY <1>2, <2>2, <2>3 DEF ViewOf, Heap
  <2> QED
    BY <1>1, <2>1, <2>4 DEF g, Heap
<1> QED
  BY <1>4, <1>5

\* appending a value that is seen to an array that is seen,
LEMMA ViewOfAdd ==
    ASSUME NEW h \in Heap, NEW d \in Nat, NEW p \in Node, p >= d, NEW v \in Node, v >= d
    PROVE  /\ ViewOf(addValue(h, p, v), d) = addValue(ViewOf(h, d), p, v)
           /\ \A n \in Node : n < d => addValue(h, p, v)[n] = h[n]
<1>1. p \in Nat /\ ~ (p < d) /\ v \in Nat /\ ~ (v < d)
  BY NodeTyping
<1> DEFINE g == ViewOf(h, d)
           takes == isArray(h, p) /\ (h[p].source = "ExplicitTable" => isTable(h, v))
<1>2. /\ g \in Heap /\ g[p] = h[p] /\ g[v] = h[v]
      /\ \A n \in Node : g[n] = IF n < d THEN Hidden ELSE h[n]
  BY <1>1, ViewCells
<1>3. takes <=> isArray(g, p) /\ (g[p].source = "ExplicitTable" => isTable(g, v))
  BY <1>2 DEF isTable, isArray
<1>4. CASE ~takes
  BY <1>3, <1>4 DEF addValue
<1>5. CASE takes
  <2>1. addValue(h, p, v) = [h EXCEPT ![p].items = Append(@, v)]
    BY <1>5 DEF addValue
  <2>2. addValue(g, p, v) = [g EXCEPT ![p].items = Append(@, v)]
    BY <1>3, <1>5 DEF addValue
  <2> HIDE DEF g
  <2>3. ASSUME NEW n \in Node
        PROVE  ViewOf(addValue(h, p, v), d)[n] = addValue(g, p, v)[n]
    BY <1>1, <1>2, <2>1, <2>2 DEF ViewOf, Heap
  <2>4. ViewOf(addValue(h, p, v), d) = addValue(g, p, v)
    BY <1>2, <2>2, <2>3 DEF ViewOf, Heap
  <2> QED
    BY <1>1, <2>1, <2>4 DEF g, Heap
<1> QED
  BY <1>4, <1>5

\* making a table explicit that is seen, and filling a cell that is seen: the
\* parser sees it done to what it sees, and nothing else is changed.
LEMMA ViewOfOthers ==
    ASSUME NEW h \in Heap, NEW d \in Nat, NEW p \in Node, p >= d
    PROVE  /\ ViewOf(makeExplicit(h, p), d) = makeExplicit(ViewOf(h, d), p)
           /\ \A n \in Node : n < d => makeExplicit(h, p)[n] = h[n]
           /\ \A cell : /\ ViewOf([h EXCEPT ![p] = cell], d) = [ViewOf(h, d) EXCEPT ![p] = cell]
                        /\ \A n \in Node : n < d => [h EXCEPT ![p] = cell][n] = h[n]
<1>1. p \in Nat /\ ~ (p < d)
  BY NodeTyping
<1> DEFINE g == ViewOf(h, d)
<1>2. /\ g \in Heap /\ g[p] = h[p]
      /\ \A n \in Node : g[n] = IF n < d THEN Hidden ELSE h[n]
  BY <1>1, ViewCells
<1> HIDE DEF g
<1>3. ASSUME NEW cell
      PROVE  /\ ViewOf([h EXCEPT ![p] = cell], d) = [g EXCEPT ![p] = cell]
             /\ \A n \in Node : n < d => [h EXCEPT ![p] = cell][n] = h[n]
  <2>1. \A n \in Node : ViewOf([h EXCEPT ![p] = cell], d)[n] = [g EXCEPT ![p] = cell][n]
    BY <1>1, <1>2 DEF ViewOf, Heap
  <2>2. ViewOf([h EXCEPT ![p] = cell], d) = [g EXCEPT ![p] = cell]
    BY <1>2, <2>1 DEF ViewOf, Heap
  <2> QED
    BY <1>1, <2>2 DEF Heap
<1>4. makeExplicit(h, p) = [h EXCEPT ![p] = [h[p] EXCEPT !.source = Explicit(@)]]
  BY DEF makeExplicit, Heap
<1>5. makeExplicit(g, p) = [g EXCEPT ![p] = [h[p] EXCEPT !.source = Explicit(@)]]
  BY <1>2 DEF makeExplicit, Heap
<1> QED
  BY <1>3, <1>4, <1>5 DEF g

----------------------------------------------------------------------------
\* The parser at work

\* The nodes of the parse that is running.
Recent == {n \in Node : n >= document}

\* What is stored anywhere below recent nodes is recent: the hidden values are loose.
LEMMA RecentClosed ==
    ASSUME heap \in Heap, SeenP!TreeInv, NEW n \in Recent
    PROVE  /\ View[n] = heap[n]
           /\ Children(View, n) = Children(heap, n)
           /\ Children(heap, n) \subseteq Recent
<1>1. document \in Nat /\ n \in Node /\ n \in Nat /\ ~ (n < document)
  <2>1. document \in Ref
    BY DEF SeenP!TreeInv, SeenP!IndInv, SeenP!TypeOK, SeenP!Ref, SeenP!Node, SeenP!Null, Ref, Node, Null
  <2> QED
    BY <2>1, NodeTyping DEF Recent
<1>2. View[n] = heap[n] /\ View \in Heap
  BY <1>1, ViewCells DEF View
<1>3. Children(View, n) = Children(heap, n)
  BY <1>2 DEF Children
<1>4. \A r \in Earlier : Places(View, r) = {}
  BY SameShapes DEF SeenP!TreeInv, SeenP!Loose, SeenP!LooseValues
<1>5. ASSUME NEW c \in Children(View, n) PROVE c \in Recent
  <2>1. c \in Node
    BY <1>1, <1>2, ChildrenAreNodes
  <2>2. c \notin Earlier
    BY <1>1, <1>2, <1>4, <2>1, ChildHasPlace
  <2> QED
    BY <1>1, <2>1, <2>2, NodeTyping DEF Recent, Earlier
<1> QED
  BY <1>2, <1>3, <1>5

\* Everything the parser has to do with is recent.
LEMMA AllRecent ==
    ASSUME heap \in Heap, SeenP!TreeInv, outcome = "parsing"
    PROVE  /\ document \in Recent /\ currentTable \in Recent
           /\ value # Null => value \in Recent
           /\ frames # <<>> /\ top.kind # "assign" => top.node \in Recent
           /\ walk.goal # "none" => walk.at \in Recent
           /\ \A S \in SUBSET Recent : Reach(View, S) \subseteq Recent
<1> USE SeenAssumptions
<1>1. SeenP!IndInv /\ document \in Node /\ value \in Ref /\ currentTable \in Ref /\ View \in Heap
      /\ document \in Nat
  <2>1. View \in SeenP!Heap /\ document \in SeenP!Ref /\ value \in SeenP!Ref /\ currentTable \in SeenP!Ref
    BY DEF SeenP!TreeInv, SeenP!IndInv, SeenP!TypeOK
  <2>2. document # Null
    BY DEF SeenP!TreeInv, SeenP!IndInv, SeenP!SectionInv, SeenP!Null, Null
  <2>3. document \in Ref /\ value \in Ref /\ currentTable \in Ref
    BY <2>1 DEF SeenP!Ref, SeenP!Node, SeenP!Null, Ref, Node, Null
  <2> QED
    BY <2>2, <2>3, NodeTyping, ViewCells DEF SeenP!TreeInv, View
<1>2. \A n \in Node : n \in Nat /\ (n \in Recent <=> n \notin Earlier)
  BY <1>1, NodeTyping DEF Recent, Earlier
<1>3. document \in Recent
  BY <1>1 DEF Recent
<1>4. value # Null => value \in Recent
  BY <1>1, <1>2, NodeTyping DEF SeenP!TreeInv, SeenP!RootsApart, SeenP!Null, Null
<1>5. ASSUME frames # <<>>, top.kind # "assign" PROVE top.node \in Recent
  <2>1. Len(frames) \in DOMAIN frames /\ top = frames[Len(frames)]
    BY <1>5, SeenP!TopFrame DEF top, SeenP!TreeInv, SeenP!IndInv
  <2>2. top.node # Null /\ top.node \in SeenP!OpenNodes
    BY <1>1, <1>5, <2>1 DEF SeenP!IndInv, SeenP!ValueInv, SeenP!OpenNodes, SeenP!Null, Null
  <2>3. top.node \in Node
    BY <2>2, SeenP!LooseFacts DEF SeenP!Node, Node
  <2>4. Earlier \cap SeenP!OpenNodes = {}
    BY DEF SeenP!TreeInv, SeenP!RootsApart
  <2> QED
    BY <1>2, <2>2, <2>3, <2>4
<1>6. ASSUME NEW S \in SUBSET Recent PROVE Reach(View, S) \subseteq Recent
  <2>1. Closed(View, Recent)
    <3>1. Recent \subseteq Node
      BY DEF Recent
    <3> QED
      BY <3>1, RecentClosed DEF Closed
  <2>2. S \in SUBSET Node
    BY DEF Recent
  <2> QED
    BY <1>1, <2>1, <2>2, ReachIsLeast
<1>7. currentTable \in Recent
  <2>1. currentTable \in Reach(View, {document})
    BY SameShapes DEF SeenP!TreeInv, SeenP!InPlace
  <2> QED
    BY <1>3, <1>6, <2>1
<1>8. ASSUME walk.goal # "none" PROVE walk.at \in Recent
  <2>1. walk.at \in Reach(View, {SeenP!WalkRoot})
    BY <1>8, SameShapes DEF SeenP!TreeInv, SeenP!InPlace
  <2>2. walk.goal = "inline" => frames # <<>> /\ top.kind = "inline"
    BY DEF SeenP!TreeInv, SeenP!FramesFit, SeenP!isValueAssignment, SeenP!top, top
  <2>3. SeenP!WalkRoot \in Recent
    BY <1>3, <1>5, <2>2 DEF SeenP!WalkRoot, SeenP!top, top
  <2> QED
    BY <1>6, <2>1, <2>3
<1> QED
  BY <1>3, <1>4, <1>5, <1>6, <1>7, <1>8

\* Where the document stays the same, so do the values that are hidden.
LEMMA ViewNext ==
    /\ View' = ViewOf(heap', document')
    /\ document' = document => Earlier' = Earlier
    /\ heap' = heap /\ document' = document => View' = View
  BY DEF View, ViewOf, Earlier

\* The parser sees the values it works with as they are.
LEMMA SeenPlaces ==
    ASSUME heap \in Heap, SeenP!TreeInv, outcome = "parsing", walk.goal # "none",
           walk.pos <= Len(walk.keys)
    PROVE  /\ SeenP!key = key /\ key \in Key
           /\ SeenP!child = child
           /\ walk.at \in Recent /\ View[walk.at] = heap[walk.at]
           /\ child # Null => child \in Recent /\ View[child] = heap[child]
           /\ child # Null /\ heap[child].source # "Value" /\ isArray(heap, child) =>
                 /\ size(heap, child) # 0 /\ isTable(heap, lastItem)
                 /\ SeenP!lastItem = lastItem
<1> USE SeenAssumptions
<1>1. walk.at \in Recent
  BY AllRecent
<1>2. /\ View[walk.at] = heap[walk.at]
      /\ Children(heap, walk.at) \subseteq Recent
  BY <1>1, RecentClosed
<1>3. SeenP!key = key
  BY DEF SeenP!key, key
<1>4. key \in Key
  <2>1. walk \in SeenP!Walk /\ walk.pos >= 1
    BY DEF SeenP!TreeInv, SeenP!IndInv, SeenP!TypeOK, SeenP!WalkInv
  <2>2. walk.keys \in Seq(Key) /\ walk.pos \in 1..Len(walk.keys)
    BY <2>1 DEF SeenP!Walk
  <2> QED
    BY <2>2 DEF key
<1>5. SeenP!child = child
  BY <1>2, <1>3 DEF child, SeenP!child, valueFromKey, SeenP!valueFromKey, isTable, SeenP!isTable,
     Null, SeenP!Null
<1>6. child # Null => child \in Recent
  <2>1. child # Null => child = heap[walk.at].entries[key]
    BY DEF child, valueFromKey
  <2> QED
    BY <1>2, <1>4, <2>1 DEF Children
<1>7. child # Null => View[child] = heap[child]
  BY <1>6, RecentClosed
<1>8. ASSUME child # Null, heap[child].source # "Value", isArray(heap, child)
      PROVE  /\ size(heap, child) # 0 /\ isTable(heap, lastItem)
             /\ SeenP!lastItem = lastItem
  <2>1. View[child] = heap[child] /\ child \in Recent
    BY <1>6, <1>7, <1>8
  <2>2. SeenP!Walking /\ SeenP!child # SeenP!Null /\ View[SeenP!child].source # "Value"
        /\ SeenP!isArray(View, SeenP!child) /\ SeenP!IndInv
    BY <1>5, <1>8, <2>1
    DEF SeenP!TreeInv, SeenP!Walking, SeenP!isArray, isArray, Null, SeenP!Null
  <2>3. SeenP!size(View, SeenP!child) # 0 /\ SeenP!isTable(View, SeenP!lastItem)
        /\ SeenP!lastItem \in SeenP!Node
    BY <2>2, SeenP!LastItem
  <2>4. SeenP!size(View, child) = Len(heap[child].items) /\ size(heap, child) = Len(heap[child].items)
    BY <1>8, <2>1 DEF SeenP!size, SeenP!isTable, SeenP!isArray, size, isTable, isArray
  <2>5. SeenP!lastItem = lastItem
    BY <1>5, <2>1, <2>4 DEF SeenP!lastItem, lastItem, SeenP!valueAt, valueAt, SeenP!isArray, isArray,
       Null, SeenP!Null
  <2>6. Len(heap[child].items) \in Nat /\ child \in Node
    BY <1>6, <1>8, HeapTyping DEF Recent
  <2>7. lastItem \in Children(heap, child)
    <3> DEFINE l == Len(heap[child].items)
    <3>1. l # 0 /\ l \in Nat /\ lastItem = valueAt(heap, child, l - 1)
      BY <1>5, <2>3, <2>4, <2>6 DEF lastItem
    <3>2. l - 1 < l /\ (l - 1) + 1 = l
      BY <3>1
    <3>3. lastItem = heap[child].items[l]
      BY <1>8, <3>1, <3>2 DEF valueAt
    <3>4. heap[child].items \in Seq(Node)
      BY <2>6, HeapTyping
    <3>5. l \in DOMAIN heap[child].items /\ heap[child].items[l] \in Node
      BY <3>1, <3>4
    <3> QED
      BY <3>3, <3>5, NodeTyping DEF Children
  <2>8. View[lastItem] = heap[lastItem]
    BY <2>1, <2>7, RecentClosed
  <2> QED
    BY <1>5, <2>3, <2>4, <2>5, <2>8 DEF SeenP!isTable, isTable
<1> QED
  BY <1>1, <1>2, <1>3, <1>4, <1>5, <1>6, <1>7, <1>8

\* Heaps in which only arrays have elements, and cells without any.
PureHeap == {h \in Heap : ItemsOfArrays(h)}
EmptyCell == {cell \in Cell : cell.items = <<>>}

\* The mutators give elements to arrays only,
LEMMA PureMutators ==
    ASSUME NEW h \in PureHeap, NEW p \in Node
    PROVE  /\ \A k \in Key, v \in Ref : setValue(h, p, k, v) \in PureHeap
           /\ \A v \in Node : addValue(h, p, v) \in PureHeap
           /\ makeExplicit(h, p) \in PureHeap
<1>0. h \in Heap /\ \A n \in Node : ~isArray(h, n) => h[n].items = <<>>
  BY DEF PureHeap, ItemsOfArrays
<1>1. ASSUME NEW k \in Key, NEW v \in Ref PROVE setValue(h, p, k, v) \in PureHeap
  <2>1. CASE isTable(h, p)
    <3> DEFINE g == setValue(h, p, k, v)
    <3>1. EntrySet(h, g, p, k, v)
      BY <1>0, <2>1, SetValueFields
    <3> HIDE DEF g
    <3> QED
      BY <1>0, <3>1 DEF EntrySet, PureHeap, ItemsOfArrays, isArray, g
  <2>2. CASE ~isTable(h, p)
    BY <2>2 DEF setValue
  <2> QED
    BY <2>1, <2>2
<1>2. ASSUME NEW v \in Node PROVE addValue(h, p, v) \in PureHeap
  <2>1. CASE isArray(h, p) /\ (h[p].source = "ExplicitTable" => isTable(h, v))
    <3> DEFINE g == addValue(h, p, v)
    <3>1. ItemAdded(h, g, p, v)
      BY <1>0, <2>1, AddValueFields
    <3> HIDE DEF g
    <3> QED
      BY <1>0, <2>1, <3>1 DEF ItemAdded, PureHeap, ItemsOfArrays, isArray, g
  <2>2. CASE ~ (isArray(h, p) /\ (h[p].source = "ExplicitTable" => isTable(h, v)))
    BY <2>2 DEF addValue
  <2> QED
    BY <2>1, <2>2
<1>3. makeExplicit(h, p) \in PureHeap
  <2> DEFINE g == makeExplicit(h, p)
  <2>1. MadeExplicit(h, g, p)
    BY <1>0, MakeExplicitFields
  <2> HIDE DEF g
  <2> QED
    BY <1>0, <2>1 DEF MadeExplicit, PureHeap, ItemsOfArrays, isArray, g
<1> QED
  BY <1>1, <1>2, <1>3

\* and a new value has none.
LEMMA PlacedCell ==
    ASSUME NEW h \in PureHeap, NEW p \in Node, NEW cell \in EmptyCell
    PROVE  [h EXCEPT ![p] = cell] \in PureHeap
<1>0. h \in Heap /\ \A n \in Node : ~isArray(h, n) => h[n].items = <<>>
  BY DEF PureHeap, ItemsOfArrays
<1> DEFINE g == [h EXCEPT ![p] = cell]
<1>1. g \in Heap /\ g[p] = cell /\ \A n \in Node : n # p => g[n] = h[n]
  BY <1>0 DEF Heap, EmptyCell
<1> HIDE DEF g
<1> QED
  BY <1>0, <1>1 DEF PureHeap, ItemsOfArrays, isArray, EmptyCell, g

\* The step of the parser is one it could take on what it sees, and it leaves
\* alone what it does not see.
SeenStep ==
    /\ SeenP!Next
    /\ UNCHANGED <<document, returned>>
    /\ heap' \in PureHeap
    /\ \A n \in Earlier : heap'[n] = heap[n]

\* Steps that only move on in the text or in the tree.
LEMMA MovesSeen ==
    ASSUME heap \in PureHeap, SeenP!TreeInv, outcome = "parsing",
           \/ \E path \in Path : BeginStatement(path) \/ BeginInlineEntry(path)
           \/ CloseValue \/ BeginInlineWalk \/ BeginAssignWalk
           \/ DescendToTable \/ (DescendIntoArray /\ outcome' = "parsing")
    PROVE  SeenStep
<1> USE SeenAssumptions
<1> heap \in Heap
  BY DEF PureHeap
<1>1. ASSUME UNCHANGED <<heap, document, returned>>
      PROVE  UNCHANGED <<View, document, Earlier>> /\ \A n \in Earlier : heap'[n] = heap[n]
  BY <1>1, ViewNext
<1>2. ASSUME NEW path \in Path, BeginTable(path) \/ BeginArrayOfTables(path)
      PROVE  SeenStep
  <2>1. SeenP!BeginTable(path) \/ SeenP!BeginArrayOfTables(path)
    BY <1>1, <1>2
  DEF BeginTable, SeenP!BeginTable, BeginArrayOfTables, SeenP!BeginArrayOfTables, AtStatement,
      SeenP!AtStatement, StartWalk, SeenP!StartWalk
  <2> QED
    BY <1>1, <1>2, <2>1 DEF BeginTable, BeginArrayOfTables, SeenStep, SeenP!Next, SeenP!BeginStatement
<1>3. ASSUME NEW path \in Path, BeginAssignment(path) PROVE SeenStep
  <2>1. SeenP!BeginAssignment(path)
    BY <1>1, <1>3
  DEF BeginAssignment, SeenP!BeginAssignment, AtStatement, SeenP!AtStatement, Null, SeenP!Null
  <2> QED
    BY <1>1, <1>3, <2>1 DEF BeginAssignment, SeenStep, SeenP!Next, SeenP!BeginStatement
<1>4. ASSUME NEW path \in Path, BeginInlineEntry(path) PROVE SeenStep
  <2>1. SeenP!BeginInlineEntry(path)
    BY <1>1, <1>4
  DEF BeginInlineEntry, SeenP!BeginInlineEntry, InValue, SeenP!InValue, top, SeenP!top, Null,
      SeenP!Null
  <2> QED
    BY <1>1, <1>4, <2>1 DEF BeginInlineEntry, SeenStep, SeenP!Next
<1>5. CASE CloseValue
  <2>1. SeenP!CloseValue
    BY <1>1, <1>5
  DEF CloseValue, SeenP!CloseValue, InValue, SeenP!InValue, top, SeenP!top, Null, SeenP!Null, Pop,
      SeenP!Pop
  <2> QED
    BY <1>1, <1>5, <2>1 DEF CloseValue, SeenStep, SeenP!Next, SeenP!ParseValue
<1>6. CASE BeginInlineWalk \/ BeginAssignWalk
  <2>1. SeenP!BeginInlineWalk \/ SeenP!BeginAssignWalk
    BY <1>1, <1>6
  DEF BeginInlineWalk, SeenP!BeginInlineWalk, BeginAssignWalk, SeenP!BeginAssignWalk, HasValue,
      SeenP!HasValue, InValue, SeenP!InValue, top, SeenP!top, Null, SeenP!Null, StartWalk,
      SeenP!StartWalk
  <2> QED
    BY <1>1, <1>6, <2>1 DEF BeginInlineWalk, BeginAssignWalk, SeenStep, SeenP!Next, SeenP!ParseValue
<1>7. CASE DescendToTable
  <2>1. /\ walk.goal # "none" /\ walk.pos <= Len(walk.keys) /\ walk.pos < Len(walk.keys)
        /\ child # Null
    <3>1. walk \in SeenP!Walk
      BY DEF SeenP!TreeInv, SeenP!IndInv, SeenP!TypeOK
    <3>2. walk.pos \in Nat /\ Len(walk.keys) \in Nat
      BY <3>1 DEF SeenP!Walk
    <3> QED
      BY <1>7, <3>2 DEF DescendToTable, Descending, Walking
  <2>2. SeenP!child = child /\ View[child] = heap[child]
    BY <2>1, SeenPlaces
  <2>3. SeenP!DescendToTable
    BY <1>1, <1>7, <2>2
  DEF DescendToTable, SeenP!DescendToTable, Descending, SeenP!Descending, Walking, SeenP!Walking,
      isValueAssignment, SeenP!isValueAssignment, StepTo, SeenP!StepTo, isArray, SeenP!isArray,
      Null, SeenP!Null
  <2> QED
    BY <1>1, <1>7, <2>3 DEF DescendToTable, SeenStep, SeenP!Next, SeenP!Descend
<1>8. CASE DescendIntoArray /\ outcome' = "parsing"
  <2>1. /\ walk.goal # "none" /\ walk.pos <= Len(walk.keys) /\ walk.pos < Len(walk.keys)
        /\ child # Null /\ heap[child].source # "Value" /\ isArray(heap, child)
    <3>1. walk \in SeenP!Walk
      BY DEF SeenP!TreeInv, SeenP!IndInv, SeenP!TypeOK
    <3>2. walk.pos \in Nat /\ Len(walk.keys) \in Nat
      BY <3>1 DEF SeenP!Walk
    <3> QED
      BY <1>8, <3>2 DEF DescendIntoArray, Descending, Walking
  <2>2. SeenP!child = child /\ View[child] = heap[child] /\ SeenP!lastItem = lastItem
        /\ size(heap, child) # 0 /\ isTable(heap, lastItem)
    BY <2>1, SeenPlaces
  <2>3. StepTo(lastItem) /\ UNCHANGED <<heap, used, document, currentTable, frames, value,
                             outcome, returned, sections, birth>>
    BY <1>8, <2>2 DEF DescendIntoArray
  <2>4. SeenP!IndInv /\ SeenP!Walking /\ SeenP!child # SeenP!Null
        /\ View[SeenP!child].source # "Value" /\ SeenP!isArray(View, SeenP!child)
    BY <2>1, <2>2 DEF SeenP!TreeInv, SeenP!Walking, SeenP!isArray, isArray, Null, SeenP!Null
  <2>5. SeenP!size(View, SeenP!child) # 0 /\ SeenP!isTable(View, SeenP!lastItem)
    BY <2>1, <2>4, SeenP!LastItem
  <2>6. SeenP!DescendIntoArray
    BY <1>1, <1>8, <2>2, <2>3, <2>4, <2>5
  DEF DescendIntoArray, SeenP!DescendIntoArray, Descending, SeenP!Descending, Walking,
      SeenP!Walking, isValueAssignment, SeenP!isValueAssignment, StepTo, SeenP!StepTo
  <2> QED
    BY <1>1, <2>3, <2>6 DEF SeenStep, SeenP!Next, SeenP!Descend
<1> QED
  BY <1>2, <1>3, <1>4, <1>5, <1>6, <1>7, <1>8 DEF BeginStatement

\* A new value is seen.
LEMMA CreateSeen ==
    ASSUME heap \in PureHeap, SeenP!TreeInv, outcome = "parsing", used < MaxNodes
    PROVE  /\ document \in Nat /\ used \in Nat /\ document <= used
           /\ new \in Recent /\ SeenP!new = new
           /\ \A cell \in EmptyCell : /\ Create(cell) \in PureHeap
                                 /\ ViewOf(Create(cell), document) = SeenP!Create(cell)
                                 /\ \A n \in Earlier : Create(cell)[n] = heap[n]
<1> USE SeenAssumptions
<1> heap \in Heap
  BY DEF PureHeap
<1>1. document \in Nat /\ used \in Nat /\ document <= used
  <2>1. document \in SeenP!Ref /\ used \in 0..MaxNodes /\ document <= used
    BY DEF SeenP!TreeInv, SeenP!IndInv, SeenP!TypeOK, SeenP!SectionInv
  <2>2. document \in Ref
    BY <2>1 DEF SeenP!Ref, SeenP!Node, SeenP!Null, Ref, Node, Null
  <2> QED
    BY <2>1, <2>2, NodeTyping
<1>2. new \in Node /\ new >= document
  BY <1>1 DEF new, Node
<1>3. ASSUME NEW cell \in EmptyCell
      PROVE  /\ Create(cell) \in PureHeap
             /\ ViewOf(Create(cell), document) = SeenP!Create(cell)
             /\ \A n \in Earlier : Create(cell)[n] = heap[n]
  <2>1. Create(cell) \in PureHeap
    BY <1>2, <1>3, PlacedCell DEF Create
  <2>2. \A c : /\ ViewOf([heap EXCEPT ![new] = c], document)
                     = [ViewOf(heap, document) EXCEPT ![new] = c]
                /\ \A n \in Node : n < document => [heap EXCEPT ![new] = c][n] = heap[n]
    BY ONLY heap \in Heap, <1>1, <1>2, ViewOfOthers
  <2> QED
    BY <2>1, <2>2 DEF Create, SeenP!Create, SeenP!new, new, View, Earlier
<1> QED
  BY <1>1, <1>2, <1>3 DEF Recent, new, SeenP!new

\* The cells a parser fills.
LEMMA ParserCells ==
    /\ \A source \in Source : /\ NewTable(source) \in EmptyCell /\ SeenP!NewTable(source) = NewTable(source)
                              /\ NewArray(source) \in EmptyCell /\ SeenP!NewArray(source) = NewArray(source)
    /\ NewScalar \in EmptyCell /\ SeenP!NewScalar = NewScalar
<1>1. /\ \A source : SeenP!NewTable(source) = NewTable(source) /\ SeenP!NewArray(source) = NewArray(source)
      /\ SeenP!NewScalar = NewScalar
  BY
  DEF NewTable, SeenP!NewTable, NewArray, SeenP!NewArray, NewScalar, SeenP!NewScalar, NewCell,
      SeenP!NewCell, Null, SeenP!Null
<1> QED
  BY <1>1, CellTypes DEF EmptyCell, NewTable, NewArray, NewScalar, NewCell

\* A step that leaves the heap as the parser would leave what it sees.
LEMMA HeapSeen ==
    ASSUME document' = document, NEW g \in PureHeap, heap' = g,
           \A n \in Earlier : g[n] = heap[n]
    PROVE  /\ View' = ViewOf(g, document)
           /\ Earlier' = Earlier /\ heap' \in PureHeap
           /\ \A n \in Earlier : heap'[n] = heap[n]
  BY DEF View, ViewOf, Earlier

\* Steps that create a value which is stored later.
LEMMA BirthsSeen ==
    ASSUME heap \in PureHeap, SeenP!TreeInv, outcome = "parsing",
           ParseScalar \/ OpenArray \/ OpenInlineTable
    PROVE  SeenStep
<1> USE SeenAssumptions
<1> heap \in Heap
  BY DEF PureHeap
<1>1. used < MaxNodes /\ document' = document
  BY DEF ParseScalar, OpenArray, OpenInlineTable, OpenValue
<1>2. ASSUME NEW cell \in EmptyCell, heap' = Create(cell)
      PROVE  View' = SeenP!Create(cell) /\ Earlier' = Earlier /\ heap' \in PureHeap /\ \A n \in Earlier : heap'[n] = heap[n]
  BY <1>1, <1>2, CreateSeen, HeapSeen
<1>3. /\ NewScalar \in EmptyCell /\ SeenP!NewScalar = NewScalar
      /\ NewArray("Value") \in EmptyCell /\ SeenP!NewArray("Value") = NewArray("Value")
      /\ NewTable("Value") \in EmptyCell /\ SeenP!NewTable("Value") = NewTable("Value")
  BY ParserCells DEF Source
<1>4. SeenP!new = new /\ SeenP!section = section
      /\ (\A s : SeenP!Born(s) = Born(s)) /\ (NeedsValue <=> SeenP!NeedsValue)
  BY
  DEF new, SeenP!new, section, SeenP!section, Born, SeenP!Born, NeedsValue, SeenP!NeedsValue,
      InValue, SeenP!InValue, top, SeenP!top, Null, SeenP!Null
<1>5. CASE ParseScalar
  <2>1. SeenP!ParseScalar
    BY <1>2, <1>3, <1>4, <1>5 DEF ParseScalar, SeenP!ParseScalar
  <2> QED
    BY <1>1, <1>2, <1>3, <1>5, <2>1 DEF ParseScalar, SeenStep, SeenP!Next, SeenP!ParseValue
<1>6. CASE OpenArray
  <2>1. SeenP!OpenArray
    BY <1>2, <1>3, <1>4, <1>6 DEF OpenArray, SeenP!OpenArray, OpenValue, SeenP!OpenValue
  <2> QED
    BY <1>1, <1>2, <1>3, <1>6, <2>1 DEF OpenArray, OpenValue, SeenStep, SeenP!Next, SeenP!ParseValue
<1>7. CASE OpenInlineTable
  <2>1. SeenP!OpenInlineTable
    BY <1>2, <1>3, <1>4, <1>7 DEF OpenInlineTable, SeenP!OpenInlineTable, OpenValue, SeenP!OpenValue
  <2> QED
    BY <1>1, <1>2, <1>3, <1>7, <2>1
    DEF OpenInlineTable, OpenValue, SeenStep, SeenP!Next, SeenP!ParseValue
<1> QED
  BY <1>5, <1>6, <1>7

\* The mutators, applied to what is seen, do what they do to the heap.
LEMMA MutatorsSeen ==
    ASSUME document \in Nat, NEW h \in PureHeap, \A n \in Earlier : h[n] = heap[n], NEW p \in Recent
    PROVE  /\ \A k \in Key, v \in Ref :
                 /\ setValue(h, p, k, v) \in PureHeap
                 /\ ViewOf(setValue(h, p, k, v), document)
                    = SeenP!setValue(ViewOf(h, document), p, k, v)
                 /\ \A n \in Earlier : setValue(h, p, k, v)[n] = heap[n]
           /\ \A v \in Recent :
                 /\ addValue(h, p, v) \in PureHeap
                 /\ ViewOf(addValue(h, p, v), document) = SeenP!addValue(ViewOf(h, document), p, v)
                 /\ \A n \in Earlier : addValue(h, p, v)[n] = heap[n]
           /\ makeExplicit(h, p) \in PureHeap
           /\ ViewOf(makeExplicit(h, p), document) = SeenP!makeExplicit(ViewOf(h, document), p)
           /\ \A n \in Earlier : makeExplicit(h, p)[n] = heap[n]
           /\ \A cell \in EmptyCell :
                 /\ [h EXCEPT ![p] = cell] \in PureHeap
                 /\ ViewOf([h EXCEPT ![p] = cell], document) = [ViewOf(h, document) EXCEPT ![p] = cell]
                 /\ \A n \in Earlier : [h EXCEPT ![p] = cell][n] = heap[n]
<1>1. p \in Node /\ p >= document /\ h \in Heap
  BY DEF Recent, PureHeap
<1>2. ASSUME NEW k \in Key, NEW v \in Ref
      PROVE  /\ setValue(h, p, k, v) \in PureHeap
             /\ ViewOf(setValue(h, p, k, v), document) = SeenP!setValue(ViewOf(h, document), p, k, v)
             /\ \A n \in Earlier : setValue(h, p, k, v)[n] = heap[n]
  <2>1. setValue(h, p, k, v) \in PureHeap
    BY <1>1, <1>2, PureMutators
  <2>2. /\ ViewOf(setValue(h, p, k, v), document) = setValue(ViewOf(h, document), p, k, v)
        /\ \A n \in Node : n < document => setValue(h, p, k, v)[n] = h[n]
    BY ONLY document \in Nat, <1>1, <1>2, ViewOfSet
  <2> QED
    BY <2>1, <2>2, SameOperations DEF Earlier
<1>3. ASSUME NEW v \in Recent
      PROVE  /\ addValue(h, p, v) \in PureHeap
             /\ ViewOf(addValue(h, p, v), document) = SeenP!addValue(ViewOf(h, document), p, v)
             /\ \A n \in Earlier : addValue(h, p, v)[n] = heap[n]
  <2>0. v \in Node /\ v >= document
    BY DEF Recent
  <2>1. addValue(h, p, v) \in PureHeap
    BY <1>1, <2>0, PureMutators
  <2>2. /\ ViewOf(addValue(h, p, v), document) = addValue(ViewOf(h, document), p, v)
        /\ \A n \in Node : n < document => addValue(h, p, v)[n] = h[n]
    BY ONLY document \in Nat, <1>1, <2>0, ViewOfAdd
  <2> QED
    BY <2>1, <2>2, SameOperations DEF Earlier
<1>4. /\ makeExplicit(h, p) \in PureHeap
      /\ ViewOf(makeExplicit(h, p), document) = SeenP!makeExplicit(ViewOf(h, document), p)
      /\ \A n \in Earlier : makeExplicit(h, p)[n] = heap[n]
  <2>1. makeExplicit(h, p) \in PureHeap
    BY <1>1, PureMutators
  <2>2. /\ ViewOf(makeExplicit(h, p), document) = makeExplicit(ViewOf(h, document), p)
        /\ \A n \in Node : n < document => makeExplicit(h, p)[n] = h[n]
    BY ONLY document \in Nat, <1>1, ViewOfOthers
  <2> QED
    BY <2>1, <2>2, SameOperations DEF Earlier
<1>5. ASSUME NEW cell \in EmptyCell
      PROVE  /\ [h EXCEPT ![p] = cell] \in PureHeap
             /\ ViewOf([h EXCEPT ![p] = cell], document) = [ViewOf(h, document) EXCEPT ![p] = cell]
             /\ \A n \in Earlier : [h EXCEPT ![p] = cell][n] = heap[n]
  <2>1. \A c : /\ ViewOf([h EXCEPT ![p] = c], document) = [ViewOf(h, document) EXCEPT ![p] = c]
               /\ \A n \in Node : n < document => [h EXCEPT ![p] = c][n] = h[n]
    BY ONLY document \in Nat, <1>1, ViewOfOthers
  <2>2. [h EXCEPT ![p] = cell] \in PureHeap
    BY <1>1, <1>5, PlacedCell
  <2> QED
    BY <2>1, <2>2 DEF Earlier
<1> QED
  BY <1>2, <1>3, <1>4, <1>5

\* Steps that store a value which was there already.
LEMMA StoresSeen ==
    ASSUME heap \in PureHeap, SeenP!TreeInv, outcome = "parsing",
           AddArrayItem \/ AssignValue \/ AssignInlineEntry \/ CreateImpliedTable
    PROVE  SeenStep
<1> USE SeenAssumptions
<1> heap \in Heap
  BY DEF PureHeap
<1>1. document \in Nat /\ UNCHANGED <<document, returned>> /\ View = ViewOf(heap, document)
  <2>1. document \in Recent
    BY AllRecent
  <2> QED
    BY <2>1, NodeTyping DEF Recent, AddArrayItem, AssignValue, AssignInlineEntry, CreateImpliedTable, View
<1>2. CASE AddArrayItem
  <2>1. top.node \in Recent /\ value \in Recent
    BY <1>2, AllRecent DEF AddArrayItem, HasValue, InValue
  <2>2. /\ addValue(heap, top.node, value) \in PureHeap
        /\ ViewOf(addValue(heap, top.node, value), document) = SeenP!addValue(View, top.node, value)
        /\ \A n \in Earlier : addValue(heap, top.node, value)[n] = heap[n]
    BY <1>1, <2>1, MutatorsSeen
  <2>3. View' = SeenP!addValue(View, top.node, value) /\ Earlier' = Earlier
        /\ heap' \in PureHeap /\ \A n \in Earlier : heap'[n] = heap[n]
    BY <1>1, <1>2, <2>2, HeapSeen DEF AddArrayItem
  <2>4. SeenP!AddArrayItem
    BY <1>2, <2>3
  DEF AddArrayItem, SeenP!AddArrayItem, HasValue, SeenP!HasValue, InValue, SeenP!InValue, top,
      SeenP!top, Null, SeenP!Null
  <2> QED
    BY <1>1, <2>3, <2>4 DEF SeenStep, SeenP!Next, SeenP!ParseValue
<1>3. ASSUME walk.goal # "none", walk.pos = Len(walk.keys)
      PROVE  /\ SeenP!key = key /\ key \in Key /\ SeenP!child = child /\ walk.at \in Recent
             /\ child # Null => child \in Recent /\ View[child] = heap[child]
  <2>1. walk.pos <= Len(walk.keys)
    <3>1. walk \in SeenP!Walk
      BY DEF SeenP!TreeInv, SeenP!IndInv, SeenP!TypeOK
    <3> QED
      BY <1>3, <3>1 DEF SeenP!Walk
  <2> QED
    BY <1>3, <2>1, SeenPlaces
<1>4. CASE AssignValue \/ AssignInlineEntry
  <2>0. walk.goal # "none" /\ walk.pos = Len(walk.keys) /\ child = Null
    BY <1>4 DEF AssignValue, AssignInlineEntry, Binding, Walking
  <2>1. value \in Ref
    <3>1. value \in SeenP!Ref
      BY DEF SeenP!TreeInv, SeenP!IndInv, SeenP!TypeOK
    <3> QED
      BY <3>1 DEF SeenP!Ref, SeenP!Node, SeenP!Null, Ref, Node, Null
  <2> DEFINE h == setValue(heap, walk.at, key, value)
  <2>2. /\ h \in PureHeap
        /\ ViewOf(h, document) = SeenP!setValue(View, walk.at, key, value)
        /\ \A n \in Earlier : h[n] = heap[n]
    BY <1>1, <1>3, <2>0, <2>1, MutatorsSeen
  <2>3. /\ makeExplicit(h, walk.at) \in PureHeap
        /\ ViewOf(makeExplicit(h, walk.at), document)
           = SeenP!makeExplicit(SeenP!setValue(View, walk.at, key, value), walk.at)
        /\ \A n \in Earlier : makeExplicit(h, walk.at)[n] = heap[n]
    <3> HIDE DEF h
    <3> QED
      BY <1>1, <1>3, <2>0, <2>2, MutatorsSeen
  <2>4. CASE AssignValue
    <3>1. /\ View' = SeenP!makeExplicit(SeenP!setValue(View, walk.at, key, value), walk.at)
          /\ Earlier' = Earlier /\ heap' \in PureHeap /\ \A n \in Earlier : heap'[n] = heap[n]
      BY <1>1, <2>3, <2>4, HeapSeen DEF AssignValue
    <3>2. SeenP!AssignValue
      BY <1>3, <2>0, <2>4, <3>1
  DEF AssignValue, SeenP!AssignValue, Binding, SeenP!Binding, Walking, SeenP!Walking, Null,
      SeenP!Null, Pop, SeenP!Pop, NoWalk, SeenP!NoWalk
    <3> QED
      BY <1>1, <3>1, <3>2 DEF SeenStep, SeenP!Next, SeenP!Bind
  <2>5. CASE AssignInlineEntry
    <3>1. /\ View' = SeenP!setValue(View, walk.at, key, value)
          /\ Earlier' = Earlier /\ heap' \in PureHeap /\ \A n \in Earlier : heap'[n] = heap[n]
      BY <1>1, <2>2, <2>5, HeapSeen DEF AssignInlineEntry
    <3>2. SeenP!AssignInlineEntry
      BY <1>3, <2>0, <2>5, <3>1
  DEF AssignInlineEntry, SeenP!AssignInlineEntry, Binding, SeenP!Binding, Walking, SeenP!Walking,
      Null, SeenP!Null, NoWalk, SeenP!NoWalk
    <3> QED
      BY <1>1, <3>1, <3>2 DEF SeenStep, SeenP!Next, SeenP!Bind
  <2> QED
    BY <1>4, <2>4, <2>5
<1>5. CASE CreateImpliedTable
  <2>0. walk.goal # "none" /\ walk.pos = Len(walk.keys) /\ child # Null
    BY <1>5 DEF CreateImpliedTable, Binding, Walking
  <2>1. child \in Recent /\ View[child] = heap[child] /\ child \in Ref
    BY <1>3, <2>0, NodeTyping DEF Recent
  <2> DEFINE h == makeExplicit(heap, child)
  <2>2. /\ h \in PureHeap
        /\ ViewOf(h, document) = SeenP!makeExplicit(View, child)
        /\ \A n \in Earlier : h[n] = heap[n]
    BY <1>1, <2>1, MutatorsSeen
  <2>3. /\ setValue(h, walk.at, key, child) \in PureHeap
        /\ ViewOf(setValue(h, walk.at, key, child), document)
           = SeenP!setValue(SeenP!makeExplicit(View, child), walk.at, key, child)
        /\ \A n \in Earlier : setValue(h, walk.at, key, child)[n] = heap[n]
    <3> HIDE DEF h
    <3> QED
      BY <1>1, <1>3, <2>0, <2>1, <2>2, MutatorsSeen
  <2>4. /\ View' = SeenP!setValue(SeenP!makeExplicit(View, child), walk.at, key, child)
        /\ Earlier' = Earlier /\ heap' \in PureHeap /\ \A n \in Earlier : heap'[n] = heap[n]
    BY <1>1, <1>5, <2>3, HeapSeen DEF CreateImpliedTable
  <2>5. SeenP!CreateImpliedTable
    BY <1>3, <1>5, <2>0, <2>1, <2>4
  DEF CreateImpliedTable, SeenP!CreateImpliedTable, Binding, SeenP!Binding, Walking, SeenP!Walking,
      Null, SeenP!Null, NoWalk, SeenP!NoWalk, EnterSection, SeenP!EnterSection, isTable,
      SeenP!isTable
  <2> QED
    BY <1>1, <2>4, <2>5 DEF SeenStep, SeenP!Next, SeenP!Bind
<1> QED
  BY <1>2, <1>4, <1>5

\* Steps that create a table and store it at once.
LEMMA GrowthSeen ==
    ASSUME heap \in PureHeap, SeenP!TreeInv, outcome = "parsing",
           \/ DescendToNewTable \/ CreateNewTable
           \/ CreateNewArrayOfTables \/ ExtendArrayOfTables
    PROVE  SeenStep
<1> USE SeenAssumptions
<1> heap \in Heap
  BY DEF PureHeap
<1>1. /\ UNCHANGED <<document, returned>> /\ View = ViewOf(heap, document)
      /\ walk.goal # "none" /\ walk.pos <= Len(walk.keys) /\ used < MaxNodes
  <2>1. walk \in SeenP!Walk /\ used \in 0..MaxNodes
    BY DEF SeenP!TreeInv, SeenP!IndInv, SeenP!TypeOK
  <2>2. walk.pos \in Nat /\ Len(walk.keys) \in Nat
    BY <2>1 DEF SeenP!Walk
  <2> QED
    BY <2>1, <2>2 DEF DescendToNewTable, CreateNewTable, CreateNewArrayOfTables, ExtendArrayOfTables,
       Descending, Binding, Walking, View
<1>2. /\ SeenP!key = key /\ key \in Key /\ SeenP!child = child /\ walk.at \in Recent
      /\ child # Null => child \in Recent /\ View[child] = heap[child]
  BY <1>1, SeenPlaces
<1>3. /\ document \in Nat /\ new \in Recent /\ SeenP!new = new /\ new \in Ref
      /\ used \in Nat /\ document <= used
      /\ SeenP!section = section /\ (\A s : SeenP!Born(s) = Born(s))
  <2>1. new \in Ref
    BY <1>1, CreateSeen, NodeTyping DEF Recent
  <2> QED
    BY <1>1, <2>1, CreateSeen
  DEF section, SeenP!section, Born, SeenP!Born, new, SeenP!new
<1>4. \A cell \in EmptyCell : /\ Create(cell) \in PureHeap
                         /\ ViewOf(Create(cell), document) = SeenP!Create(cell)
                         /\ \A n \in Earlier : Create(cell)[n] = heap[n]
  BY <1>1, CreateSeen
<1>5. ASSUME NEW cell \in EmptyCell
      PROVE  /\ setValue(Create(cell), walk.at, key, new) \in PureHeap
             /\ ViewOf(setValue(Create(cell), walk.at, key, new), document)
                = SeenP!setValue(SeenP!Create(cell), walk.at, key, new)
             /\ \A n \in Earlier : setValue(Create(cell), walk.at, key, new)[n] = heap[n]
  <2> DEFINE h == Create(cell)
  <2>1. h \in PureHeap /\ ViewOf(h, document) = SeenP!Create(cell) /\ \A n \in Earlier : h[n] = heap[n]
    BY <1>4, <1>5
  <2> HIDE DEF h
  <2>2. /\ setValue(h, walk.at, key, new) \in PureHeap
        /\ ViewOf(setValue(h, walk.at, key, new), document)
           = SeenP!setValue(SeenP!Create(cell), walk.at, key, new)
        /\ \A n \in Earlier : setValue(h, walk.at, key, new)[n] = heap[n]
    BY <1>2, <1>3, <2>1, MutatorsSeen
  <2> QED
    BY <2>2 DEF h
<1>6. CASE DescendToNewTable
  <2>1. PICK source \in Source :
           /\ source = IF isValueAssignment THEN "ImplicitValue" ELSE "ImplicitTable"
           /\ heap' = setValue(Create(NewTable(source)), walk.at, key, new)
    BY <1>6 DEF DescendToNewTable, Source
  <2>2. NewTable(source) \in EmptyCell /\ SeenP!NewTable(source) = NewTable(source)
    BY ParserCells
  <2>3. /\ View' = SeenP!setValue(SeenP!Create(NewTable(source)), walk.at, key, new)
        /\ Earlier' = Earlier /\ heap' \in PureHeap /\ \A n \in Earlier : heap'[n] = heap[n]
    BY <1>1, <1>5, <2>1, <2>2, HeapSeen
  <2>4. SeenP!DescendToNewTable
    BY <1>2, <1>3, <1>6, <2>1, <2>2, <2>3
  DEF DescendToNewTable, SeenP!DescendToNewTable, Descending, SeenP!Descending, Walking,
      SeenP!Walking, Null, SeenP!Null, StepTo, SeenP!StepTo, isValueAssignment,
      SeenP!isValueAssignment
  <2> QED
    BY <1>1, <2>3, <2>4 DEF SeenStep, SeenP!Next, SeenP!Descend
<1>7. CASE CreateNewTable
  <2> DEFINE cell == NewTable("ExplicitTable")
  <2>2. cell \in EmptyCell /\ SeenP!NewTable("ExplicitTable") = cell
    BY ParserCells DEF Source
  <2> HIDE DEF cell
  <2>3. /\ View' = SeenP!setValue(SeenP!Create(cell), walk.at, key, new)
        /\ Earlier' = Earlier /\ heap' \in PureHeap /\ \A n \in Earlier : heap'[n] = heap[n]
    BY <1>1, <1>5, <1>7, <2>2, HeapSeen DEF CreateNewTable, cell
  <2>4. SeenP!CreateNewTable
    BY <1>2, <1>3, <1>7, <2>2, <2>3
  DEF CreateNewTable, SeenP!CreateNewTable, Binding, SeenP!Binding, Walking, SeenP!Walking, Null,
      SeenP!Null, NoWalk, SeenP!NoWalk, EnterSection, SeenP!EnterSection
  <2> QED
    BY <1>1, <2>3, <2>4 DEF SeenStep, SeenP!Next, SeenP!Bind
<1>8. CASE ExtendArrayOfTables
  <2> DEFINE cell == NewTable("ExplicitTable")
             h == Create(cell)
  <2>1. child # Null /\ heap' = addValue(h, child, new)
    BY <1>8 DEF ExtendArrayOfTables
  <2>2. cell \in EmptyCell /\ SeenP!NewTable("ExplicitTable") = cell
    BY ParserCells DEF Source
  <2> HIDE DEF cell
  <2>3. h \in PureHeap /\ ViewOf(h, document) = SeenP!Create(cell) /\ \A n \in Earlier : h[n] = heap[n]
    BY <1>4, <2>2
  <2> HIDE DEF h
  <2>4. /\ addValue(h, child, new) \in PureHeap
        /\ ViewOf(addValue(h, child, new), document) = SeenP!addValue(SeenP!Create(cell), child, new)
        /\ \A n \in Earlier : addValue(h, child, new)[n] = heap[n]
    BY <1>2, <1>3, <2>1, <2>3, MutatorsSeen
  <2>5. /\ View' = SeenP!addValue(SeenP!Create(cell), child, new)
        /\ Earlier' = Earlier /\ heap' \in PureHeap /\ \A n \in Earlier : heap'[n] = heap[n]
    BY <1>1, <2>1, <2>4, HeapSeen
  <2>6. SeenP!ExtendArrayOfTables
    BY <1>2, <1>3, <1>8, <2>1, <2>2, <2>5
  DEF ExtendArrayOfTables, SeenP!ExtendArrayOfTables, Binding, SeenP!Binding, Walking,
      SeenP!Walking, Null, SeenP!Null, NoWalk, SeenP!NoWalk, EnterSection, SeenP!EnterSection,
      isArray, SeenP!isArray
  <2> QED
    BY <1>1, <2>5, <2>6 DEF SeenStep, SeenP!Next, SeenP!Bind
<1>9. CASE CreateNewArrayOfTables
  <2> DEFINE array == NewArray("ExplicitTable")
             table == NewTable("ExplicitTable")
             h == setValue(Create(array), walk.at, key, new)
             f == [h EXCEPT ![new + 1] = table]
             hs == SeenP!setValue(SeenP!Create(array), walk.at, key, new)
             fs == [hs EXCEPT ![new + 1] = table]
  <2>1. heap' = addValue(f, new, new + 1) /\ used + 2 <= MaxNodes
    BY <1>9 DEF CreateNewArrayOfTables
  <2>2. /\ array \in EmptyCell /\ SeenP!NewArray("ExplicitTable") = array
        /\ table \in EmptyCell /\ SeenP!NewTable("ExplicitTable") = table
    BY ParserCells DEF Source
  <2>3. new + 1 \in Recent
    BY <1>3, <2>1, NodeTyping DEF Recent, new, Node
  <2> HIDE DEF array, table
  <2>4. h \in PureHeap /\ ViewOf(h, document) = hs /\ \A n \in Earlier : h[n] = heap[n]
    BY <1>5, <2>2
  <2> HIDE DEF h, hs
  <2>50. \A cell \in EmptyCell :
             /\ [h EXCEPT ![new + 1] = cell] \in PureHeap
             /\ ViewOf([h EXCEPT ![new + 1] = cell], document)
                = [ViewOf(h, document) EXCEPT ![new + 1] = cell]
             /\ \A n \in Earlier : [h EXCEPT ![new + 1] = cell][n] = heap[n]
    BY ONLY <1>3, <2>3, <2>4, MutatorsSeen
  <2>51. /\ f \in PureHeap
         /\ ViewOf(f, document) = [ViewOf(h, document) EXCEPT ![new + 1] = table]
         /\ \A n \in Earlier : f[n] = heap[n]
    BY ONLY <2>2, <2>50 DEF f
  <2>52. ViewOf(f, document) = fs
    BY ONLY <2>4, <2>51 DEF fs
  <2> HIDE DEF f, fs
  <2>5. f \in PureHeap /\ ViewOf(f, document) = fs /\ \A n \in Earlier : f[n] = heap[n]
    BY <2>51, <2>52
  <2>6. /\ addValue(f, new, new + 1) \in PureHeap
        /\ ViewOf(addValue(f, new, new + 1), document) = SeenP!addValue(fs, new, new + 1)
        /\ \A n \in Earlier : addValue(f, new, new + 1)[n] = heap[n]
    BY <1>3, <2>3, <2>5, MutatorsSeen
  <2>7. /\ View' = SeenP!addValue(fs, new, new + 1)
        /\ Earlier' = Earlier /\ heap' \in PureHeap /\ \A n \in Earlier : heap'[n] = heap[n]
    BY <1>1, <2>1, <2>6, HeapSeen
  <2>8. SeenP!CreateNewArrayOfTables
    BY <1>2, <1>3, <1>9, <2>1, <2>2, <2>7
  DEF CreateNewArrayOfTables, SeenP!CreateNewArrayOfTables, Binding, SeenP!Binding, Walking,
      SeenP!Walking, Null, SeenP!Null, Node, SeenP!Node, NoWalk, SeenP!NoWalk, EnterSection,
      SeenP!EnterSection, fs, hs
  <2> QED
    BY <1>1, <2>7, <2>8 DEF SeenStep, SeenP!Next, SeenP!Bind
<1> QED
  BY <1>6, <1>7, <1>8, <1>9

\* While a parse goes on, the parser takes the steps it would take if there
\* were nothing but the values it sees.
LEMMA ParserSteps ==
    ASSUME heap \in PureHeap, SeenP!TreeInv, outcome = "parsing", Next, outcome' = "parsing"
    PROVE  /\ SeenStep
           /\ SeenP!TreeInv'
<1>1. SeenStep
  <2>1. ~BeginParse /\ ~EndOfDocument /\ ~Abort /\ ~DescendConflict /\ ~CreateTableConflict
        /\ ~CreateArrayOfTablesConflict /\ ~AssignConflict
    BY DEF BeginParse, EndOfDocument, Abort, DescendConflict, CreateTableConflict,
       CreateArrayOfTablesConflict, AssignConflict, Conflict, Throw
  <2>2. ASSUME \E path \in Path : BeginStatement(path) \/ BeginInlineEntry(path) PROVE SeenStep
    BY <2>2, MovesSeen
  <2>3. CASE ParseValue
    BY <2>3, MovesSeen, BirthsSeen, StoresSeen DEF ParseValue
  <2>4. CASE Descend
    BY <2>1, <2>4, MovesSeen, GrowthSeen DEF Descend
  <2>5. CASE Bind
    BY <2>1, <2>5, GrowthSeen, StoresSeen DEF Bind
  <2> QED
    BY <2>1, <2>2, <2>3, <2>4, <2>5 DEF Next
<1> QED
  BY <1>1, SeenAssumptions, SeenP!NextTree DEF SeenStep

----------------------------------------------------------------------------
\* The heap, what is seen and what is hidden together

\* A place is a node and where in the node.
LEMMA PlaceForm ==
    ASSUME NEW h, NEW n, NEW a \in Places(h, n)
    PROVE  \E p \in Node : \E x : a = <<p, x>>
  BY DEF Places

\* The places in a node depend on the cell of the node only.
LEMMA PlaceAt ==
    ASSUME NEW h, NEW g, NEW p \in Node, g[p] = h[p], NEW n, NEW x
    PROVE  <<p, x>> \in Places(g, n) <=> <<p, x>> \in Places(h, n)
<1>1. \A f : <<p, x>> \in Places(f, n) <=>
        \/ x \in Key /\ f[p].entries[x] = n
        \/ x \in DOMAIN f[p].items /\ f[p].items[x] = n
  BY DEF Places
<1> QED
  BY <1>1

\* A heap with fewer pointers is still one of trees.
LEMMA FewerPlaces ==
    ASSUME NEW h \in Heap, NEW g \in Heap, OnePlace(h), NoCycle(h),
           \A n \in Node : /\ Children(g, n) \subseteq Children(h, n)
                           /\ Places(g, n) \subseteq Places(h, n)
    PROVE  /\ OnePlace(g) /\ NoCycle(g)
           /\ \A S \in SUBSET Node : Reach(g, S) \subseteq Reach(h, S)
<1>1. ASSUME NEW S \in SUBSET Node PROVE Reach(g, S) \subseteq Reach(h, S)
  <2>1. Closed(g, Reach(h, S)) /\ S \subseteq Reach(h, S)
    BY ReachIsLeast DEF Closed
  <2> QED
    BY <2>1, ReachIsLeast
<1>2. ASSUME NEW n \in Node PROVE n \notin Reach(g, Children(g, n))
  <2>1. Children(g, n) \in SUBSET Node /\ Children(h, n) \in SUBSET Node
    BY ChildrenAreNodes
  <2>2. Children(g, n) \subseteq Reach(h, Children(h, n))
    BY <2>1, ReachIsLeast
  <2>3. Reach(h, Children(g, n)) \subseteq Reach(h, Children(h, n))
    BY <2>1, <2>2, ReachWithin
  <2> QED
    BY <1>1, <2>1, <2>3 DEF NoCycle
<1> QED
  BY <1>1, <1>2 DEF OnePlace, NoCycle

\* Where no pointer leads out of a part of the heap, the search within it sees
\* only that part.
LEMMA ReachInPart ==
    ASSUME NEW h \in Heap, NEW g \in Heap, NEW E \in SUBSET Node, Closed(h, E),
           \A n \in E : Children(g, n) = Children(h, n), NEW S \in SUBSET E
    PROVE  Reach(g, S) = Reach(h, S)
<1>0. S \in SUBSET Node
  OBVIOUS
<1>1. Closed(g, Reach(h, S) \cap E) /\ S \subseteq Reach(h, S) \cap E
  BY <1>0, ReachIsLeast DEF Closed
<1>2. Reach(g, S) \subseteq Reach(h, S) \cap E
  BY <1>0, <1>1, ReachIsLeast
<1>3. Closed(h, Reach(g, S)) /\ S \subseteq Reach(g, S)
  BY <1>0, <1>2, ReachIsLeast DEF Closed
<1>4. Reach(h, S) \subseteq Reach(g, S)
  BY <1>0, <1>3, ReachIsLeast
<1> QED
  BY <1>2, <1>4

\* The heap g is in the part before d the heap h was, and behind it what the
\* parser sees: each is in order, and no pointer leads from one to the other.
LEMMA JoinedHeap ==
    ASSUME NEW g \in Heap, NEW d \in Nat, NEW u \in Nat, d <= u,
           NEW v, v = ViewOf(g, d),
           CellsInUse(v, u), SourcesFit(v), ArraysOfTables(v), OnePlace(v), NoCycle(v),
           \A n \in Node : n < d => Places(v, n) = {},
           ItemsOfArrays(g),
           NEW h \in Heap, NEW w, HeapFits(h, w), ClosedBefore(h, d), w >= d - 1, w \in Nat,
           \A n \in Node : n < d => g[n] = h[n]
    PROVE  /\ HeapFits(g, u) /\ ClosedBefore(g, d)
           /\ \A n \in Node : n >= d => Places(g, n) = Places(v, n)
           /\ \A n \in Node : n < d => Places(g, n) \subseteq Places(h, n)
<1>0. /\ \A n \in Node : n \in Nat /\ (n >= d <=> ~ (n < d))
      /\ v \in Heap /\ \A n \in Node : v[n] = IF n < d THEN Hidden ELSE g[n]
      /\ CellsInUse(h, w) /\ SourcesFit(h) /\ OnePlace(h) /\ NoCycle(h) /\ TablesOnly(h)
      /\ ItemsOfArrays(h)
  <2>1. \A n \in Node : n \in Nat /\ (n >= d <=> ~ (n < d))
    BY NodeTyping
  <2>2. v \in Heap /\ \A n \in Node : v[n] = IF n < d THEN Hidden ELSE g[n]
    BY ViewCells
  <2> QED
    BY <2>1, <2>2 DEF HeapFits
<1> DEFINE E == {n \in Node : n < d}
           R == {n \in Node : n >= d}
<1>1. \A n \in E : g[n] = h[n] /\ Children(g, n) = Children(h, n) /\ n \notin R
  BY <1>0 DEF Children
<1>2. \A n \in R : g[n] = v[n] /\ Children(g, n) = Children(v, n) /\ n \notin E
  BY <1>0 DEF Children
<1>3. \A n \in E : Children(h, n) \subseteq E
  BY <1>0, ChildrenAreNodes DEF ClosedBefore
<1>4. \A n \in R : Children(v, n) \subseteq R
  <2> SUFFICES ASSUME NEW n \in R, NEW c \in Children(v, n) PROVE c \in R
    OBVIOUS
  <2>1. c \in Node
    BY <1>0, ChildrenAreNodes
  <2>2. Places(v, c) # {}
    BY <1>0, <2>1, ChildHasPlace
  <2> QED
    BY <1>0, <2>1, <2>2
<1>5. E \subseteq Node /\ R \subseteq Node /\ \A n \in Node : n \in E \/ n \in R
  BY <1>0
<1>6. Closed(h, E) /\ Closed(v, R)
  BY <1>3, <1>4, <1>5 DEF Closed
<1>7. ClosedBefore(g, d)
  BY <1>0, <1>1, <1>3 DEF ClosedBefore
<1>8. \A n \in R : n < d => FALSE
  BY <1>0
<1>9. ASSUME NEW n \in Node
      PROVE  /\ n \in E => Places(g, n) \subseteq Places(h, n)
             /\ n \in R => Places(g, n) = Places(v, n)
  <2>1. ASSUME NEW p \in Node, NEW x, <<p, x>> \in Places(g, n)
        PROVE  n \in Children(g, p)
    BY <1>9, <2>1, ChildHasPlace
  <2>2. ASSUME NEW p \in Node, NEW x, <<p, x>> \in Places(v, n)
        PROVE  n \in Children(v, p)
    BY <1>0, <1>9, <2>2, ChildHasPlace
  <2>3. \A p \in E : Children(v, p) = {}
    <3> TAKE p \in E
    <3>1. v[p] = Hidden
      BY <1>0
    <3> QED
      BY <3>1 DEF Children, Hidden, NewTable, NewCell, Null
  <2>4. ASSUME n \in E PROVE Places(g, n) \subseteq Places(h, n)
    <3> SUFFICES ASSUME NEW a \in Places(g, n) PROVE a \in Places(h, n)
      OBVIOUS
    <3>1. PICK p, x : p \in Node /\ a = <<p, x>>
      BY PlaceForm
    <3>2. p \in E
      BY <1>1, <1>2, <1>4, <1>5, <2>1, <2>4, <3>1
    <3> QED
      BY <1>1, <3>1, <3>2, PlaceAt
  <2>5. ASSUME n \in R, NEW a PROVE a \in Places(g, n) <=> a \in Places(v, n)
    <3>1. ASSUME NEW p \in Node, NEW x
          PROVE  <<p, x>> \in Places(g, n) <=> <<p, x>> \in Places(v, n)
      <4>1. CASE p \in E
        BY <1>1, <1>3, <2>1, <2>2, <2>3, <2>5, <4>1
      <4>2. CASE p \in R
        BY <1>2, <4>2, PlaceAt
      <4> QED
        BY <1>5, <4>1, <4>2
    <3> QED
      BY <3>1, PlaceForm
  <2> QED
    BY <2>4, <2>5
<1>10. OnePlace(g)
  BY <1>0, <1>5, <1>9 DEF OnePlace
<1>11. ASSUME NEW n \in Node PROVE n \notin Reach(g, Children(g, n))
  <2>1. CASE n \in E
    BY <1>0, <1>1, <1>3, <1>5, <1>6, <2>1, ReachInPart DEF NoCycle
  <2>2. CASE n \in R
    BY <1>0, <1>2, <1>4, <1>5, <1>6, <2>2, ReachInPart DEF NoCycle
  <2> QED
    BY <1>5, <2>1, <2>2
<1>12. CellsInUse(g, u)
  <2>1. ASSUME NEW n \in E
        PROVE  /\ g[n].type # "Free" /\ ~ (n > u)
               /\ \A k \in Key : g[n].entries[k] <= u
               /\ \A i \in DOMAIN g[n].items : g[n].items[i] <= u
    <3>1. n \in Nat /\ n < d /\ ~ (n > w) /\ ~ (n > u)
      BY <1>0
    <3>2. \A c \in Children(h, n) : c \in Nat /\ c <= u
      BY <1>0, <1>3
    <3>3. \A k \in Key : h[n].entries[k] = Null \/ h[n].entries[k] \in Children(h, n)
      BY DEF Children
    <3>4. \A i \in DOMAIN h[n].items : h[n].items[i] \in Children(h, n)
      BY HeapTyping, NodeTyping DEF Children
    <3> QED
      BY <1>0, <1>1, <3>1, <3>2, <3>3, <3>4 DEF CellsInUse, Null
  <2>2. ASSUME NEW n \in R
        PROVE  /\ g[n].type = "Free" <=> n > u
               /\ n > u => g[n].items = <<>> /\ \A k \in Key : g[n].entries[k] = Null
               /\ \A k \in Key : g[n].entries[k] <= u
               /\ \A i \in DOMAIN g[n].items : g[n].items[i] <= u
    BY <1>2, <1>5 DEF CellsInUse
  <2> HIDE DEF E, R
  <2> QED
    BY <1>5, <2>1, <2>2 DEF CellsInUse
<1>13. SourcesFit(g)
  BY <1>0, <1>1, <1>2, <1>5 DEF SourcesFit, isTable, isArray
<1>14. TablesOnly(g)
  <2> SUFFICES ASSUME NEW n \in Node, isArray(g, n), g[n].source = "ExplicitTable",
                      NEW i \in DOMAIN g[n].items
               PROVE  isTable(g, g[n].items[i])
    BY DEF TablesOnly
  <2>1. g[n].items[i] \in Children(g, n)
    BY HeapTyping, NodeTyping DEF Children
  <2>2. CASE n \in E
    BY <1>0, <1>1, <1>3, <2>1, <2>2 DEF TablesOnly, isTable, isArray
  <2>3. CASE n \in R
    BY <1>2, <1>4, <2>1, <2>3 DEF ArraysOfTables, isTable, isArray
  <2> QED
    BY <1>5, <2>2, <2>3
<1> QED
  BY <1>0, <1>7, <1>9, <1>10, <1>11, <1>12, <1>13, <1>14 DEF HeapFits, NoCycle

\* What the invariant of the parser says of what it sees and of its variables.
InOrder ==
    /\ CellsInUse(View, used) /\ SourcesFit(View) /\ ArraysOfTables(View)
    /\ OnePlace(View) /\ NoCycle(View)
    /\ \A n \in Node : n < document => Places(View, n) = {}
    /\ used \in 0..MaxNodes /\ document \in Ref /\ currentTable \in Ref
    /\ frames \in Seq(Frame) /\ value \in Ref /\ walk \in Walk /\ outcome \in Outcome
    /\ sections \in Seq(Node) /\ birth \in [Node -> Nat]
    /\ SectionsPast /\ NoTableDefinedTwice /\ NoLogicError
    /\ outcome = "parsing" =>
          /\ document # Null /\ document <= used /\ Places(View, document) = {}
          /\ frames = <<>> => value = Null

\* follows from that invariant.
LEMMA SeenFacts == SeenP!TreeInv => InOrder
<1> SUFFICES ASSUME SeenP!TreeInv PROVE InOrder
  OBVIOUS
<1>1. CellsInUse(View, used) /\ SourcesFit(View) /\ ArraysOfTables(View)
  BY
  DEF CellsInUse, SeenP!CellsInUse, SourcesFit, SeenP!SourcesFit, ArraysOfTables,
      SeenP!ArraysOfTables, isTable, SeenP!isTable, isArray, SeenP!isArray, Null, SeenP!Null, Node,
      SeenP!Node, SeenP!TreeInv, SeenP!IndInv, SeenP!HeapInv
<1>2. OnePlace(View) /\ NoCycle(View)
  <2>1. \A n \in Node : SeenP!Places(View, n) = Places(View, n) /\ SeenP!Children(View, n) = Children(View, n)
    BY SameShapes
  <2>2. \A S : SeenP!Reach(View, S) = Reach(View, S)
    BY SameShapes
  <2>3. OnePlace(View)
    BY <2>1 DEF OnePlace, SeenP!TreeInv, SeenP!OnePlace, SeenP!Node, Node
  <2>4. NoCycle(View)
    BY <2>1, <2>2 DEF NoCycle, SeenP!TreeInv, SeenP!NoCycle, SeenP!Node, Node
  <2> QED
    BY <2>3, <2>4
<1>3. \A n \in Earlier : Places(View, n) = {}
  BY SameShapes DEF SeenP!TreeInv, SeenP!Loose, SeenP!LooseValues
<1>4. SeenP!TypeOK
  BY DEF SeenP!TreeInv, SeenP!IndInv
<1>5. /\ used \in 0..MaxNodes /\ document \in Ref /\ currentTable \in Ref /\ value \in Ref
      /\ outcome \in Outcome /\ sections \in Seq(Node) /\ birth \in [Node -> Nat]
  BY <1>4
  DEF Ref, SeenP!Ref, Null, SeenP!Null, Node, SeenP!Node, Outcome, SeenP!Outcome, SeenP!TypeOK
<1>6. walk \in Walk /\ frames \in Seq(Frame)
  <2>1. SeenP!Walk = Walk /\ SeenP!Frame = Frame
    BY
  DEF Walk, SeenP!Walk, Goal, SeenP!Goal, Frame, SeenP!Frame, FrameKind, SeenP!FrameKind, Ref,
      SeenP!Ref, Null, SeenP!Null, Node, SeenP!Node
  <2> QED
    BY <1>4, <2>1 DEF SeenP!TypeOK
<1>7. SectionsPast /\ NoTableDefinedTwice /\ NoLogicError
  BY
  DEF NoTableDefinedTwice, SeenP!NoTableDefinedTwice, NoLogicError, SeenP!NoLogicError, SectionsPast, SeenP!TreeInv, SeenP!IndInv, SeenP!SectionInv
<1>8. ASSUME outcome = "parsing"
      PROVE  /\ document # Null /\ document <= used /\ Places(View, document) = {}
             /\ frames = <<>> => value = Null
  <2>1. document # Null /\ document <= used
    BY <1>8 DEF SeenP!TreeInv, SeenP!IndInv, SeenP!SectionInv, SeenP!Null, Null
  <2>2. document \in SeenP!LooseValues
    BY <2>1 DEF SeenP!LooseValues, SeenP!LiveRoots, SeenP!Null, Null
  <2>3. Places(View, document) = {}
    BY <2>2, SameShapes DEF SeenP!TreeInv, SeenP!Loose
  <2> QED
    BY <2>1, <2>3 DEF SeenP!TreeInv, SeenP!FramesFit, SeenP!Null, Null
<1> QED
  BY <1>1, <1>2, <1>3, <1>5, <1>6, <1>7, <1>8 DEF Earlier, InOrder

\* A loop goes on undisturbed where the array it is over keeps its elements and
\* is at most extended.
LEMMA LoopUnharmed ==
    ASSUME LoopInPlace, UNCHANGED loop, used \in Nat, used' \in Nat,
           loop.at.value # Null =>
              /\ loop.at.value <= used'
              /\ heap'[loop.at.value].type = heap[loop.at.value].type
              /\ \A i \in DOMAIN heap[loop.at.value].items :
                    /\ i \in DOMAIN heap'[loop.at.value].items
                    /\ heap'[loop.at.value].items[i] = heap[loop.at.value].items[i]
    PROVE  LoopInPlace'
  BY DEF LoopInPlace, isArray

\* While a parse goes on, the invariant is preserved.
LEMMA ParseGoesOn ==
    ASSUME UseInv, Next, UNCHANGED program, outcome = "parsing", outcome' = "parsing"
    PROVE  UseInv'
<1>1. /\ SeenP!TreeInv /\ heap \in Heap /\ heap \in PureHeap /\ HeapFits(heap, used)
      /\ ClosedBefore(heap, document) /\ Roots \subseteq Earlier
      /\ document \in Nat /\ document # Null /\ used \in Nat /\ document <= used
  <2>1. /\ SeenP!TreeInv /\ heap \in Heap /\ HeapFits(heap, used)
        /\ ClosedBefore(heap, document) /\ Roots \subseteq Earlier
    BY SameTreeInv DEF UseInv, ParserApart, TypeOK
  <2>2. heap \in PureHeap
    BY <2>1 DEF HeapFits, PureHeap
  <2> QED
    BY <2>1, <2>2, SeenFacts, NodeTyping DEF InOrder
<1>2. SeenStep /\ SeenP!TreeInv'
  BY <1>1, ParserSteps
<1>3. /\ document' = document /\ returned' = returned /\ heap' \in Heap /\ ItemsOfArrays(heap')
      /\ \A n \in Earlier : heap'[n] = heap[n]
  BY <1>2 DEF SeenStep, PureHeap
<1>4. InOrder'
  <2>1. (SeenP!TreeInv => InOrder)'
    BY SeenFacts, PTL
  <2> QED
    BY <1>2, <2>1
<1>5. /\ TypeOK' /\ SectionsPast' /\ NoTableDefinedTwice' /\ NoLogicError'
      /\ used' \in Nat /\ document <= used'
  BY <1>1, <1>3, <1>4 DEF TypeOK, UseInv, InOrder
<1>6. /\ View' = ViewOf(heap', document)
      /\ CellsInUse(View', used') /\ SourcesFit(View') /\ ArraysOfTables(View')
      /\ OnePlace(View') /\ NoCycle(View')
      /\ \A n \in Node : n < document => Places(View', n) = {}
  BY <1>3, <1>4, ViewNext DEF InOrder
<1>7. /\ HeapFits(heap', used') /\ ClosedBefore(heap', document)
      /\ \A n \in Node : n < document => Places(heap', n) \subseteq Places(heap, n)
  <2>1. used >= document - 1 /\ \A n \in Node : n < document => heap'[n] = heap[n]
    BY <1>1, <1>3 DEF Earlier
  <2> HIDE DEF View
  <2> DEFINE g == heap'
             u == used'
             v == View'
  <2>2. /\ g \in Heap /\ u \in Nat /\ document <= u /\ v = ViewOf(g, document)
        /\ CellsInUse(v, u) /\ SourcesFit(v) /\ ArraysOfTables(v) /\ OnePlace(v) /\ NoCycle(v)
        /\ \A n \in Node : n < document => Places(v, n) = {}
        /\ ItemsOfArrays(g)
        /\ \A n \in Node : n < document => g[n] = heap[n]
    BY <1>3, <1>5, <1>6, <2>1
  <2> HIDE DEF g, u, v
  <2>3. /\ HeapFits(g, u) /\ ClosedBefore(g, document)
        /\ \A n \in Node : n < document => Places(g, n) \subseteq Places(heap, n)
    BY ONLY <1>1, <2>1, <2>2, JoinedHeap
  <2> QED
    BY <2>3 DEF g, u
<1>8. RootsLoose'
  <2>1. UNCHANGED Roots /\ RootsLoose
    BY <1>3 DEF Roots, program, UseInv
  <2>2. \A r \in Roots : r \in Node /\ r < document /\ Places(heap, r) = {}
    BY <1>1, <2>1 DEF RootsLoose, Earlier
  <2>3. \A r \in Roots : Places(heap', r) = {}
    BY <1>7, <2>2
  <2>4. held \subseteq 1..used' /\ returned \subseteq 1..used'
    BY <1>1, <1>5, <2>2, NodeTyping DEF Roots, Node
  <2> QED
    BY <1>3, <2>1, <2>3, <2>4 DEF RootsLoose, program
<1>9. ParserApart'
  <2>1. UNCHANGED <<Roots, Earlier, loop>> /\ loop.at.value < document
    BY <1>3, ViewNext DEF Roots, program, UseInv, ParserApart
  <2>2. (Seen!TreeInv <=> SeenP!TreeInv)'
    BY SameTreeInv, PTL
  <2> QED
    BY <1>1, <1>2, <1>3, <1>7, <2>1, <2>2 DEF ParserApart
<1>10. LoopInPlace'
  <2>1. LoopInPlace /\ UNCHANGED loop
    BY DEF UseInv, program
  <2>2. loop.at.value # Null => loop.at.value \in Earlier
    BY DEF UseInv, ParserApart, LoopInPlace, Iterator, Ref, Earlier
  <2>3. loop.at.value <= used'
    BY <1>1, <1>5, NodeTyping DEF UseInv, ParserApart, LoopInPlace, Iterator
  <2> QED
    BY <1>1, <1>3, <1>5, <2>1, <2>2, <2>3, LoopUnharmed
<1> QED
  BY <1>5, <1>7, <1>8, <1>9, <1>10 DEF UseInv, NothingLeft

\* A parse ends with the document or with an error; either way the values stay.
LEMMA LastSteps ==
    ASSUME UseInv, Next, outcome = "parsing", outcome' # "parsing"
    PROVE  /\ EndOfDocument \/ \E error \in Outcome \ {"parsing", "logic"} : Throw(error)
           /\ heap' = heap
<1> USE SeenAssumptions
<1>1. SeenP!TreeInv /\ heap \in Heap /\ InOrder
  BY SameTreeInv, SeenFacts DEF UseInv, ParserApart, TypeOK
<1>2. \/ EndOfDocument
      \/ \E error \in Outcome \ {"parsing", "logic"} : Throw(error)
  <2>1. ~BeginParse
    BY DEF BeginParse
  <2>2. ASSUME NEW path \in Path PROVE ~BeginStatement(path) /\ ~BeginInlineEntry(path)
    BY DEF BeginStatement, BeginTable, BeginArrayOfTables, BeginAssignment, BeginInlineEntry
  <2>3. ~ParseValue
    BY DEF ParseValue, ParseScalar, OpenArray, OpenInlineTable, OpenValue, CloseValue, AddArrayItem,
       BeginInlineWalk, BeginAssignWalk
  <2>4. CASE Descend
    <3>1. ~DescendToNewTable /\ ~DescendToTable
      BY DEF DescendToNewTable, DescendToTable
    <3>2. ~DescendIntoArray
      <4> SUFFICES ASSUME DescendIntoArray PROVE FALSE
        OBVIOUS
      <4>1. /\ walk.goal # "none" /\ walk.pos < Len(walk.keys)
            /\ child # Null /\ heap[child].source # "Value" /\ isArray(heap, child)
        BY DEF DescendIntoArray, Descending, Walking
      <4>2. walk.pos \in Nat /\ Len(walk.keys) \in Nat
        BY <1>1 DEF InOrder, Walk
      <4>3. size(heap, child) # 0 /\ isTable(heap, lastItem)
        BY <1>1, <4>1, <4>2, SeenPlaces
      <4> QED
        BY <4>3 DEF DescendIntoArray
    <3> QED
      BY <2>4, <3>1, <3>2 DEF Descend, DescendConflict, Conflict, Outcome
  <2>5. CASE Bind
    BY <2>5 DEF Bind, CreateNewTable, CreateImpliedTable, CreateNewArrayOfTables, ExtendArrayOfTables,
       AssignValue, AssignInlineEntry, CreateTableConflict, CreateArrayOfTablesConflict,
       AssignConflict, Conflict, Outcome
  <2>6. CASE Abort
    BY <2>6 DEF Abort, Outcome
  <2> QED
    BY <2>1, <2>2, <2>3, <2>4, <2>5, <2>6 DEF Next
<1> QED
  BY <1>2 DEF EndOfDocument, Throw

\* In a parse the document is loose as well.
LEMMA DocumentLoose ==
    ASSUME UseInv, outcome = "parsing"
    PROVE  document \in Node /\ Places(heap, document) = {}
<1>1. /\ SeenP!TreeInv /\ heap \in Heap /\ HeapFits(heap, used)
      /\ ClosedBefore(heap, document) /\ InOrder
      /\ document \in Node /\ document \in Nat /\ document # Null /\ used \in Nat /\ document <= used
  <2>1. /\ SeenP!TreeInv /\ heap \in Heap /\ HeapFits(heap, used) /\ ClosedBefore(heap, document)
    BY SameTreeInv DEF UseInv, ParserApart, TypeOK
  <2> QED
    BY <2>1, SeenFacts, NodeTyping DEF InOrder
<1>2. /\ View = ViewOf(heap, document) /\ CellsInUse(View, used) /\ SourcesFit(View)
      /\ ArraysOfTables(View) /\ OnePlace(View) /\ NoCycle(View)
      /\ \A n \in Node : n < document => Places(View, n) = {}
      /\ Places(View, document) = {} /\ ItemsOfArrays(heap) /\ used >= document - 1
  BY <1>1 DEF InOrder, View, HeapFits
<1> HIDE DEF View
<1>3. Places(heap, document) = Places(View, document)
  BY ONLY <1>1, <1>2, JoinedHeap
<1> QED
  BY <1>1, <1>2, <1>3

\* When a parse ends, its document, if it was accepted, is one more tree.
LEMMA ParseEnds ==
    ASSUME UseInv, Next, UNCHANGED program, outcome = "parsing", outcome' # "parsing"
    PROVE  UseInv'
<1> USE SeenAssumptions
<1>1. /\ SeenP!TreeInv /\ heap \in Heap /\ HeapFits(heap, used)
      /\ ClosedBefore(heap, document) /\ Roots \subseteq Earlier /\ InOrder
      /\ document \in Node /\ document \in Nat /\ document # Null /\ used \in Nat /\ document <= used
  <2>1. /\ SeenP!TreeInv /\ heap \in Heap /\ HeapFits(heap, used)
        /\ ClosedBefore(heap, document) /\ Roots \subseteq Earlier
    BY SameTreeInv DEF UseInv, ParserApart, TypeOK
  <2>2. InOrder
    BY <2>1, SeenFacts
  <2> QED
    BY <2>1, <2>2, NodeTyping DEF InOrder
<1>2. \/ EndOfDocument
      \/ \E error \in Outcome \ {"parsing", "logic"} : Throw(error)
  BY LastSteps
<1>3. /\ UNCHANGED <<heap, used, sections, held, loop>> /\ document' = Null
      /\ frames' = <<>> /\ value' = Null /\ walk'.goal = "none"
      /\ returned' \in {returned, returned \cup {document}}
      /\ outcome' \in Outcome \ {"parsing", "logic"}
  BY <1>1, <1>2 DEF EndOfDocument, Throw, AtStatement, NoWalk, program, InOrder, Outcome
<1>4. TypeOK'
  <2>1. NoWalk \in Walk
    BY NodeTyping DEF NoWalk, Walk, Goal, Ref
  <2>2. TypeOK
    BY DEF UseInv
  <2>3. CASE EndOfDocument
    BY <1>1, <1>3, <2>2, <2>3 DEF EndOfDocument, TypeOK, Ref
  <2>4. CASE \E error : Throw(error)
    BY <1>1, <1>3, <2>1, <2>2, <2>4 DEF Throw, TypeOK, Ref
  <2> QED
    BY <1>2, <2>3, <2>4
<1>5. Places(heap, document) = {}
  BY DocumentLoose
<1>6. RootsLoose'
  <2>1. /\ held \subseteq 1..used /\ returned \subseteq 1..used /\ held \cap returned = {}
        /\ \A r \in Roots : Places(heap, r) = {}
    BY DEF UseInv, RootsLoose
  <2>2. document \notin held /\ document \in 1..used
    <3>1. document \in 1..used
      BY <1>1 DEF Node
    <3>2. document \notin Earlier
      BY <1>1 DEF Earlier
    <3> QED
      BY <1>1, <3>1, <3>2 DEF Roots
  <2>3. Roots' \subseteq Roots \cup {document}
    BY <1>3 DEF Roots
  <2> QED
    BY <1>3, <1>5, <2>1, <2>2, <2>3 DEF RootsLoose
<1>7. LoopInPlace'
  <2>1. LoopInPlace /\ loop' = loop /\ heap' = heap /\ used' = used
    BY <1>3 DEF UseInv
  <2> QED
    BY <2>1 DEF LoopInPlace
<1>8. SectionsPast' /\ NoTableDefinedTwice'
  BY <1>3 DEF UseInv, SectionsPast, NoTableDefinedTwice
<1>9. HeapFits(heap, used)'
  BY <1>1, <1>3
<1> QED
  BY <1>3, <1>4, <1>6, <1>7, <1>8, <1>9 DEF UseInv, NothingLeft, NoLogicError, ParserApart

\* What is cited of FreshIsLoose here.
LEMMA FreshTree ==
    ASSUME NEW h \in Heap, NEW u, CellsInUse(h, u), OnePlace(h), NoCycle(h),
           NEW L, LooseIn(h, u, L), NEW g, NEW cell, Filled(h, u, cell, g),
           NEW m, m = u + 1
    PROVE  /\ OnePlace(g) /\ NoCycle(g) /\ m \notin L
           /\ \A r \in L \cup {m} : Places(g, r) = {}
<1>1. OnePlace(g)
  BY FreshIsLoose
<1>2. NoCycle(g)
  BY FreshIsLoose
<1>3. m \notin L
  BY FreshIsLoose
<1>4. ASSUME NEW r \in L \cup {m} PROVE Places(g, r) = {}
  BY FreshIsLoose
<1> QED
  BY <1>1, <1>2, <1>3, <1>4

\* A new value is one more tree.
LEMMA NewTree ==
    ASSUME heap \in Heap, HeapFits(heap, used), RootsLoose, used \in 0..MaxNodes, used < MaxNodes,
           NEW cell, Blank(cell), cell.source # "Value" => cell.type \in {"Table", "Array"},
           NEW g, g = Create(cell)
    PROVE  /\ new = used + 1 /\ new \in Node /\ new \in Nat /\ new # Null /\ new > used
           /\ g \in Heap /\ g[new] = cell /\ \A n \in Node : n # new => g[n] = heap[n]
           /\ HeapFits(g, new) /\ ClosedBefore(g, new)
           /\ new \notin Roots
           /\ \A r \in Roots \cup {new} : Places(g, r) = {}
<1>1. new = used + 1 /\ new \in Node /\ new \in Nat /\ new # Null /\ new > used
  BY MaxNodesAssumption DEF new, Node, Null
<1>2. g \in Heap /\ g[new] = cell /\ \A n \in Node : n # new => g[n] = heap[n]
  BY <1>1 DEF Create, Heap, Blank
<1>3. Filled(heap, used, cell, g)
  BY <1>1, <1>2 DEF Filled
<1>4. CellsInUse(heap, used) /\ SourcesFit(heap) /\ OnePlace(heap) /\ NoCycle(heap)
      /\ TablesOnly(heap) /\ ItemsOfArrays(heap)
  BY DEF HeapFits
<1>5. LooseIn(heap, used, Roots)
  <2>1. Roots \subseteq 1..used /\ \A r \in Roots : Places(heap, r) = {}
    BY DEF RootsLoose, Roots
  <2>2. \A r \in 1..used : r \in Node /\ r <= used
    BY MaxNodesAssumption DEF Node
  <2> QED
    BY <2>1, <2>2 DEF LooseIn
<1>6. /\ OnePlace(g) /\ NoCycle(g) /\ new \notin Roots
      /\ \A r \in Roots \cup {new} : Places(g, r) = {}
  <2> DEFINE L == Roots
  <2>1. LooseIn(heap, used, L)
    BY <1>5
  <2> HIDE DEF L
  <2>2. /\ OnePlace(g) /\ NoCycle(g) /\ new \notin L
        /\ \A r \in L \cup {new} : Places(g, r) = {}
    BY ONLY heap \in Heap, <1>1, <1>3, <1>4, <2>1, FreshTree
  <2> QED
    BY <2>2 DEF L
<1>7. CellsInUse(g, new)
  BY <1>1, <1>2, <1>4, PlaceCell
<1>8. SourcesFit(g)
  BY <1>2, <1>4 DEF SourcesFit, isTable, isArray
<1>9. ItemsOfArrays(g)
  BY <1>2, <1>4 DEF ItemsOfArrays, isArray, Blank
<1>10. TablesOnly(g)
  <2> SUFFICES ASSUME NEW n \in Node, isArray(g, n), g[n].source = "ExplicitTable",
                      NEW i \in DOMAIN g[n].items
               PROVE  isTable(g, g[n].items[i])
    BY DEF TablesOnly
  <2>1. n # new
    BY <1>2 DEF Blank
  <2>2. g[n] = heap[n] /\ isTable(heap, heap[n].items[i]) /\ i \in DOMAIN heap[n].items
    BY <1>2, <1>4, <2>1 DEF TablesOnly, isArray
  <2>3. heap[n].items[i] \in Node /\ heap[n].items[i] <= used
    BY <1>4, <2>2, HeapTyping DEF CellsInUse
  <2>4. heap[n].items[i] # new
    BY <1>1, <2>3
  <2> QED
    BY <1>2, <2>2, <2>3, <2>4 DEF isTable
<1>11. ClosedBefore(g, new)
  <2> SUFFICES ASSUME NEW n \in Node, NEW c \in Children(g, n) PROVE c < new
    BY DEF ClosedBefore
  <2>1. Children(g, n) = Children(heap, n) \/ Children(g, n) = {}
    BY <1>2 DEF Children, Blank
  <2>2. \A x \in Children(heap, n) : x \in Nat /\ x <= used
    BY <1>4, HeapTyping, NodeTyping DEF Children, CellsInUse
  <2>3. c \in Nat /\ c <= used
    BY <2>1, <2>2
  <2> QED
    BY <1>1, <2>3
<1> QED
  BY <1>1, <1>2, <1>4, <1>6, <1>7, <1>8, <1>9, <1>10, <1>11 DEF HeapFits

\* Where no value holds another, one reaches only where one starts.
LEMMA NothingBelow ==
    ASSUME NEW h \in Heap, \A n \in Node : h[n].items = <<>> /\ \A k \in Key : h[n].entries[k] = Null
    PROVE  /\ \A n \in Node : Children(h, n) = {} /\ Places(h, n) = {}
           /\ \A S \in SUBSET Node : Reach(h, S) = S
<1>1. ASSUME NEW n \in Node PROVE Children(h, n) = {}
  BY DEF Children
<1>2. ASSUME NEW n \in Node PROVE Places(h, n) = {}
  <2>1. n # Null
    BY NodeTyping
  <2> QED
    BY <2>1 DEF Places
<1>3. ASSUME NEW S \in SUBSET Node PROVE Reach(h, S) = S
  <2>1. Closed(h, S)
    BY <1>1 DEF Closed
  <2> QED
    BY <2>1, ReachIsLeast
<1> QED
  BY <1>1, <1>2, <1>3

\* When a parse begins, the parser sees a new table and, behind what is hidden,
\* nothing but free cells.
LEMMA ParseBegins ==
    ASSUME UseInv, BeginParse, UNCHANGED program
    PROVE  UseInv'
<1> USE SeenAssumptions
<1> DEFINE cell == NewTable("ExplicitTable")
           g == heap'
<1>1. /\ heap \in Heap /\ HeapFits(heap, used) /\ TypeOK /\ RootsLoose /\ LoopInPlace
      /\ outcome # "parsing" /\ used < MaxNodes /\ used \in Nat
      /\ frames = <<>> /\ value = Null /\ walk.goal = "none"
      /\ SectionsPast /\ NoTableDefinedTwice /\ used \in 0..MaxNodes
  BY DEF UseInv, BeginParse, TypeOK, NothingLeft
<1>2. /\ heap' = Create(cell) /\ used' = new /\ document' = new
      /\ currentTable' = new /\ outcome' = "parsing" /\ sections' = Append(sections, new)
      /\ birth' = Born(section + 1)
      /\ UNCHANGED <<frames, value, walk, returned, held, loop>>
  BY DEF BeginParse, program
<1>3. /\ Blank(cell) /\ cell.type = "Table" /\ cell.source = "ExplicitTable" /\ cell = Hidden
  BY BlankCells DEF Source, Hidden
<1>4. /\ new = used + 1 /\ new \in Node /\ new \in Nat /\ new # Null /\ new > used
      /\ g \in Heap /\ g[new] = cell /\ \A n \in Node : n # new => g[n] = heap[n]
      /\ HeapFits(g, new) /\ ClosedBefore(g, new)
      /\ new \notin Roots
      /\ \A r \in Roots \cup {new} : Places(g, r) = {}
  <2> HIDE DEF cell
  <2> QED
    BY <1>1, <1>2, <1>3, NewTree
<1> HIDE DEF g, cell
<1>5. TypeOK'
  <2>1. birth' \in [Node -> Nat]
    <3>1. section \in Nat /\ birth \in [Node -> Nat]
      BY <1>1 DEF section, TypeOK
    <3>2. \A i \in Nat : Born(i) \in [Node -> Nat]
      BY <3>1 DEF Born
    <3>3. section + 1 \in Nat
      BY <3>1
    <3> QED
      BY <1>2, <3>2, <3>3
  <2> QED
    BY <1>1, <1>2, <1>4, <2>1, NodeTyping DEF TypeOK, Outcome, g
<1>6. /\ View' = ViewOf(g, new) /\ View' \in Heap
      /\ Earlier' = {n \in Node : n < new}
      /\ \A n \in Node : View'[n] = IF n < new THEN Hidden ELSE g[n]
  BY <1>2, <1>4, ViewNext, ViewCells DEF Earlier, g
<1>7. ASSUME NEW n \in Node
      PROVE  /\ View'[n].items = <<>> /\ \A k \in Key : View'[n].entries[k] = Null
             /\ n <= new => View'[n] = Hidden
             /\ n > new => View'[n].type = "Free" /\ View'[n].source = "Value"
  <2>0. n \in Nat
    BY NodeTyping
  <2>1. CASE n <= new
    <3>1. n < new \/ n = new
      BY <1>4, <2>0, <2>1
    <3>2. View'[n] = Hidden
      BY <1>3, <1>4, <1>6, <3>1
    <3>3. ~ (n > new)
      BY <1>4, <2>0, <2>1
    <3> QED
      BY <1>3, <3>2, <3>3 DEF Blank
  <2>2. CASE n > new
    <3>1. ~ (n < new) /\ ~ (n <= new)
      BY <1>4, <2>0, <2>2
    <3>2. View'[n] = g[n]
      BY <1>6, <3>1
    <3>3. CellsInUse(g, new) /\ SourcesFit(g)
      BY <1>4 DEF HeapFits
    <3>4. g[n].type = "Free" /\ g[n].items = <<>> /\ \A k \in Key : g[n].entries[k] = Null
      BY <2>2, <3>3 DEF CellsInUse
    <3>5. g[n].source = "Value"
      BY <3>3, <3>4 DEF SourcesFit, isTable, isArray
    <3> QED
      BY <3>1, <3>2, <3>4, <3>5
  <2> QED
    BY <1>4, <2>0, <2>1, <2>2
<1>8. /\ \A n \in Node : Children(View', n) = {} /\ Places(View', n) = {}
      /\ \A S \in SUBSET Node : Reach(View', S) = S
  BY <1>6, <1>7, NothingBelow
<1>9. SeenP!TypeOK'
  <2>1. Earlier' \subseteq SeenP!Node
    BY <1>6 DEF SeenP!Node, Node
  <2>2. View' \in SeenP!Heap
    BY <1>6
  DEF Heap, SeenP!Heap, Cell, SeenP!Cell, Type, SeenP!Type, Source, SeenP!Source, Ref, SeenP!Ref,
      Node, SeenP!Node, Null, SeenP!Null
  <2>3. frames' \in Seq(SeenP!Frame) /\ walk' \in SeenP!Walk
    <3>1. SeenP!Walk = Walk /\ SeenP!Frame = Frame
      BY
  DEF Walk, SeenP!Walk, Goal, SeenP!Goal, Frame, SeenP!Frame, FrameKind, SeenP!FrameKind, Ref,
      SeenP!Ref, Null, SeenP!Null, Node, SeenP!Node
    <3> QED
      BY <1>5, <3>1 DEF TypeOK
  <2>4. /\ used' \in 0..MaxNodes /\ document' \in Ref /\ currentTable' \in Ref /\ value' \in Ref
        /\ outcome' \in Outcome /\ sections' \in Seq(Node) /\ birth' \in [Node -> Nat]
    BY <1>5 DEF TypeOK
  <2> QED
    BY <2>1, <2>2, <2>3, <2>4
  DEF Ref, SeenP!Ref, Null, SeenP!Null, Node, SeenP!Node, Outcome, SeenP!Outcome, SeenP!TypeOK
<1>10. SeenP!HeapInv'
  <2>1. SeenP!CellsInUse(View', new)
    <3>1. Hidden.type = "Table"
      BY <1>3
    <3>2. \A n \in Node : n \in Nat /\ (n <= new \/ n > new) /\ (n <= new => ~ (n > new))
      BY <1>4, NodeTyping
    <3> QED
      BY <1>4, <1>7, <3>1, <3>2 DEF SeenP!CellsInUse, SeenP!Node, Node, SeenP!Null, Null
  <2>2. SeenP!SourcesFit(View') /\ SeenP!ArraysOfTables(View')
    <3>1. Hidden.type = "Table"
      BY <1>3
    <3>2. \A n \in Node : n \in Nat /\ (n <= new \/ n > new)
      BY <1>4, NodeTyping
    <3> QED
      BY <1>7, <3>1, <3>2
      DEF SeenP!SourcesFit, SeenP!ArraysOfTables, SeenP!isTable, SeenP!isArray, SeenP!Node, Node
  <2>3. \A b, s : SeenP!DottedTablesLinked(View', b, s)
    BY <1>7 DEF SeenP!DottedTablesLinked, SeenP!Node, Node, SeenP!Null, Null
  <2> QED
    BY <1>2, <2>1, <2>2, <2>3 DEF SeenP!HeapInv
<1>11. /\ sections' \in Seq(Node) /\ \A i \in DOMAIN sections' : sections'[i] <= new
       /\ \A i, j \in DOMAIN sections' : sections'[i] = sections'[j] => i = j
       /\ sections' # <<>> /\ sections'[Len(sections')] = new
  <2>1. /\ sections \in Seq(Node) /\ \A i \in DOMAIN sections : sections[i] <= used
        /\ \A i, j \in DOMAIN sections : sections[i] = sections[j] => i = j
    BY <1>1 DEF TypeOK, SectionsPast, NoTableDefinedTwice
  <2> DEFINE l == Len(sections)
             t == Append(sections, new)
  <2>2. /\ l \in Nat /\ DOMAIN sections = 1..l /\ DOMAIN t = 1..(l + 1) /\ Len(t) = l + 1
        /\ t[l + 1] = new /\ t \in Seq(Node) /\ \A i \in 1..l : t[i] = sections[i]
    BY <1>4, <2>1
  <2>3. \A i \in 1..(l + 1) : i \in 1..l \/ i = l + 1
    BY <2>2
  <2>4. \A i \in 1..l : sections[i] \in Nat /\ sections[i] <= used
    BY <2>1, <2>2, NodeTyping
  <2>5. \A i \in 1..l : t[i] <= new /\ t[i] # new
    BY <1>1, <1>4, <2>2, <2>4
  <2> HIDE DEF l, t
  <2>6. \A i, j \in DOMAIN t : t[i] = t[j] => i = j
    BY <2>1, <2>2, <2>3, <2>5
  <2>7. \A i \in DOMAIN t : t[i] <= new
    BY <1>4, <2>2, <2>3, <2>5
  <2>8. t # <<>>
    BY <2>2
  <2>9. sections' = t
    BY <1>2 DEF t
  <2> QED
    BY <2>2, <2>6, <2>7, <2>8, <2>9
<1>12. SeenP!SectionInv'
  <2>1. \A i \in DOMAIN sections' : View'[sections'[i]] = Hidden
    BY <1>7, <1>11
  <2>2. View'[new] = Hidden /\ new <= new
    BY <1>4, <1>7
  <2>3. Hidden.type = "Table" /\ Hidden.source = "ExplicitTable"
    BY <1>3
  <2>4. used' = new /\ document' = new /\ currentTable' = new
    BY ONLY <1>2
  <2>5. \A i \in DOMAIN sections' :
            /\ sections'[i] <= used'
            /\ SeenP!isTable(View', sections'[i])
            /\ View'[sections'[i]].source = "ExplicitTable"
    BY ONLY <1>11, <2>1, <2>3, <2>4 DEF SeenP!isTable
  <2>6. SeenP!NoTableDefinedTwice'
    BY ONLY <1>11 DEF SeenP!NoTableDefinedTwice
  <2>7. /\ document' # SeenP!Null /\ document' <= used' /\ SeenP!isTable(View', document')
        /\ sections' # <<>> /\ currentTable' = sections'[SeenP!section']
    BY ONLY <1>4, <1>11, <2>2, <2>3, <2>4 DEF SeenP!isTable, SeenP!Null, Null, SeenP!section
  <2> QED
    BY ONLY <2>5, <2>6, <2>7 DEF SeenP!SectionInv
<1>13. SeenP!ValueInv' /\ SeenP!WalkInv' /\ SeenP!NoLogicError' /\ SeenP!FramesFit'
  BY <1>1, <1>2
  DEF SeenP!ValueInv, SeenP!WalkInv, SeenP!NoLogicError, SeenP!FramesFit, SeenP!Null, Null,
      SeenP!isValueAssignment
<1>14. SeenP!IndInv'
  BY <1>9, <1>10, <1>12, <1>13 DEF SeenP!IndInv
<1>15. SeenP!OnePlace(View') /\ SeenP!NoCycle(View') /\ SeenP!HeaderItems(View')
  <2>1. \A n \in Node : SeenP!Places(View', n) = {} /\ SeenP!Children(View', n) = {}
    BY <1>8, SameShapes
  <2>2. SeenP!Reach(View', {}) = {}
    BY <1>8, SameShapes
  <2>3. SeenP!OnePlace(View') /\ SeenP!NoCycle(View')
    BY <2>1, <2>2 DEF SeenP!OnePlace, SeenP!NoCycle, SeenP!Node, Node
  <2>4. SeenP!HeaderItems(View')
    BY <1>7 DEF SeenP!HeaderItems, SeenP!Node, Node
  <2> QED
    BY <2>3, <2>4
<1>16. /\ SeenP!OpenNodes' = {} /\ SeenP!LiveRoots' = {new}
       /\ new \notin SeenP!Sealed'
  <2>1. SeenP!OpenNodes' = {}
    BY <1>1, <1>2 DEF SeenP!OpenNodes
  <2>2. SeenP!LiveRoots' = {new}
    BY <1>1, <1>2, <1>4, <2>1 DEF SeenP!LiveRoots, SeenP!Null, Null
  <2> DEFINE F == {n \in SeenP!Node : View'[n].type # "Free" /\ View'[n].source = "Value"
                                       /\ n \notin SeenP!OpenNodes'}
  <2>3. SeenP!Sealed' = SeenP!Reach(View', F)
    BY DEF SeenP!Sealed
  <2>4. F \in SUBSET Node /\ new \notin F
    <3>1. View'[new].source = "ExplicitTable"
      BY <1>3, <1>4, <1>7
    <3> QED
      BY <3>1 DEF SeenP!Node, Node
  <2> HIDE DEF F
  <2>5. SeenP!Reach(View', F) = F
    BY <1>8, <2>4, SameShapes
  <2> QED
    BY <2>1, <2>2, <2>3, <2>4, <2>5
<1>17. SeenP!RootsApart' /\ SeenP!Loose'
  <2>1. Earlier' \subseteq 1..new /\ new \notin Earlier'
    BY <1>4, <1>6 DEF Node
  <2>2. SeenP!RootsApart'
    BY <1>1, <1>2, <1>16, <2>1 DEF SeenP!RootsApart, SeenP!Null, Null
  <2>3. SeenP!LooseValues' \subseteq Node
    BY <1>4, <1>6, <1>16 DEF SeenP!LooseValues
  <2> QED
    BY <1>8, <2>2, <2>3, SameShapes DEF SeenP!Loose
<1>18. SeenP!InPlace' /\ SeenP!Held'
  <2>1. {new} \in SUBSET Node /\ SeenP!Reach(View', {new}) = {new}
    BY <1>4, <1>8, SameShapes
  <2>2. SeenP!InPlace'
    BY <1>1, <1>2, <1>16, <2>1 DEF SeenP!InPlace
  <2>3. new..new = {new}
    BY <1>4
  <2>4. SeenP!Held'
    BY <1>2, <1>16, <2>1, <2>3 DEF SeenP!Held
  <2> QED
    BY <2>2, <2>4
<1>19. SeenP!TreeInv'
  BY <1>13, <1>14, <1>15, <1>17, <1>18 DEF SeenP!TreeInv
<1>20. Seen!TreeInv'
  <2>1. (Seen!TreeInv <=> SeenP!TreeInv)'
    BY SameTreeInv, PTL
  <2> QED
    BY <1>19, <2>1
<1>21. RootsLoose'
  <2>1. /\ held \subseteq 1..used /\ returned \subseteq 1..used /\ held \cap returned = {}
        /\ 1..used \subseteq 1..new
    BY <1>1, <1>4 DEF RootsLoose
  <2> QED
    BY <1>2, <1>4, <2>1 DEF RootsLoose, Roots, g
<1>22. ParserApart'
  <2>1. Roots' = Roots /\ Roots \subseteq 1..used
    BY <1>1, <1>2 DEF Roots, RootsLoose
  <2>2. 1..used \subseteq {n \in Node : n < new}
    BY <1>1, <1>4, MaxNodesAssumption DEF Node
  <2>3. loop'.at.value < new
    <3>1. loop.at.value \in Nat /\ (loop.at.value # Null => loop.at.value <= used)
      BY <1>1, NodeTyping DEF LoopInPlace, Iterator
    <3>2. \A m \in Nat : m <= used \/ m = Null => m < new
      BY <1>1, <1>4 DEF Null
    <3> QED
      BY <1>2, <3>1, <3>2
  <2> QED
    BY <1>2, <1>4, <1>6, <1>20, <2>1, <2>2, <2>3 DEF ParserApart, g
<1>23. LoopInPlace'
  <2>1. loop.at.value # Null => loop.at.value \in Node /\ loop.at.value <= used
    BY <1>1, NodeTyping DEF LoopInPlace, Iterator
  <2>2. loop.at.value # Null => loop.at.value # new /\ loop.at.value <= new
    <3>1. \A m \in Nat : m <= used => m # new /\ m <= new
      BY <1>1, <1>4
    <3> QED
      BY <2>1, <3>1, NodeTyping
  <2> QED
    BY <1>1, <1>2, <1>4, <2>1, <2>2, LoopUnharmed DEF g
<1> QED
  BY <1>2, <1>4, <1>5, <1>11, <1>20, <1>21, <1>22, <1>23
  DEF UseInv, NothingLeft, NoLogicError, SectionsPast, NoTableDefinedTwice, g

----------------------------------------------------------------------------
\* The program at work

\* At the beginning there is no value.
LEMMA UseBegins == UseInit => UseInv
<1> SUFFICES ASSUME UseInit PROVE UseInv
  OBVIOUS
<1>1. /\ heap = [n \in Node |-> FreeCell] /\ used = 0 /\ document = Null /\ frames = <<>>
      /\ value = Null /\ walk = NoWalk /\ outcome = "idle" /\ returned = {} /\ sections = <<>>
      /\ held = {} /\ loop = NoLoop
  BY DEF UseInit, Init
<1>2. TypeOK /\ CellsInUse(heap, used) /\ SourcesFit(heap) /\ NoLogicError
  BY InitInv DEF IndInv, HeapInv, UseInit
<1>3. /\ heap \in Heap /\ \A n \in Node : heap[n].type = "Free" /\ heap[n].items = <<>>
      /\ \A n \in Node, k \in Key : heap[n].entries[k] = Null
  <2>1. \A n \in Node : n > used
    BY <1>1, NodeTyping
  <2> QED
    BY <1>2, <2>1 DEF TypeOK, CellsInUse
<1>4. /\ \A n \in Node : Children(heap, n) = {} /\ Places(heap, n) = {}
      /\ \A S \in SUBSET Node : Reach(heap, S) = S
  BY <1>3, NothingBelow
<1>5. OnePlace(heap) /\ NoCycle(heap)
  BY <1>4 DEF OnePlace, NoCycle
<1>6. TablesOnly(heap) /\ ItemsOfArrays(heap)
  BY <1>3 DEF TablesOnly, ItemsOfArrays
<1>7. RootsLoose /\ NothingLeft /\ SectionsPast /\ NoTableDefinedTwice /\ ParserApart
  BY <1>1 DEF RootsLoose, Roots, NothingLeft, SectionsPast, NoTableDefinedTwice, ParserApart, NoWalk
<1>8. LoopInPlace
  <2>1. SubSeq(<<>>, 1, 0) = <<>>
    OBVIOUS
  <2> QED
    BY <1>1, <2>1 DEF LoopInPlace, NoLoop, Iterator, Ref
<1> QED
  BY <1>2, <1>5, <1>6, <1>7, <1>8 DEF UseInv, HeapFits

\* Between two parses nothing but the heap, the roots and the loop matters.
LEMMA ProgramKeeps ==
    ASSUME UseInv, Idle,
           UNCHANGED <<document, currentTable, frames, value, walk, outcome, returned, sections, birth>>,
           heap' \in Heap, used' \in 0..MaxNodes, used <= used',
           HeapFits(heap', used'), RootsLoose', LoopInPlace'
    PROVE  UseInv'
<1>1. TypeOK /\ NothingLeft /\ SectionsPast /\ NoTableDefinedTwice /\ NoLogicError
  BY DEF UseInv
<1>2. TypeOK'
  BY <1>1 DEF TypeOK
<1>3. SectionsPast'
  <2>1. sections \in Seq(Node) /\ used \in Nat /\ used' \in Nat
    BY <1>1, NodeTyping DEF TypeOK
  <2>2. \A i \in DOMAIN sections : sections[i] \in Nat /\ sections[i] <= used
    BY <1>1, <2>1, NodeTyping DEF SectionsPast
  <2> QED
    BY <2>1, <2>2 DEF SectionsPast
<1> QED
  BY <1>1, <1>2, <1>3 DEF UseInv, NothingLeft, NoTableDefinedTwice, NoLogicError, ParserApart, Idle

\* What the program finds.
LEMMA ProgramFacts ==
    ASSUME UseInv
    PROVE  /\ heap \in Heap /\ used \in 0..MaxNodes /\ used \in Nat
           /\ HeapFits(heap, used) /\ CellsInUse(heap, used) /\ SourcesFit(heap)
           /\ OnePlace(heap) /\ NoCycle(heap) /\ TablesOnly(heap) /\ ItemsOfArrays(heap)
           /\ RootsLoose /\ LoopInPlace
           /\ Roots \in SUBSET Node /\ \A r \in Roots : Places(heap, r) = {}
           /\ Known \subseteq Node
           /\ \A n \in Node : heap[n].type # "Free" => n <= used
           /\ loop.at.value # Null => loop.at.value \in Node /\ loop.at.value <= used
<1>1. /\ heap \in Heap /\ used \in 0..MaxNodes /\ used \in Nat
      /\ HeapFits(heap, used) /\ RootsLoose /\ LoopInPlace
  BY DEF UseInv, TypeOK
<1>2. Roots \in SUBSET Node /\ \A r \in Roots : Places(heap, r) = {}
  <2>1. 1..used \subseteq Node
    BY <1>1, NodeTyping DEF Node
  <2> QED
    BY <1>1, <2>1 DEF RootsLoose, Roots
<1>3. Known \subseteq Node
  BY <1>1, <1>2, ReachIsLeast DEF Known
<1>4. \A n \in Node : heap[n].type # "Free" => n <= used
  BY <1>1, NodeTyping DEF HeapFits, CellsInUse
<1>5. loop.at.value # Null => loop.at.value \in Node /\ loop.at.value <= used
  BY <1>1, NodeTyping DEF LoopInPlace, Iterator
<1> QED
  BY <1>1, <1>2, <1>3, <1>4, <1>5 DEF HeapFits

\* A value the program creates is one more tree.
LEMMA CreateKeeps ==
    ASSUME UseInv, NEW cell, Blank(cell), cell.source = "Value", CreateValue(cell)
    PROVE  UseInv'
<1>1. /\ Idle /\ used < MaxNodes /\ heap' = Create(cell) /\ used' = new /\ held' = held \cup {new}
      /\ UNCHANGED <<document, currentTable, frames, value, walk, outcome, returned, sections, birth, loop>>
  BY DEF CreateValue, Changing
<1> DEFINE g == heap'
<1>2. /\ new = used + 1 /\ new \in Node /\ new \in Nat /\ new # Null /\ new > used
      /\ g \in Heap /\ g[new] = cell /\ \A n \in Node : n # new => g[n] = heap[n]
      /\ HeapFits(g, new)
      /\ new \notin Roots
      /\ \A r \in Roots \cup {new} : Places(g, r) = {}
  BY <1>1, ProgramFacts, NewTree
<1> HIDE DEF g
<1>3. used' \in 0..MaxNodes /\ used <= used'
  BY <1>1, <1>2, ProgramFacts, MaxNodesAssumption
<1>4. RootsLoose'
  <2>1. /\ held \subseteq 1..used /\ returned \subseteq 1..used /\ held \cap returned = {}
        /\ 1..used \subseteq 1..new /\ new \in 1..new
    BY <1>2, ProgramFacts DEF RootsLoose
  <2> QED
    BY <1>1, <1>2, <2>1 DEF RootsLoose, Roots, g
<1>5. LoopInPlace'
  <2>1. loop.at.value # Null => loop.at.value # new /\ loop.at.value <= new /\ loop.at.value \in Node
    <3>1. \A m \in Nat : m <= used => m # new /\ m <= new
      BY <1>2, ProgramFacts
    <3> QED
      BY <3>1, NodeTyping, ProgramFacts
  <2> QED
    BY <1>1, <1>2, <2>1, ProgramFacts, LoopUnharmed DEF g
<1> QED
  BY <1>1, <1>2, <1>3, <1>4, <1>5, ProgramKeeps DEF g

\* A table made explicit stays where it is.
LEMMA ExplicitKeeps ==
    ASSUME UseInv, NEW n \in Known, MakeExplicit(n)
    PROVE  UseInv'
<1>1. /\ Idle /\ isTable(heap, n) /\ heap' = makeExplicit(heap, n) /\ used' = used /\ n \in Node
      /\ UNCHANGED <<document, currentTable, frames, value, walk, outcome, returned, sections, birth, loop, held>>
  BY ProgramFacts DEF MakeExplicit, Changing
<1> DEFINE g == heap'
<1>2. MadeExplicit(heap, g, n)
  BY <1>1, ProgramFacts, MakeExplicitFields
<1> HIDE DEF g
<1>3. SameShape(heap, g) /\ CellsInUse(g, used) /\ SourcesFit(g) /\ g \in Heap
  BY <1>1, <1>2, ProgramFacts, ExplicitShape, ExplicitCells DEF MadeExplicit
<1>4. OnePlace(g) /\ NoCycle(g)
  BY <1>3, ProgramFacts, SameTree
<1>5. \A m \in Node : /\ g[m].type = heap[m].type /\ g[m].items = heap[m].items
                      /\ m # n => g[m].source = heap[m].source
  BY <1>2 DEF MadeExplicit
<1>6. TablesOnly(g) /\ ItemsOfArrays(g)
  <2>1. ItemsOfArrays(g)
    BY <1>5, ProgramFacts DEF ItemsOfArrays, isArray
  <2>2. TablesOnly(g)
    <3> SUFFICES ASSUME NEW m \in Node, isArray(g, m), g[m].source = "ExplicitTable",
                        NEW i \in DOMAIN g[m].items
                 PROVE  isTable(g, g[m].items[i])
      BY DEF TablesOnly
    <3>1. m # n
      BY <1>1, <1>5 DEF isArray, isTable
    <3>2. isTable(heap, heap[m].items[i]) /\ heap[m].items[i] \in Node
      BY <1>5, <3>1, ProgramFacts, HeapTyping DEF TablesOnly, isArray
    <3> QED
      BY <1>5, <3>2 DEF isTable
  <2> QED
    BY <2>1, <2>2
<1>7. RootsLoose'
  <2>1. \A r \in Roots : Places(g, r) = {}
    BY <1>3, ProgramFacts DEF SameShape
  <2> QED
    BY <1>1, <2>1, ProgramFacts DEF RootsLoose, Roots, g
<1>8. LoopInPlace'
  BY <1>1, <1>5, ProgramFacts, LoopUnharmed DEF g
<1> QED
  BY <1>1, <1>3, <1>4, <1>6, <1>7, <1>8, ProgramFacts, ProgramKeeps DEF g, HeapFits

\* A tree that is stored in another one is a tree of the program no more.
LEMMA StoreKeeps ==
    ASSUME UseInv, NEW n \in Known, NEW k \in Key, NEW v \in held, StoreValue(n, k, v)
    PROVE  UseInv'
<1> DEFINE f == setValue(heap, n, k, Null)
           g == setValue(heap, n, k, v)
<1>1. /\ Idle /\ isTable(heap, n) /\ heap' = g /\ used' = used /\ held' = held \ {v} /\ n \in Node
      /\ n \notin Reach(heap, {v})
      /\ UNCHANGED <<document, currentTable, frames, value, walk, outcome, returned, sections, birth, loop>>
  BY ProgramFacts DEF StoreValue, Changing, MayStore
<1>2. v \in Roots /\ v \in Node /\ v # Null /\ v \in Ref /\ v <= used /\ n <= used /\ v \notin returned
      /\ Null \in Ref
  <2>1. v \in Roots /\ v \in 1..used /\ v \notin returned
    BY ProgramFacts DEF Roots, RootsLoose
  <2>2. v \in Node
    BY <2>1, ProgramFacts
  <2>3. n <= used
    BY <1>1, ProgramFacts DEF isTable
  <2> QED
    BY <2>1, <2>2, <2>3, NodeTyping DEF Ref
<1>3. EntrySet(heap, f, n, k, Null) /\ EntrySet(heap, g, n, k, v)
  BY <1>1, <1>2, ProgramFacts, SetValueFields
<1>4. f \in Heap /\ g \in Heap
  BY <1>3 DEF EntrySet
<1> HIDE DEF f, g
<1>5. EntrySet(f, g, n, k, v) /\ f[n].entries[k] = Null
  BY <1>3 DEF EntrySet
<1>6. Attached(f, g, n, k, v)
  BY <1>1, <1>2, <1>4, <1>5, EntryAttached
<1>7. \A m \in Node : Children(f, m) \subseteq Children(heap, m) /\ Places(f, m) \subseteq Places(heap, m)
  <2> TAKE m \in Node
  <2>0. m # Null
    BY NodeTyping
  <2>1. \A p \in Node : f[p].items = heap[p].items
    BY <1>3 DEF EntrySet
  <2>2. \A p \in Node : \A j \in Key : f[p].entries[j] = Null \/ f[p].entries[j] = heap[p].entries[j]
    BY <1>3 DEF EntrySet
  <2>3. Children(f, m) \subseteq Children(heap, m)
    BY <2>1, <2>2 DEF Children
  <2>4. ASSUME NEW a \in Places(f, m) PROVE a \in Places(heap, m)
    <3>1. PICK p, x : p \in Node /\ a = <<p, x>>
      BY PlaceForm
    <3>2. \A h : <<p, x>> \in Places(h, m) <=> \/ x \in Key /\ h[p].entries[x] = m
                                               \/ x \in DOMAIN h[p].items /\ h[p].items[x] = m
      BY <3>1 DEF Places
    <3> QED
      BY <2>0, <2>1, <2>2, <3>1, <3>2
  <2> QED
    BY <2>3, <2>4
<1>8. OnePlace(f) /\ NoCycle(f) /\ Places(f, v) = {} /\ n \notin Reach(f, {v})
      /\ \A r \in Roots : Places(f, r) = {}
  <2>1. {v} \in SUBSET Node
    BY <1>2
  <2>2. OnePlace(f) /\ NoCycle(f) /\ Reach(f, {v}) \subseteq Reach(heap, {v})
    BY <1>4, <1>7, <2>1, ProgramFacts, FewerPlaces
  <2>3. \A r \in Roots : r \in Node /\ Places(heap, r) = {}
    BY ProgramFacts
  <2> QED
    BY <1>1, <1>2, <1>7, <2>2, <2>3
<1>9. OnePlace(g) /\ NoCycle(g)
  BY <1>1, <1>2, <1>4, <1>6, <1>8, AttachTree
<1>10. CellsInUse(g, used) /\ SourcesFit(g)
  BY <1>1, <1>2, <1>3, ProgramFacts, SetCells, SetArrays
<1>11. \A m \in Node : /\ g[m].type = heap[m].type /\ g[m].items = heap[m].items
                       /\ g[m].source = heap[m].source
  BY <1>3 DEF EntrySet
<1>12. TablesOnly(g) /\ ItemsOfArrays(g)
  <2>1. TablesOnly(heap) /\ ItemsOfArrays(heap) /\ heap \in Heap
    BY ProgramFacts
  <2>2. \A m \in Node : /\ isArray(g, m) = isArray(heap, m) /\ isTable(g, m) = isTable(heap, m)
                       /\ g[m].items = heap[m].items /\ g[m].source = heap[m].source
    BY ONLY <1>11 DEF isArray, isTable
  <2>3. \A m \in Node : \A i \in DOMAIN heap[m].items : heap[m].items[i] \in Node
    BY ONLY <2>1, HeapTyping
  <2>4. ItemsOfArrays(g)
    BY ONLY <2>1, <2>2 DEF ItemsOfArrays
  <2>5. TablesOnly(g)
    BY ONLY <2>1, <2>2, <2>3 DEF TablesOnly
  <2> QED
    BY <2>4, <2>5
<1>13. RootsLoose'
  <2>1. \A r \in Roots \ {v} : Places(g, r) = {}
    BY <1>6, <1>8, ProgramFacts DEF Attached
  <2>2. Roots' = Roots \ {v}
    BY <1>1, <1>2 DEF Roots
  <2> QED
    BY <1>1, <2>1, <2>2, ProgramFacts DEF RootsLoose
<1>14. LoopInPlace'
  BY <1>1, <1>11, ProgramFacts, LoopUnharmed
<1> QED
  BY <1>1, <1>4, <1>9, <1>10, <1>12, <1>13, <1>14, ProgramFacts, ProgramKeeps DEF HeapFits

\* And so with a tree that is appended to an array.
LEMMA AppendKeeps ==
    ASSUME UseInv, NEW n \in Known, NEW v \in held, AppendValue(n, v)
    PROVE  UseInv'
<1> DEFINE g == addValue(heap, n, v)
<1>1. /\ Idle /\ isArray(heap, n) /\ heap' = g /\ used' = used /\ n \in Node
      /\ held' = IF heap' = heap THEN held ELSE held \ {v}
      /\ n \notin Reach(heap, {v})
      /\ UNCHANGED <<document, currentTable, frames, value, walk, outcome, returned, sections, birth, loop>>
  BY ProgramFacts DEF AppendValue, Changing, MayStore
<1>2. v \in Roots /\ v \in Node /\ v <= used /\ n <= used /\ v \notin returned
  <2>1. v \in Roots /\ v \in 1..used /\ v \notin returned
    BY ProgramFacts DEF Roots, RootsLoose
  <2>2. v \in Node
    BY <2>1, ProgramFacts
  <2>3. n <= used
    BY <1>1, ProgramFacts DEF isArray
  <2> QED
    BY <2>1, <2>2, <2>3
<1>3. CASE ~ (heap[n].source = "ExplicitTable" => isTable(heap, v))
  <2>1. heap' = heap /\ held' = held
    BY <1>1, <1>3 DEF addValue
  <2>2. RootsLoose' /\ LoopInPlace'
    BY <1>1, <2>1, ProgramFacts DEF RootsLoose, Roots, LoopInPlace
  <2> QED
    BY <1>1, <2>1, <2>2, ProgramFacts, ProgramKeeps
<1>4. CASE heap[n].source = "ExplicitTable" => isTable(heap, v)
  <2>1. ItemAdded(heap, g, n, v)
    BY <1>1, <1>2, <1>4, ProgramFacts, AddValueFields
  <2> HIDE DEF g
  <2> DEFINE s == heap[n].items
             x == Len(s) + 1
  <2>2. /\ g \in Heap /\ s \in Seq(Node) /\ g[n].items = Append(s, v)
        /\ \A m \in Node : /\ g[m].type = heap[m].type /\ g[m].source = heap[m].source
                           /\ m # n => g[m].items = heap[m].items
    BY <1>1, <2>1, ProgramFacts, HeapTyping DEF ItemAdded
  <2>3. Attached(heap, g, n, x, v)
    BY <1>1, <1>2, <2>1, ProgramFacts, ItemAttached
  <2>4. /\ x \in DOMAIN g[n].items /\ x \notin DOMAIN s
        /\ \A i \in DOMAIN s : i \in DOMAIN g[n].items /\ g[n].items[i] = s[i]
        /\ \A i \in DOMAIN g[n].items : g[n].items[i] = v \/ (i \in DOMAIN s /\ g[n].items[i] = s[i])
    BY <1>2, <2>2, AppendItem
  <2> HIDE DEF x
  <2>5. heap' # heap
    BY <1>1, <2>4
  <2>6. OnePlace(g) /\ NoCycle(g)
    BY <1>1, <1>2, <2>2, <2>3, ProgramFacts, AttachTree
  <2>7. CellsInUse(g, used) /\ SourcesFit(g)
    BY <1>1, <1>2, <2>1, ProgramFacts, AddCells, AddLinks
  <2>8. TablesOnly(g)
    <3> SUFFICES ASSUME NEW m \in Node, isArray(g, m), g[m].source = "ExplicitTable",
                        NEW i \in DOMAIN g[m].items
                 PROVE  isTable(g, g[m].items[i])
      BY DEF TablesOnly
    <3>1. \A j \in DOMAIN heap[m].items : isTable(heap, heap[m].items[j]) /\ heap[m].items[j] \in Node
      BY <2>2, ProgramFacts, HeapTyping DEF TablesOnly, isArray
    <3>2. CASE m = n
      <4>1. isTable(heap, v) /\ i \in DOMAIN g[n].items
        BY <1>4, <2>2, <3>2
      <4>2. g[n].items[i] = v \/ (i \in DOMAIN s /\ g[n].items[i] = s[i])
        BY <2>4, <4>1
      <4>3. g[n].items[i] \in Node /\ isTable(heap, g[n].items[i])
        BY <1>2, <3>1, <3>2, <4>1, <4>2
      <4> QED
        BY <2>2, <3>2, <4>3 DEF isTable
    <3>3. CASE m # n
      BY <2>2, <3>1, <3>3 DEF isTable
    <3> QED
      BY <3>2, <3>3
  <2>9. ItemsOfArrays(g)
    BY <1>1, <2>2, ProgramFacts DEF ItemsOfArrays, isArray
  <2>10. RootsLoose'
    <3>1. \A r \in Roots \ {v} : Places(g, r) = {}
      BY <2>3, ProgramFacts DEF Attached
    <3>2. Roots' = Roots \ {v}
      BY <1>1, <1>2, <2>5 DEF Roots
    <3> QED
      BY <1>1, <2>5, <3>1, <3>2, ProgramFacts DEF RootsLoose
  <2>11. LoopInPlace'
    <3>1. \A m \in Node : \A i \in DOMAIN heap[m].items :
              i \in DOMAIN g[m].items /\ g[m].items[i] = heap[m].items[i]
      BY <2>2, <2>4
    <3> QED
      BY <1>1, <2>2, <3>1, ProgramFacts, LoopUnharmed
  <2> QED
    BY <1>1, <2>2, <2>6, <2>7, <2>8, <2>9, <2>10, <2>11, ProgramFacts, ProgramKeeps DEF HeapFits
<1> QED
  BY <1>3, <1>4

\* One longer part of a sequence.
LEMMA LongerPart ==
    ASSUME NEW s \in Seq(Node), NEW x \in Nat, x < Len(s)
    PROVE  /\ SubSeq(s, 1, x + 1) = Append(SubSeq(s, 1, x), s[x + 1])
           /\ SubSeq(s, 1, x + 1) \in Seq(Node)
<1> DEFINE t == SubSeq(s, 1, x)
           y == s[x + 1]
           z == SubSeq(s, 1, x + 1)
<1>1. Len(s) \in Nat /\ x + 1 \in DOMAIN s /\ y \in Node
  OBVIOUS
<1>2. t \in Seq(Node) /\ Len(t) = x /\ \A i \in 1..x : t[i] = s[i]
  BY <1>1
<1>3. z \in Seq(Node) /\ Len(z) = x + 1 /\ \A i \in 1..(x + 1) : z[i] = s[i]
  BY <1>1
<1>4. (\A i \in 1..x : z[i] = t[i]) /\ z[x + 1] = y
  BY <1>1, <1>2, <1>3
<1> HIDE DEF t, y, z
<1>5. /\ Append(t, y) \in Seq(Node) /\ Len(Append(t, y)) = x + 1
      /\ (\A i \in 1..x : Append(t, y)[i] = t[i]) /\ Append(t, y)[x + 1] = y
  BY <1>1, <1>2
<1>6. \A i \in 1..(x + 1) : i \in 1..x \/ i = x + 1
  OBVIOUS
<1>7. z = Append(t, y)
  BY <1>3, <1>4, <1>5, <1>6, SeqEqual
<1> QED
  BY <1>3, <1>7 DEF t, y, z

\* A step of a loop, or its begin or end, keeps the loop in place.
LEMMA LoopKeeps ==
    ASSUME UseInv, (\E n \in Known : BeginLoop(n)) \/ LoopStep \/ EndLoop
    PROVE  UseInv'
<1>1. /\ Idle /\ UNCHANGED <<heap, used, held>>
      /\ UNCHANGED <<document, currentTable, frames, value, walk, outcome, returned, sections, birth>>
  BY DEF BeginLoop, LoopStep, EndLoop, Reading, vars
<1>2. /\ loop \in [at : Iterator, last : Iterator, seen : Seq(Node), was : Seq(Node)]
      /\ loop.was \in Seq(Node) /\ loop.at \in Iterator /\ loop.last \in Iterator
      /\ loop.at.value = loop.last.value
      /\ loop.at.index <= loop.last.index /\ loop.last.index = Len(loop.was)
      /\ loop.seen = SubSeq(loop.was, 1, loop.at.index)
      /\ loop.at.value = Null => loop.was = <<>>
      /\ loop.at.value # Null =>
            /\ loop.at.value <= used
            /\ isArray(heap, loop.at.value)
            /\ \A i \in DOMAIN loop.was :
                  /\ i \in DOMAIN heap[loop.at.value].items
                  /\ heap[loop.at.value].items[i] = loop.was[i]
  BY DEF UseInv, LoopInPlace
<1>3. \A s \in Seq(Node) : SubSeq(s, 1, 0) = <<>>
  OBVIOUS
<1>4. ASSUME NEW n \in Known, BeginLoop(n) PROVE LoopInPlace'
  <2>1. n \in Node /\ heap[n].items \in Seq(Node) /\ n \in Nat /\ n # Null /\ n \in Ref
    BY ProgramFacts, HeapTyping, NodeTyping
  <2>2. loop' = [at |-> begin(heap, n), last |-> end(heap, n), seen |-> <<>>, was |-> heap[n].items]
    BY <1>4 DEF BeginLoop
  <2>3. CASE isArray(heap, n)
    <3>1. size(heap, n) = Len(heap[n].items)
      BY <2>3 DEF size, isTable, isArray
    <3>2. n <= used
      BY <2>1, <2>3, ProgramFacts DEF isArray
    <3>3. /\ begin(heap, n) = [value |-> n, index |-> 0]
          /\ end(heap, n) = [value |-> n, index |-> Len(heap[n].items)]
      BY <2>3, <3>1 DEF begin, end
    <3>4. Len(heap[n].items) \in Nat /\ SubSeq(heap[n].items, 1, 0) = <<>>
      BY <1>3, <2>1
    <3> QED
      BY <1>1, <2>1, <2>2, <2>3, <3>2, <3>3, <3>4 DEF LoopInPlace, Iterator
  <2>4. CASE ~isArray(heap, n)
    <3>1. heap[n].items = <<>>
      BY <2>1, <2>4, ProgramFacts DEF ItemsOfArrays
    <3>2. /\ begin(heap, n) = [value |-> Null, index |-> 0]
          /\ end(heap, n) = [value |-> Null, index |-> 0]
      BY <2>4 DEF begin, end
    <3>3. SubSeq(<<>>, 1, 0) = <<>> /\ Len(<<>>) = 0
      OBVIOUS
    <3> QED
      BY <2>1, <2>2, <3>1, <3>2, <3>3 DEF LoopInPlace, Iterator, Ref
  <2> QED
    BY <2>3, <2>4
<1>5. ASSUME LoopStep PROVE LoopInPlace'
  <2> DEFINE a == loop.at.value
             x == loop.at.index
             s == loop.was
  <2>1. x \in Nat /\ a \in Ref /\ Len(s) \in Nat /\ DOMAIN s = 1..Len(s) /\ s \in Seq(Node)
    BY <1>2 DEF Iterator
  <2>2. x # Len(s)
    <3>1. loop.at # loop.last
      BY <1>5 DEF LoopStep
    <3> QED
      BY <1>2, <3>1 DEF Iterator
  <2>3. x < Len(s) /\ x + 1 \in DOMAIN s
    BY <1>2, <2>1, <2>2
  <2>4. a # Null
    BY <1>2, <2>1, <2>3
  <2>5. /\ a <= used /\ isArray(heap, a) /\ a \in Node
        /\ x + 1 \in DOMAIN heap[a].items /\ heap[a].items[x + 1] = s[x + 1]
    BY <1>2, <2>3, <2>4, NodeTyping, ProgramFacts
  <2>6. heap[a].items \in Seq(Node) /\ size(heap, a) = Len(heap[a].items)
    BY <2>5, ProgramFacts, HeapTyping DEF size, isTable, isArray
  <2>7. x < size(heap, a)
    BY <2>1, <2>5, <2>6
  <2>8. OnElement(heap, loop.at)
    BY <2>4, <2>5, <2>7 DEF OnElement
  <2>9. Deref(heap, loop.at) = s[x + 1] /\ Increment(heap, loop.at) = [loop.at EXCEPT !.index = x + 1]
    BY <2>5, <2>6, <2>7, <2>8 DEF Deref, Increment, valueAt
  <2>10. /\ SubSeq(s, 1, x + 1) = Append(SubSeq(s, 1, x), s[x + 1])
         /\ SubSeq(s, 1, x + 1) \in Seq(Node)
    <3> HIDE DEF s, x
    <3> QED
      BY <2>1, <2>3, LongerPart
  <2>11. loop' = [loop EXCEPT !.seen = Append(@, s[x + 1]), !.at = [loop.at EXCEPT !.index = x + 1]]
    BY <1>5, <2>9 DEF LoopStep
  <2>12. /\ loop'.was = s /\ loop'.last = loop.last /\ loop'.at = [value |-> a, index |-> x + 1]
         /\ loop'.seen = SubSeq(s, 1, x + 1)
         /\ loop' \in [at : Iterator, last : Iterator, seen : Seq(Node), was : Seq(Node)]
    <3>1. loop.seen = SubSeq(s, 1, x)
      BY <1>2
    <3>2. [loop.at EXCEPT !.index = x + 1] = [value |-> a, index |-> x + 1]
      BY <1>2 DEF Iterator
    <3>3. [value |-> a, index |-> x + 1] \in Iterator
      BY <2>1 DEF Iterator
    <3> QED
      BY <1>2, <2>10, <2>11, <3>1, <3>2, <3>3
  <2>13. x + 1 <= Len(s) /\ x + 1 \in Nat
    BY <2>1, <2>3
  <2> HIDE DEF a, x, s
  <2>14. a = loop.at.value /\ s = loop.was
    BY DEF a, s
  <2> QED
    BY <1>1, <1>2, <2>1, <2>4, <2>12, <2>13, <2>14 DEF LoopInPlace, Iterator
<1>6. ASSUME EndLoop PROVE LoopInPlace'
  <2>1. SubSeq(<<>>, 1, 0) = <<>> /\ Len(<<>>) = 0 /\ loop' = NoLoop
    BY <1>6 DEF EndLoop
  <2> QED
    BY <2>1 DEF LoopInPlace, NoLoop, Iterator, Ref
<1>7. LoopInPlace'
  BY <1>4, <1>5, <1>6
<1>8. RootsLoose'
  BY <1>1, ProgramFacts DEF RootsLoose, Roots
<1> QED
  BY <1>1, <1>7, <1>8, ProgramFacts, ProgramKeeps

----------------------------------------------------------------------------
\* Copies

\* A copy of an array takes over all its elements: an array of tables holds
\* tables only.
LEMMA AllItemsKept ==
    ASSUME NEW h \in Heap, NEW n \in Node,
           h[n].source = "ExplicitTable" => \A i \in DOMAIN h[n].items : isTable(h, h[n].items[i])
    PROVE  KeptItems(h, n) = h[n].items
<1> DEFINE items == h[n].items
           l == Len(items)
           Kept(f) == f = [i \in 0..l |->
                             IF i = 0 THEN <<>>
                             ELSE IF h[n].source = "ExplicitTable" => isTable(h, items[i])
                               THEN Append(f[i - 1], items[i])
                               ELSE f[i - 1]]
           Part == [i \in 0..l |-> SubSeq(items, 1, i)]
<1>1. items \in Seq(Node) /\ l \in Nat /\ DOMAIN items = 1..l
  BY HeapTyping
<1>2. KeptItems(h, n) = (CHOOSE f : Kept(f))[l]
  BY DEF KeptItems
<1>3. \A i \in DOMAIN items : h[n].source = "ExplicitTable" => isTable(h, items[i])
  OBVIOUS
<1> HIDE DEF items, l
<1>4. /\ Part[0] = <<>>
      /\ \A i \in 1..l : i - 1 \in 0..l /\ Part[i] = Append(Part[i - 1], items[i])
  <2>1. SubSeq(items, 1, 0) = <<>>
    BY <1>1
  <2>2. ASSUME NEW i \in 1..l PROVE SubSeq(items, 1, i) = Append(SubSeq(items, 1, i - 1), items[i])
    <3>0. i \in 1..l /\ l \in Nat /\ l = Len(items)
      BY ONLY <1>1, <2>2 DEF l
    <3>1. i - 1 \in Nat /\ i - 1 < Len(items) /\ (i - 1) + 1 = i
      BY ONLY <3>0
    <3> QED
      BY <1>1, <3>1, LongerPart
  <2>3. \A j \in 0..l : Part[j] = SubSeq(items, 1, j)
    OBVIOUS
  <2>4. 0 \in 0..l /\ \A i \in 1..l : i - 1 \in 0..l /\ i \in 0..l
    BY ONLY <1>1
  <2> HIDE DEF Part
  <2>5. Part[0] = <<>>
    BY ONLY <2>1, <2>3, <2>4
  <2>6. \A i \in 1..l : Part[i] = Append(Part[i - 1], items[i])
    BY ONLY <2>2, <2>3, <2>4
  <2> QED
    BY <2>4, <2>5, <2>6
<1>5. ASSUME NEW i \in 0..l PROVE i = 0 \/ i \in 1..l
  BY <1>1
<1>6. Kept(Part)
  BY <1>1, <1>3, <1>4, <1>5
<1> DEFINE f == CHOOSE f : Kept(f)
<1>7. Kept(f)
  BY <1>6
<1> HIDE DEF f, Part
<1>8. /\ f[0] = <<>>
      /\ \A i \in 1..l : f[i] = Append(f[i - 1], items[i])
  <2>1. \A i \in 0..l : f[i] = IF i = 0 THEN <<>>
                              ELSE IF h[n].source = "ExplicitTable" => isTable(h, items[i])
                                THEN Append(f[i - 1], items[i])
                                ELSE f[i - 1]
    BY <1>7
  <2>2. 0 \in 0..l /\ \A i \in 1..l : i \in 0..l /\ i # 0 /\ i \in DOMAIN items
    BY <1>1
  <2> QED
    BY <1>3, <2>1, <2>2
<1> HIDE DEF Kept
<1> DEFINE wrong == {i \in 0..l : f[i] # Part[i]}
<1>9. wrong = {}
  <2> SUFFICES ASSUME wrong # {} PROVE FALSE
    OBVIOUS
  <2> DEFINE less == OpToRel(<, Nat)
  <2>1. \A a, b \in Nat : <<a, b>> \in less <=> a < b
    BY DEF OpToRel
  <2>2. IsWellFoundedOn(less, Nat)
    BY NatLessThanWellFounded
  <2>3. wrong \subseteq Nat /\ wrong # {}
    BY <1>1
  <2>4. \E a \in wrong : \A b \in wrong : ~ (<<b, a>> \in less)
    <3> HIDE DEF less, wrong
    <3> QED
      BY <2>2, <2>3, WFMin
  <2>5. PICK a \in wrong : \A b \in wrong : ~ (b < a)
    BY <2>1, <2>3, <2>4
  <2>6. a # 0
    BY <1>4, <1>8
  <2>7. a \in 1..l /\ a - 1 \in 0..l /\ a - 1 < a
    BY <1>1, <1>5, <2>6
  <2>8. f[a - 1] = Part[a - 1]
    BY <2>5, <2>7
  <2> QED
    BY <1>4, <1>8, <2>7, <2>8
<1>10. f[l] = Part[l]
  <2>1. l \in 0..l
    BY <1>1
  <2> QED
    BY <1>9, <2>1
<1>11. Part[l] = items
  <2>1. l \in 0..l /\ SubSeq(items, 1, l) = items
    BY <1>1, SubSeqFull DEF l
  <2> QED
    BY <2>1 DEF Part
<1>12. f[l] = items
  BY <1>10, <1>11
<1>13. KeptItems(h, n) = f[l]
  BY <1>2 DEF f
<1> QED
  BY <1>12, <1>13 DEF items

\* Every value of D has a cell of its own, and these cells are the ones up to w
\* that were free.
NextCells(D, copy, u, w) ==
    /\ \A o \in D : copy[o] \in (u + 1)..w
    /\ \A o, p \in D : copy[o] = copy[p] => o = p
    /\ \A m \in (u + 1)..w : \E o \in D : copy[o] = m

\* The cells of a copy are the next ones, one for each value that is copied.
LEMMA CopyCells ==
    ASSUME used \in Nat, NEW n, NEW D \in SUBSET Node, n \in D, D = Reach(heap, {n}),
           NEW copy, copy = CopyOf(n), NEW c, c = Cardinality(D)
    PROVE  /\ c \in Nat /\ DOMAIN copy = D /\ copy[n] = used + 1
           /\ NextCells(D, copy, used, used + c)
<1> DEFINE Before(m) == {o \in D : o # n /\ (m = n \/ o < m)}
<1>1. copy = [m \in D |-> IF m = n THEN new ELSE new + 1 + Cardinality(Before(m))]
  BY DEF CopyOf
<1>2. /\ IsFiniteSet(D) /\ c \in Nat
      /\ \A T \in SUBSET D : IsFiniteSet(T) /\ Cardinality(T) \in Nat /\ Cardinality(T) <= c
  <2>1. IsFiniteSet(Node)
    BY NodeTyping, FS_Interval DEF Node
  <2>2. IsFiniteSet(D)
    BY <2>1, FS_Subset
  <2> QED
    BY <2>2, FS_Subset, FS_CardinalityType
<1>3. \A m \in D : Before(m) \in SUBSET D
  OBVIOUS
<1>4. new = used + 1 /\ copy[n] = used + 1 /\ DOMAIN copy = D
  BY <1>1 DEF new
<1>5. ASSUME NEW m \in D, m # n
      PROVE  copy[m] = used + 2 + Cardinality(Before(m)) /\ Cardinality(Before(m)) + 2 <= c
  <2>1. copy[m] = new + 1 + Cardinality(Before(m))
    BY <1>1, <1>5
  <2> DEFINE B == Before(m)
  <2>2. B \in SUBSET D /\ n \notin B /\ m \notin B
    BY <1>5, NodeTyping
  <2> HIDE DEF B
  <2>3. /\ IsFiniteSet(B) /\ IsFiniteSet(B \cup {n}) /\ Cardinality(B \cup {n}) = Cardinality(B) + 1
    BY <1>2, <2>2, FS_AddElement
  <2>4. Cardinality((B \cup {n}) \cup {m}) = (Cardinality(B) + 1) + 1
    BY <1>5, <2>2, <2>3, FS_AddElement
  <2>5. (B \cup {n}) \cup {m} \in SUBSET D
    BY <1>5, <2>2
  <2>6. Cardinality((B \cup {n}) \cup {m}) <= c /\ Cardinality(B) \in Nat
    BY <1>2, <2>2, <2>5
  <2>7. (Cardinality(B) + 1) + 1 <= c
    BY <2>4, <2>6
  <2>8. \A x \in Nat : (used + 1) + 1 + x = used + 2 + x /\ (x + 1) + 1 = x + 2
    OBVIOUS
  <2> QED
    BY <1>4, <2>1, <2>6, <2>7, <2>8 DEF B
<1>6. \A m \in D : Cardinality(Before(m)) \in Nat
  BY <1>2, <1>3
<1>7. ASSUME NEW m \in D PROVE copy[m] \in (used + 1)..(used + c)
  <2>1. CASE m = n
    <3>1. Cardinality({n}) = 1 /\ {n} \in SUBSET D
      BY FS_Singleton
    <3>2. 1 <= c
      BY <1>2, <3>1
    <3> QED
      BY <1>2, <1>4, <2>1, <3>2
  <2>2. CASE m # n
    <3> DEFINE b == Cardinality(Before(m))
    <3>1. b \in Nat /\ copy[m] = used + 2 + b /\ b + 2 <= c
      BY <1>5, <1>6, <2>2
    <3> HIDE DEF b
    <3> QED
      BY <1>2, <3>1
  <2> QED
    BY <2>1, <2>2
<1>8. ASSUME NEW m \in D, NEW o \in D, m # n, o # n, m < o PROVE copy[m] # copy[o]
  <2> DEFINE B == Before(m)
             C == Before(o)
  <2>1. B \in SUBSET D /\ C \in SUBSET D /\ m \notin B /\ B \cup {m} \in SUBSET C
    BY <1>8, NodeTyping
  <2>2. copy[m] = used + 2 + Cardinality(B) /\ copy[o] = used + 2 + Cardinality(C)
    BY <1>5, <1>8
  <2> HIDE DEF B, C
  <2>3. Cardinality(B \cup {m}) = Cardinality(B) + 1 /\ Cardinality(B \cup {m}) <= Cardinality(C)
    BY <1>2, <2>1, FS_AddElement, FS_Subset
  <2>4. Cardinality(B) \in Nat /\ Cardinality(C) \in Nat
    BY <1>2, <2>1
  <2> QED
    BY <2>2, <2>3, <2>4
<1>9. ASSUME NEW m \in D, m # n PROVE copy[m] # copy[n]
  <2> DEFINE b == Cardinality(Before(m))
  <2>1. b \in Nat /\ copy[m] = used + 2 + b
    BY <1>5, <1>6, <1>9
  <2> HIDE DEF b
  <2> QED
    BY <1>4, <2>1
<1>10. \A o, p \in D : copy[o] = copy[p] => o = p
  <2> SUFFICES ASSUME NEW o \in D, NEW p \in D, o # p PROVE copy[o] # copy[p]
    OBVIOUS
  <2>1. o < p \/ p < o
    BY NodeTyping
  <2> QED
    BY <1>8, <1>9, <2>1
<1>11. \A m \in (used + 1)..(used + c) : \E o \in D : copy[o] = m
  <2> DEFINE T == (used + 1)..(used + c)
  <2>1. IsFiniteSet(T) /\ Cardinality(T) = c
    <3>1. used + 1 \in Int /\ used + c \in Int
      BY <1>2
    <3>2. IsFiniteSet(T) /\ Cardinality(T) = IF used + 1 > used + c THEN 0 ELSE (used + c) - (used + 1) + 1
      BY <3>1, FS_Interval
    <3> QED
      BY <1>2, <3>2
  <2>2. copy \in [D -> T]
    BY <1>1, <1>7
  <2> HIDE DEF T
  <2>3. copy \in Injection(D, T)
    BY <1>10, <2>2 DEF Injection, IsInjective
  <2>4. copy \in Surjection(D, T)
    BY <2>1, <2>3, FS_Injection
  <2> QED
    BY <2>4 DEF Surjection, T
<1> QED
  BY <1>2, <1>4, <1>7, <1>10, <1>11 DEF NextCells

\* In the heap g every value of D has a copy, which refers to the copies of what
\* the value refers to; no other value differs from the heap h.
Twins(h, g, D, copy, u) ==
    /\ D \subseteq Node /\ Closed(h, D) /\ g \in Heap
    /\ \A o \in D : o <= u /\ copy[o] \in Node /\ copy[o] > u
    /\ \A o, p \in D : copy[o] = copy[p] => o = p
    /\ \A o \in D :
          /\ g[copy[o]].type = h[o].type
          /\ g[copy[o]].source = h[o].source
          /\ \A k \in Key :
                g[copy[o]].entries[k] = IF h[o].entries[k] = Null THEN Null ELSE copy[h[o].entries[k]]
          /\ DOMAIN g[copy[o]].items = DOMAIN h[o].items
          /\ \A i \in DOMAIN h[o].items : g[copy[o]].items[i] = copy[h[o].items[i]]
    /\ \A m \in Node : (\A o \in D : copy[o] # m) => g[m] = h[m]

\* clone makes such copies.
LEMMA ClonedCells ==
    ASSUME NEW h \in Heap, NEW u \in Nat, NEW D \in SUBSET Node, Closed(h, D), TablesOnly(h), ItemsOfArrays(h),
           NEW copy,
           \A o \in D : o <= u /\ copy[o] \in Node /\ copy[o] > u,
           \A o, p \in D : copy[o] = copy[p] => o = p,
           NEW g, g = clone(h, D, copy)
    PROVE  Twins(h, g, D, copy, u)
<1> DEFINE ref(v) == IF v = Null THEN Null ELSE copy[v]
           twin(o) == [h[o] EXCEPT !.entries = [k \in Key |-> ref(@[k])],
                                   !.items = [i \in DOMAIN KeptItems(h, o) |-> copy[KeptItems(h, o)[i]]]]
<1>1. g = [m \in Node |-> IF \E o \in D : copy[o] = m
                            THEN twin(CHOOSE o \in D : copy[o] = m)
                            ELSE h[m]]
  BY DEF clone
<1>2. ASSUME NEW o \in D
      PROVE  /\ twin(o) \in Cell /\ twin(o).type = h[o].type /\ twin(o).source = h[o].source
             /\ \A k \in Key : twin(o).entries[k] = ref(h[o].entries[k])
             /\ DOMAIN twin(o).items = DOMAIN h[o].items
             /\ \A i \in DOMAIN h[o].items : twin(o).items[i] = copy[h[o].items[i]]
  <2>1. /\ h[o] \in Cell /\ h[o].items \in Seq(Node) /\ \A i \in DOMAIN h[o].items : h[o].items[i] \in D
        /\ \A k \in Key : h[o].entries[k] # Null => h[o].entries[k] \in D
    <3>1. h[o] \in Cell /\ h[o].items \in Seq(Node) /\ \A k \in Key : h[o].entries[k] \in Ref
      BY HeapTyping
    <3>2. \A i \in DOMAIN h[o].items : h[o].items[i] # Null
      BY HeapTyping, NodeTyping
    <3>3. Children(h, o) \subseteq D
      BY DEF Closed
    <3> QED
      BY <3>1, <3>2, <3>3 DEF Children
  <2>2. KeptItems(h, o) = h[o].items
    <3>1. h[o].source = "ExplicitTable" => \A i \in DOMAIN h[o].items : isTable(h, h[o].items[i])
      BY DEF TablesOnly, ItemsOfArrays
    <3> QED
      BY <3>1, AllItemsKept
  <2> DEFINE entries == [k \in Key |-> ref(h[o].entries[k])]
             items == [i \in DOMAIN h[o].items |-> copy[h[o].items[i]]]
  <2>3. entries \in [Key -> Ref]
    BY <2>1, NodeTyping DEF Ref
  <2>4. items \in Seq(Node) /\ DOMAIN items = DOMAIN h[o].items
    <3>1. DOMAIN h[o].items = 1..Len(h[o].items) /\ Len(h[o].items) \in Nat
      BY <2>1
    <3>2. \A i \in 1..Len(h[o].items) : copy[h[o].items[i]] \in Node
      BY <2>1, <3>1
    <3>3. items = [i \in 1..Len(h[o].items) |-> copy[h[o].items[i]]]
      BY <3>1
    <3> QED
      BY <3>1, <3>2, <3>3
  <2>5. twin(o) = [h[o] EXCEPT !.entries = entries, !.items = items]
    BY <2>2
  <2> HIDE DEF entries, items, twin
  <2>6. /\ twin(o) \in Cell /\ twin(o).type = h[o].type /\ twin(o).source = h[o].source
        /\ twin(o).entries = entries /\ twin(o).items = items
    BY <2>1, <2>3, <2>4, <2>5 DEF Cell
  <2> QED
    BY <2>4, <2>6 DEF entries, items
<1> HIDE DEF twin
<1>3. ASSUME NEW o \in D PROVE g[copy[o]] = twin(o)
  <2>1. (CHOOSE p \in D : copy[p] = copy[o]) = o
    OBVIOUS
  <2> QED
    BY <1>1, <2>1
<1>4. \A m \in Node : (\A o \in D : copy[o] # m) => g[m] = h[m]
  BY <1>1
<1>5. g \in Heap
  <2>1. ASSUME NEW m \in Node PROVE g[m] \in Cell
    <3>1. CASE \E o \in D : copy[o] = m
      BY <1>2, <1>3, <3>1
    <3>2. CASE ~ \E o \in D : copy[o] = m
      BY <1>4, <3>2, HeapTyping
    <3> QED
      BY <3>1, <3>2
  <2>2. g = [m \in Node |-> g[m]]
    BY <1>1
  <2> QED
    BY <2>1, <2>2 DEF Heap
<1> QED
  BY <1>2, <1>3, <1>4, <1>5 DEF Twins

\* A place of a heap with twins is one of the heap before, among the copies or
\* among the values before.
LEMMA TwinPlaces ==
    ASSUME NEW h \in Heap, NEW u \in Nat, CellsInUse(h, u),
           NEW g, NEW D, NEW copy, Twins(h, g, D, copy, u)
    PROVE  /\ \A m \in Node : m <= u => g[m] = h[m] /\ Children(g, m) = Children(h, m)
           /\ \A m \in Node : m > u /\ (\A o \in D : copy[o] # m) => Children(g, m) = {}
           /\ \A o \in D : Children(g, copy[o]) = {copy[x] : x \in Children(h, o)}
           /\ \A m, p \in Node : \A x : <<p, x>> \in Places(g, m) =>
                 \/ p <= u /\ m <= u /\ <<p, x>> \in Places(h, m)
                 \/ \E q, o \in D : p = copy[q] /\ m = copy[o] /\ <<q, x>> \in Places(h, o)
<1>0. /\ D \subseteq Node /\ Closed(h, D) /\ g \in Heap
      /\ \A o \in D : o <= u /\ copy[o] \in Node /\ copy[o] > u /\ o \in Node
      /\ \A m \in Node : m \in Nat /\ m # Null /\ (m <= u <=> ~ (m > u))
  BY NodeTyping DEF Twins
<1>1. ASSUME NEW m \in Node, m <= u PROVE g[m] = h[m] /\ Children(g, m) = Children(h, m)
  <2>1. \A o \in D : copy[o] # m
    BY <1>0, <1>1
  <2>2. g[m] = h[m]
    BY <2>1 DEF Twins
  <2> QED
    BY <2>2 DEF Children
<1>2. ASSUME NEW m \in Node, m > u, \A o \in D : copy[o] # m PROVE Children(g, m) = {} /\ g[m] = h[m]
  <2>1. g[m] = h[m]
    BY <1>2 DEF Twins
  <2>2. h[m].items = <<>> /\ \A k \in Key : h[m].entries[k] = Null
    BY <1>2 DEF CellsInUse
  <2> QED
    BY <2>1, <2>2 DEF Children
<1>3. ASSUME NEW o \in D
      PROVE  /\ \A k \in Key : h[o].entries[k] # Null => h[o].entries[k] \in D /\ h[o].entries[k] \in Children(h, o)
             /\ \A i \in DOMAIN h[o].items : h[o].items[i] \in D /\ h[o].items[i] \in Children(h, o)
             /\ Children(h, o) \subseteq D
  <2>1. \A i \in DOMAIN h[o].items : h[o].items[i] # Null
    BY <1>0, HeapTyping
  <2> QED
    BY <1>0, <2>1 DEF Closed, Children
<1>4. ASSUME NEW o \in D PROVE Children(g, copy[o]) = {copy[x] : x \in Children(h, o)}
  <2>0. /\ \A k \in Key : g[copy[o]].entries[k] = IF h[o].entries[k] = Null THEN Null ELSE copy[h[o].entries[k]]
        /\ DOMAIN g[copy[o]].items = DOMAIN h[o].items
        /\ \A i \in DOMAIN h[o].items : g[copy[o]].items[i] = copy[h[o].items[i]]
    BY DEF Twins
  <2>1. ASSUME NEW c \in Children(g, copy[o]) PROVE \E x \in Children(h, o) : c = copy[x]
    <3>1. \/ \E k \in Key : c = g[copy[o]].entries[k] /\ c # Null
          \/ \E i \in DOMAIN h[o].items : c = g[copy[o]].items[i]
      BY <2>0 DEF Children
    <3> QED
      BY <1>3, <2>0, <3>1
  <2>2. ASSUME NEW x \in Children(h, o) PROVE copy[x] \in Children(g, copy[o])
    <3>1. copy[x] # Null
      BY <1>0, <1>3
    <3>2. \/ \E k \in Key : x = h[o].entries[k] /\ x # Null
          \/ \E i \in DOMAIN h[o].items : x = h[o].items[i]
      BY DEF Children
    <3>3. CASE \E k \in Key : x = h[o].entries[k] /\ x # Null
      <4>1. PICK k \in Key : x = h[o].entries[k] /\ x # Null
        BY <3>3
      <4>2. g[copy[o]].entries[k] = copy[x]
        BY ONLY <2>0, <4>1
      <4> QED
        BY ONLY <3>1, <4>1, <4>2 DEF Children
    <3>4. CASE \E i \in DOMAIN h[o].items : x = h[o].items[i]
      <4>1. PICK i \in DOMAIN h[o].items : x = h[o].items[i]
        BY <3>4
      <4>2. i \in DOMAIN g[copy[o]].items /\ g[copy[o]].items[i] = copy[x]
        BY ONLY <2>0, <4>1
      <4> QED
        BY ONLY <3>1, <4>2 DEF Children
    <3> QED
      BY <3>2, <3>3, <3>4
  <2> QED
    BY <2>1, <2>2
<1>5. ASSUME NEW m \in Node, NEW p \in Node, NEW x, <<p, x>> \in Places(g, m)
      PROVE  \/ p <= u /\ m <= u /\ <<p, x>> \in Places(h, m)
             \/ \E q, o \in D : p = copy[q] /\ m = copy[o] /\ <<q, x>> \in Places(h, o)
  <2>0. m # Null
    BY NodeTyping
  <2>1. \/ x \in Key /\ g[p].entries[x] = m
        \/ x \in DOMAIN g[p].items /\ g[p].items[x] = m
    BY <1>5 DEF Places
  <2>2. m \in Children(g, p)
    BY <2>0, <2>1 DEF Children
  <2>3. CASE p <= u
    <3>1. g[p] = h[p] /\ m \in Children(h, p)
      BY <1>1, <2>2, <2>3
    <3>2. <<p, x>> \in Places(h, m)
      BY <1>5, <3>1, PlaceAt
    <3>3. m <= u
      BY <3>1, HeapTyping DEF Children, CellsInUse
    <3> QED
      BY <2>3, <3>2, <3>3
  <2>4. CASE \E q \in D : copy[q] = p
    <3>1. PICK q \in D : copy[q] = p
      BY <2>4
    <3>2. /\ \A k \in Key : g[p].entries[k] = IF h[q].entries[k] = Null THEN Null ELSE copy[h[q].entries[k]]
          /\ DOMAIN g[p].items = DOMAIN h[q].items
          /\ \A i \in DOMAIN h[q].items : g[p].items[i] = copy[h[q].items[i]]
      BY <3>1 DEF Twins
    <3>3. \A o : <<q, x>> \in Places(h, o) <=> \/ x \in Key /\ h[q].entries[x] = o
                                               \/ x \in DOMAIN h[q].items /\ h[q].items[x] = o
      BY <1>0 DEF Places
    <3>4. CASE x \in Key /\ g[p].entries[x] = m
      <4>1. h[q].entries[x] \in D /\ m = copy[h[q].entries[x]]
        BY <1>3, <2>0, <3>2, <3>4
      <4> QED
        BY <3>1, <3>3, <3>4, <4>1
    <3>5. CASE x \in DOMAIN g[p].items /\ g[p].items[x] = m
      <4>1. h[q].items[x] \in D /\ m = copy[h[q].items[x]] /\ x \in DOMAIN h[q].items
        BY <1>3, <3>2, <3>5
      <4> QED
        BY <3>1, <3>3, <3>5, <4>1
    <3> QED
      BY <2>1, <3>4, <3>5
  <2>5. CASE p > u /\ ~ \E q \in D : copy[q] = p
    BY <1>2, <2>2, <2>5
  <2> QED
    BY <1>0, <2>3, <2>4, <2>5
<1> QED
  BY <1>1, <1>2, <1>4, <1>5

\* The twins of trees are trees.
LEMMA TwinTrees ==
    ASSUME NEW h \in Heap, NEW u \in Nat, CellsInUse(h, u), OnePlace(h), NoCycle(h),
           NEW g, NEW D, NEW copy, Twins(h, g, D, copy, u)
    PROVE  /\ OnePlace(g) /\ NoCycle(g)
           /\ \A r \in Node : r <= u /\ Places(h, r) = {} => Places(g, r) = {}
           /\ \A n \in D : D = Reach(h, {n}) => Places(g, copy[n]) = {}
<1>0. /\ D \in SUBSET Node /\ Closed(h, D) /\ g \in Heap
      /\ \A o \in D : o <= u /\ copy[o] \in Node /\ copy[o] > u /\ o \in Node /\ ~ (copy[o] <= u)
      /\ \A o, p \in D : copy[o] = copy[p] => o = p
      /\ \A m \in Node : m \in Nat /\ m # Null /\ (m <= u <=> ~ (m > u))
  <2>1. \A m \in Node : m \in Nat /\ m # Null /\ (m <= u <=> ~ (m > u))
    BY NodeTyping
  <2> QED
    BY <2>1 DEF Twins
<1>1. /\ \A m \in Node : m <= u => g[m] = h[m] /\ Children(g, m) = Children(h, m)
      /\ \A m \in Node : m > u /\ (\A o \in D : copy[o] # m) => Children(g, m) = {}
      /\ \A o \in D : Children(g, copy[o]) = {copy[x] : x \in Children(h, o)}
      /\ \A m, p \in Node : \A x : <<p, x>> \in Places(g, m) =>
            \/ p <= u /\ m <= u /\ <<p, x>> \in Places(h, m)
            \/ \E q, o \in D : p = copy[q] /\ m = copy[o] /\ <<q, x>> \in Places(h, o)
  BY TwinPlaces
<1>2. ASSUME NEW m \in Node, m <= u, NEW p \in Node, NEW x, <<p, x>> \in Places(g, m)
      PROVE  <<p, x>> \in Places(h, m)
  <2>1. \A o \in D : copy[o] # m
    BY <1>0, <1>2
  <2>2. \/ p <= u /\ m <= u /\ <<p, x>> \in Places(h, m)
        \/ \E q, o \in D : p = copy[q] /\ m = copy[o] /\ <<q, x>> \in Places(h, o)
    BY <1>1, <1>2
  <2> QED
    BY <2>1, <2>2
<1>3. OnePlace(g)
  <2> SUFFICES ASSUME NEW m \in Node, NEW a \in Places(g, m), NEW b \in Places(g, m) PROVE a = b
    BY DEF OnePlace
  <2>1. PICK p, x : p \in Node /\ a = <<p, x>>
    BY PlaceForm
  <2>2. PICK q, y : q \in Node /\ b = <<q, y>>
    BY PlaceForm
  <2>3. CASE m <= u
    <3>1. a \in Places(h, m) /\ b \in Places(h, m)
      BY <1>2, <2>1, <2>2, <2>3
    <3> QED
      BY <3>1 DEF OnePlace
  <2>4. CASE ~ (m <= u)
    <3>1. PICK r, o \in D : p = copy[r] /\ m = copy[o] /\ <<r, x>> \in Places(h, o)
      BY <1>1, <2>1, <2>4
    <3>2. PICK s, t \in D : q = copy[s] /\ m = copy[t] /\ <<s, y>> \in Places(h, t)
      BY <1>1, <2>2, <2>4
    <3>3. o = t
      BY <1>0, <3>1, <3>2
    <3>4. <<r, x>> = <<s, y>>
      BY <1>0, <3>1, <3>2, <3>3 DEF OnePlace
    <3> QED
      BY <2>1, <2>2, <3>1, <3>2, <3>4
  <2> QED
    BY <2>3, <2>4
<1>4. ASSUME NEW m \in Node PROVE m \notin Reach(g, Children(g, m))
  <2>1. CASE m <= u
    <3> DEFINE E == {k \in Node : k <= u}
    <3>1. \A k \in E : Children(h, k) \subseteq E
      <4> SUFFICES ASSUME NEW k \in E, NEW c \in Children(h, k) PROVE c \in E
        OBVIOUS
      <4>1. c \in Node /\ c <= u
        BY ChildrenAreNodes DEF Children, CellsInUse
      <4> QED
        BY <4>1
    <3>2. Closed(h, E) /\ \A k \in E : Children(g, k) = Children(h, k)
      BY <1>1, <3>1 DEF Closed
    <3>3. E \in SUBSET Node /\ m \in E
      BY <2>1
    <3> HIDE DEF E
    <3>4. Children(g, m) = Children(h, m) /\ Children(h, m) \in SUBSET E
      BY <3>1, <3>2, <3>3
    <3>5. Reach(g, Children(h, m)) = Reach(h, Children(h, m))
      BY ONLY h \in Heap, <1>0, <3>2, <3>3, <3>4, ReachInPart
    <3> QED
      BY <3>4, <3>5 DEF NoCycle
  <2>2. CASE \E o \in D : copy[o] = m
    <3>1. PICK o \in D : copy[o] = m
      BY <2>2
    <3>2. Children(h, o) \in SUBSET Node /\ o \in Node /\ Children(h, o) \subseteq D
      BY <1>0, ChildrenAreNodes DEF Closed
    <3> DEFINE R == Reach(h, Children(h, o))
               C == {copy[x] : x \in R}
    <3>3. Children(h, o) \subseteq R /\ R \subseteq D /\ \A k \in R : Children(h, k) \subseteq R
      BY <1>0, <3>2, ReachIsLeast
    <3>4. o \notin R
      BY <3>2 DEF NoCycle
    <3> HIDE DEF R
    <3>5. Children(g, m) = {copy[x] : x \in Children(h, o)}
      BY <1>1, <3>1
    <3>6. Children(g, m) \subseteq C /\ Children(g, m) \in SUBSET Node
      BY <1>0, <3>2, <3>3, <3>5
    <3>7. Closed(g, C)
      <4>1. C \subseteq Node
        BY <1>0, <3>3
      <4>2. ASSUME NEW x \in R PROVE Children(g, copy[x]) \subseteq C
        BY <1>1, <3>3
      <4> QED
        BY <4>1, <4>2 DEF Closed
    <3>8. m \notin C
      BY <1>0, <3>1, <3>3, <3>4
    <3> HIDE DEF C
    <3> QED
      BY <1>0, <3>6, <3>7, <3>8, ReachIsLeast
  <2>3. CASE ~ (m <= u) /\ ~ \E o \in D : copy[o] = m
    <3>1. Children(g, m) = {}
      BY <1>0, <1>1, <2>3
    <3>2. Closed(g, {})
      BY DEF Closed
    <3>3. Reach(g, {}) \subseteq {}
      BY <1>0, <3>2, ReachIsLeast
    <3> QED
      BY <3>1, <3>3
  <2> QED
    BY <2>1, <2>2, <2>3
<1>5. ASSUME NEW r \in Node, r <= u, Places(h, r) = {} PROVE Places(g, r) = {}
  <2> SUFFICES ASSUME NEW a \in Places(g, r) PROVE FALSE
    OBVIOUS
  <2>1. PICK p, x : p \in Node /\ a = <<p, x>>
    BY PlaceForm
  <2>2. <<p, x>> \in Places(h, r)
    BY <1>5, <1>2, <2>1
  <2> QED
    BY <1>5, <2>2
<1>6. ASSUME NEW n \in D, D = Reach(h, {n}) PROVE Places(g, copy[n]) = {}
  <2> SUFFICES ASSUME NEW a \in Places(g, copy[n]) PROVE FALSE
    OBVIOUS
  <2>0. n \in Node /\ copy[n] \in Node /\ {n} \in SUBSET Node /\ Children(h, n) \in SUBSET Node
    BY <1>0, ChildrenAreNodes
  <2>1. PICK p, x : p \in Node /\ a = <<p, x>>
    BY <2>0, PlaceForm
  <2>2. PICK q, o \in D : copy[n] = copy[o] /\ <<q, x>> \in Places(h, o)
    BY <1>0, <1>1, <2>0, <2>1
  <2>3. <<q, x>> \in Places(h, n) /\ q \in Node
    BY <1>0, <2>2
  <2>4. n \in Children(h, q)
    BY <2>0, <2>3, ChildHasPlace
  <2> DEFINE R == Reach(h, Children(h, n))
  <2>5. Children(h, n) \subseteq R /\ R \subseteq Node /\ \A k \in R : Children(h, k) \subseteq R
    BY <2>0, ReachIsLeast
  <2>6. n \notin R
    BY <2>0 DEF NoCycle
  <2> HIDE DEF R
  <2>7. Closed(h, R \cup {n}) /\ {n} \subseteq R \cup {n}
    BY <2>0, <2>5 DEF Closed
  <2>8. Reach(h, {n}) \subseteq R \cup {n}
    BY <2>0, <2>7, ReachIsLeast
  <2>9. q \in R \cup {n}
    BY <1>6, <2>2, <2>8
  <2> QED
    BY <2>4, <2>5, <2>6, <2>9
<1> QED
  BY <1>3, <1>4, <1>5, <1>6 DEF NoCycle

\* And a heap that fits still does, with one more cell in use for each copy.
LEMMA TwinsFit ==
    ASSUME NEW h \in Heap, NEW u \in Nat, HeapFits(h, u),
           NEW g, NEW D, NEW copy, Twins(h, g, D, copy, u), \A o \in D : h[o].type # "Free",
           NEW w \in Nat, u <= w, NextCells(D, copy, u, w)
    PROVE  HeapFits(g, w)
<1>0. /\ CellsInUse(h, u) /\ SourcesFit(h) /\ OnePlace(h) /\ NoCycle(h) /\ TablesOnly(h) /\ ItemsOfArrays(h)
      /\ D \subseteq Node /\ Closed(h, D) /\ g \in Heap
  BY DEF HeapFits, Twins
<1>1. /\ \A o \in D : copy[o] <= w
      /\ \A m \in (u + 1)..w : \E o \in D : copy[o] = m
  BY DEF NextCells
<1>2. \A m \in Node : /\ m \in Nat /\ (m <= u \/ m > u) /\ ~ (m <= u /\ m > u)
                      /\ m > u => m > w \/ \E o \in D : copy[o] = m
                      /\ m > w => m > u
                      /\ m <= u => m <= w /\ ~ (m > w)
                      /\ m <= w => ~ (m > w)
  BY <1>1, NodeTyping
<1>3. ASSUME NEW m \in Node
      PROVE  \/ g[m] = h[m] /\ (m <= u \/ m > w)
             \/ m <= w /\ m > u /\ \E o \in D : copy[o] = m
  <2>1. CASE \E o \in D : copy[o] = m
    BY <1>1, <2>1 DEF Twins
  <2>2. CASE ~ \E o \in D : copy[o] = m
    BY <1>2, <2>2 DEF Twins
  <2> QED
    BY <2>1, <2>2
<1>4. ASSUME NEW o \in D
      PROVE  /\ copy[o] \in Node /\ copy[o] <= w /\ copy[o] > u
             /\ g[copy[o]].type = h[o].type
             /\ g[copy[o]].source = h[o].source
             /\ \A k \in Key : g[copy[o]].entries[k] = Null \/ \E x \in D : g[copy[o]].entries[k] = copy[x]
             /\ DOMAIN g[copy[o]].items = DOMAIN h[o].items
             /\ \A i \in DOMAIN h[o].items : h[o].items[i] \in D /\ g[copy[o]].items[i] = copy[h[o].items[i]]
  <2>1. \A i \in DOMAIN h[o].items : h[o].items[i] \in D
    BY <1>0, HeapTyping, NodeTyping DEF Closed, Children
  <2>2. \A k \in Key : h[o].entries[k] # Null => h[o].entries[k] \in D
    BY <1>0 DEF Closed, Children
  <2> QED
    BY <1>1, <2>1, <2>2 DEF Twins
<1>5. CellsInUse(g, w)
  <2>1. ASSUME NEW m \in Node
        PROVE  /\ g[m].type = "Free" <=> m > w
               /\ m > w => g[m].items = <<>> /\ \A k \in Key : g[m].entries[k] = Null
               /\ \A k \in Key : g[m].entries[k] <= w
               /\ \A i \in DOMAIN g[m].items : g[m].items[i] <= w
    <3>1. CASE g[m] = h[m] /\ (m <= u \/ m > w)
      <4>1. h[m].type = "Free" <=> m > u
        BY <1>0 DEF CellsInUse
      <4>2. m > w => h[m].items = <<>> /\ \A k \in Key : h[m].entries[k] = Null
        BY <1>0, <1>2 DEF CellsInUse
      <4>3. /\ \A k \in Key : h[m].entries[k] \in Nat /\ h[m].entries[k] <= u
            /\ \A i \in DOMAIN h[m].items : h[m].items[i] \in Nat /\ h[m].items[i] <= u
        BY <1>0, HeapTyping, NodeTyping DEF CellsInUse
      <4>4. \A r \in Nat : r <= u => r <= w
        OBVIOUS
      <4> QED
        BY <1>2, <3>1, <4>1, <4>2, <4>3, <4>4
    <3>2. CASE m <= w /\ m > u /\ \E o \in D : copy[o] = m
      <4>1. PICK o \in D : copy[o] = m
        BY <3>2
      <4>2. Null <= w
        BY DEF Null
      <4> QED
        BY <1>2, <1>4, <3>2, <4>1, <4>2
    <3> QED
      BY <1>3, <3>1, <3>2
  <2> QED
    BY <2>1 DEF CellsInUse
<1>6. SourcesFit(g) /\ ItemsOfArrays(g)
  <2>1. ASSUME NEW m \in Node
        PROVE  /\ g[m].source # "Value" => isTable(g, m) \/ isArray(g, m)
               /\ ~isArray(g, m) => g[m].items = <<>>
    <3>1. CASE g[m] = h[m]
      BY <1>0, <3>1 DEF SourcesFit, ItemsOfArrays, isTable, isArray
    <3>2. CASE \E o \in D : copy[o] = m
      <4>1. PICK o \in D : copy[o] = m
        BY <3>2
      <4>2. g[m].items \in Seq(Node) /\ h[o].items \in Seq(Node)
        BY <1>0, HeapTyping
      <4>3. h[o].items = <<>> => g[m].items = <<>>
        <5>1. ASSUME h[o].items = <<>> PROVE DOMAIN g[m].items = {}
          BY <1>4, <4>1, <5>1
        <5>2. \A s \in Seq(Node) : DOMAIN s = {} => s = <<>>
          <6> SUFFICES ASSUME NEW s \in Seq(Node), DOMAIN s = {} PROVE s = <<>>
            OBVIOUS
          <6>1. DOMAIN s = 1..Len(s) /\ Len(s) \in Nat
            OBVIOUS
          <6>2. Len(s) = 0
            BY <6>1
          <6> QED
            BY <6>2
        <5> QED
          BY <4>2, <5>1, <5>2
      <4> QED
        BY <1>0, <1>4, <4>1, <4>3 DEF SourcesFit, ItemsOfArrays, isTable, isArray
    <3> QED
      BY <1>3, <3>1, <3>2
  <2> QED
    BY <2>1 DEF SourcesFit, ItemsOfArrays
<1>7. TablesOnly(g)
  <2> SUFFICES ASSUME NEW m \in Node, isArray(g, m), g[m].source = "ExplicitTable",
                      NEW i \in DOMAIN g[m].items
               PROVE  isTable(g, g[m].items[i])
    BY DEF TablesOnly
  <2>1. CASE g[m] = h[m] /\ (m <= u \/ m > w)
    <3>1. isTable(h, h[m].items[i]) /\ h[m].items[i] \in Node /\ h[m].items[i] <= u
      BY <1>0, <2>1, HeapTyping DEF TablesOnly, isArray, CellsInUse
    <3>2. g[h[m].items[i]] = h[h[m].items[i]]
      BY <1>2, <1>3, <3>1
    <3> QED
      BY <2>1, <3>1, <3>2 DEF isTable
  <2>2. CASE \E o \in D : copy[o] = m
    <3>1. PICK o \in D : copy[o] = m
      BY <2>2
    <3>2. isTable(h, h[o].items[i]) /\ h[o].items[i] \in D /\ g[m].items[i] = copy[h[o].items[i]]
      BY <1>0, <1>4, <3>1 DEF TablesOnly, isArray
    <3> QED
      BY <1>4, <3>2 DEF isTable
  <2> QED
    BY <1>3, <2>1, <2>2
<1>8. OnePlace(g) /\ NoCycle(g)
  BY <1>0, TwinTrees
<1> QED
  BY <1>5, <1>6, <1>7, <1>8 DEF HeapFits

\* What the program can reach are values in use.
LEMMA KnownInUse ==
    ASSUME UseInv, NEW n \in Known
    PROVE  /\ n \in Node /\ Reach(heap, {n}) \in SUBSET Node /\ n \in Reach(heap, {n})
           /\ Closed(heap, Reach(heap, {n}))
           /\ \A o \in Reach(heap, {n}) : o <= used /\ heap[o].type # "Free"
<1> DEFINE E == {k \in Node : k <= used}
<1>1. \A k \in E : Children(heap, k) \subseteq E
  <2> SUFFICES ASSUME NEW k \in E, NEW c \in Children(heap, k) PROVE c \in E
    OBVIOUS
  <2>1. c \in Node /\ c <= used
    BY ProgramFacts, ChildrenAreNodes DEF Children, CellsInUse
  <2> QED
    BY <2>1
<1>2. Closed(heap, E) /\ E \in SUBSET Node
  BY <1>1 DEF Closed
<1>3. Roots \subseteq E
  <2>1. Roots \subseteq Node /\ Roots \subseteq 1..used
    BY ProgramFacts DEF RootsLoose, Roots
  <2> QED
    BY <2>1, ProgramFacts
<1>4. Known \subseteq E
  BY <1>2, <1>3, ProgramFacts, ReachIsLeast DEF Known
<1>5. n \in Node /\ {n} \in SUBSET Node /\ {n} \subseteq E
  BY <1>4
<1>6. Reach(heap, {n}) \subseteq E
  BY <1>2, <1>5, ProgramFacts, ReachIsLeast
<1>7. \A o \in E : o <= used /\ heap[o].type # "Free"
  <2>1. \A o \in E : ~ (o > used)
    BY ProgramFacts, NodeTyping
  <2> QED
    BY <2>1, ProgramFacts DEF CellsInUse
<1> HIDE DEF E
<1> QED
  BY <1>5, <1>6, <1>7, ProgramFacts, ReachIsLeast DEF Closed

\* A copy is a twin of its original.
LEMMA CloneTwins ==
    ASSUME UseInv, NEW n \in Known, CloneValue(n),
           NEW D, D = Reach(heap, {n}), NEW copy, copy = CopyOf(n)
    PROVE  /\ Twins(heap, heap', D, copy, used)
           /\ copy[n] = new /\ new \in Node /\ new > used /\ n \in D
           /\ used' \in 0..MaxNodes /\ used < used'
           /\ NextCells(D, copy, used, used')
           /\ \A o \in D : content'[copy[o]] = content[o]
           /\ held' = held \cup {new}
           /\ Idle /\ UNCHANGED <<document, currentTable, frames, value, walk, outcome, returned, sections,
                                  birth, loop>>
<1> DEFINE c == Cardinality(D)
<1>1. /\ used \in Nat /\ used \in 0..MaxNodes /\ heap \in Heap /\ TablesOnly(heap) /\ ItemsOfArrays(heap)
      /\ D \in SUBSET Node /\ n \in D /\ n \in Node /\ Closed(heap, D) /\ \A o \in D : o <= used
  BY KnownInUse, ProgramFacts
<1>2. /\ c \in Nat /\ DOMAIN copy = D /\ copy[n] = used + 1
      /\ NextCells(D, copy, used, used + c)
  <2>1. c = Cardinality(D)
    OBVIOUS
  <2> HIDE DEF c
  <2> QED
    BY <1>1, <2>1, CopyCells
<1>3. \A o, p \in D : copy[o] = copy[p] => o = p
  BY <1>2 DEF NextCells
<1>4. /\ Idle /\ used + c <= MaxNodes /\ heap' = clone(heap, D, copy) /\ used' = used + c
      /\ held' = held \cup {new}
      /\ content' = [m \in Node |-> IF \E o \in D : copy[o] = m
                                      THEN content[CHOOSE o \in D : copy[o] = m]
                                      ELSE content[m]]
      /\ UNCHANGED <<document, currentTable, frames, value, walk, outcome, returned, sections, birth, loop>>
  BY <1>2 DEF CloneValue, Changing
<1> HIDE DEF c
<1>5. \A o \in D : copy[o] \in Node /\ copy[o] > used /\ copy[o] <= used'
  <2>1. \A m \in (used + 1)..(used + c) : m \in Node /\ m > used /\ m <= used + c
    BY <1>1, <1>2, <1>4, NodeTyping DEF Node
  <2> QED
    BY <1>2, <1>4, <2>1 DEF NextCells
<1>6. Twins(heap, heap', D, copy, used)
  <2> DEFINE g == heap'
  <2>1. g = clone(heap, D, copy)
    BY <1>4
  <2> HIDE DEF g
  <2>2. Twins(heap, g, D, copy, used)
    BY ONLY <1>1, <1>3, <1>5, <2>1, ClonedCells
  <2> QED
    BY <2>2 DEF g
<1>7. \A o \in D : content'[copy[o]] = content[o]
  <2> TAKE o \in D
  <2>1. (CHOOSE p \in D : copy[p] = copy[o]) = o
    BY <1>3
  <2> QED
    BY <1>4, <1>5, <2>1
<1>8. copy[n] = new /\ new \in Node /\ new > used /\ used < used' /\ used' \in 0..MaxNodes
  <2>1. new = used + 1 /\ copy[n] = new
    BY <1>2 DEF new
  <2>2. new \in Node /\ new > used /\ new <= used'
    BY <1>1, <1>5, <2>1
  <2> QED
    BY <1>1, <1>2, <1>4, <2>1, <2>2, NodeTyping
<1> QED
  BY <1>1, <1>2, <1>4, <1>5, <1>6, <1>7, <1>8

\* The copy is one more tree.
LEMMA CloneKeeps ==
    ASSUME UseInv, NEW n \in Known, CloneValue(n)
    PROVE  UseInv'
<1> DEFINE D == Reach(heap, {n})
           copy == CopyOf(n)
           g == heap'
           w == used'
<1>1. /\ Twins(heap, g, D, copy, used)
      /\ copy[n] = new /\ new \in Node /\ new > used /\ n \in D
      /\ w \in 0..MaxNodes /\ used < w
      /\ NextCells(D, copy, used, w)
      /\ held' = held \cup {new}
      /\ Idle /\ UNCHANGED <<document, currentTable, frames, value, walk, outcome, returned, sections,
                             birth, loop>>
  BY CloneTwins
<1>2. \A o \in D : heap[o].type # "Free"
  BY KnownInUse
<1>3. used \in Nat /\ w \in Nat /\ used <= w /\ new <= w
  <2>1. used \in Nat /\ w \in Nat /\ used < w
    BY <1>1, ProgramFacts, NodeTyping
  <2> HIDE DEF w
  <2> QED
    BY <2>1 DEF new
<1>4. D = Reach(heap, {n}) /\ heap \in Heap /\ HeapFits(heap, used)
  BY ProgramFacts
<1> HIDE DEF D, copy, g, w
<1>5. HeapFits(g, w) /\ g \in Heap
  <2>1. Twins(heap, g, D, copy, used) /\ NextCells(D, copy, used, w)
    BY <1>1
  <2>2. HeapFits(g, w)
    BY ONLY <1>2, <1>3, <1>4, <2>1, TwinsFit
  <2> QED
    BY <2>1, <2>2 DEF Twins
<1>6. /\ \A r \in Node : r <= used /\ Places(heap, r) = {} => Places(g, r) = {}
      /\ Places(g, new) = {}
  <2>1. CellsInUse(heap, used) /\ OnePlace(heap) /\ NoCycle(heap)
    BY ProgramFacts
  <2>2. /\ \A r \in Node : r <= used /\ Places(heap, r) = {} => Places(g, r) = {}
        /\ \A m \in D : D = Reach(heap, {m}) => Places(g, copy[m]) = {}
    BY ONLY <1>1, <1>3, <1>4, <2>1, TwinTrees
  <2> QED
    BY <1>1, <1>4, <2>2
<1>7. \A m \in Node : m <= used => g[m] = heap[m]
  <2>1. CellsInUse(heap, used)
    BY ProgramFacts
  <2> QED
    BY ONLY <1>1, <1>3, <1>4, <2>1, TwinPlaces
<1>8. RootsLoose'
  <2>1. /\ held \subseteq 1..used /\ returned \subseteq 1..used /\ held \cap returned = {}
        /\ 1..used \subseteq 1..w /\ new \in 1..w /\ new \notin 1..used
    BY <1>1, <1>3, ProgramFacts, NodeTyping DEF RootsLoose
  <2>20. Roots \in SUBSET Node /\ \A r \in Roots : Places(heap, r) = {}
    BY ONLY UseInv, ProgramFacts
  <2>21. Roots \subseteq 1..used /\ used \in Nat
    BY <2>1, ProgramFacts DEF Roots
  <2>22. \A r \in Roots : r <= used
    BY ONLY <2>21
  <2>2. \A r \in Roots : r \in Node /\ r <= used /\ Places(heap, r) = {}
    BY ONLY <2>20, <2>22
  <2>3. \A r \in Roots \cup {new} : Places(g, r) = {}
    BY ONLY <1>6, <2>2
  <2>4. Roots' = Roots \cup {new}
    BY <1>1 DEF Roots
  <2> QED
    BY <1>1, <2>1, <2>3, <2>4 DEF RootsLoose, g, w
<1>9. LoopInPlace'
  <2>1. loop.at.value # Null => loop.at.value \in Node /\ loop.at.value <= used
    BY ProgramFacts
  <2>2. loop.at.value # Null => loop.at.value <= w
    BY <1>3, <2>1, NodeTyping
  <2> QED
    BY <1>1, <1>3, <1>7, <2>1, <2>2, ProgramFacts, LoopUnharmed DEF g, w
<1> QED
  BY <1>1, <1>3, <1>5, <1>8, <1>9, ProgramKeeps DEF g, w

----------------------------------------------------------------------------
\* The invariant

\* What the program does to the documents preserves the invariant.
LEMMA UseKeeps == UseInv /\ Use => UseInv'
<1> SUFFICES ASSUME UseInv, Use PROVE UseInv'
  OBVIOUS
<1>1. ASSUME NEW cell \in {NewScalar, NewTable("Value"), NewArray("Value")}, CreateValue(cell) PROVE UseInv'
  <2>1. Blank(cell) /\ cell.source = "Value"
    BY <1>1, BlankCells DEF NewScalar, NewTable, NewArray, FreeCell, Source
  <2> QED
    BY <1>1, <2>1, CreateKeeps
<1>2. ASSUME NEW n \in Known, NEW text \in Text, CreateFallback(n, text) PROVE UseInv'
  BY <1>1, <1>2 DEF CreateFallback
<1>3. ASSUME NEW n \in Known, NEW v \in held, (\E k \in Key : StoreValue(n, k, v)) \/ AppendValue(n, v)
      PROVE  UseInv'
  BY <1>3, StoreKeeps, AppendKeeps
<1>4. ASSUME NEW n \in Known, MakeExplicit(n) \/ CloneValue(n) PROVE UseInv'
  BY <1>4, ExplicitKeeps, CloneKeeps
<1> QED
  BY <1>1, <1>2, <1>3, <1>4, LoopKeeps DEF Use

\* Between two parses the parser can only begin the next one.
LEMMA FirstSteps == ASSUME Next, outcome # "parsing" PROVE BeginParse
<1>1. ~EndOfDocument /\ ~Abort
  BY DEF EndOfDocument, Abort, AtStatement
<1>2. ASSUME NEW path \in Path PROVE ~BeginStatement(path) /\ ~BeginInlineEntry(path)
  BY DEF BeginStatement, BeginTable, BeginArrayOfTables, BeginAssignment, BeginInlineEntry,
     AtStatement, InValue
<1>3. ~ParseValue
  BY DEF ParseValue, ParseScalar, OpenArray, OpenInlineTable, OpenValue, CloseValue, AddArrayItem,
     BeginInlineWalk, BeginAssignWalk, NeedsValue, HasValue, InValue
<1>4. ~Descend
  BY DEF Descend, DescendToNewTable, DescendToTable, DescendIntoArray, DescendConflict,
     Descending, Walking
<1>5. ~Bind
  BY DEF Bind, CreateNewTable, CreateImpliedTable, CreateNewArrayOfTables,
     ExtendArrayOfTables, AssignValue, AssignInlineEntry, CreateTableConflict,
     CreateArrayOfTablesConflict, AssignConflict, Binding, Walking
<1> QED
  BY <1>1, <1>2, <1>3, <1>4, <1>5 DEF Next

\* And so does every step of the parser.
LEMMA ParseKeeps == UseInv /\ Parse => UseInv'
<1> SUFFICES ASSUME UseInv, Next, UNCHANGED program PROVE UseInv'
  BY DEF Parse
<1> QED
  BY FirstSteps, ParseGoesOn, ParseEnds, ParseBegins

LEMMA UseNextInv == UseInv /\ [UseNext]_allVars => UseInv'
<1>1. ASSUME UseInv, UNCHANGED allVars PROVE UseInv'
  <2>1. UNCHANGED vars /\ UNCHANGED program
    BY <1>1 DEF allVars
  <2>2. CASE outcome = "parsing"
    <3>1. SeenP!TreeInv
      BY <1>1, <2>2, SameTreeInv DEF UseInv, ParserApart
    <3>2. UNCHANGED <<View, Earlier>>
      BY <2>1 DEF vars, View, ViewOf, Earlier
    <3>3. SeenP!TreeInv'
      BY <2>1, <3>1, <3>2, SeenAssumptions, SeenP!StutterTree DEF vars, SeenP!vars
    <3>4. (Seen!TreeInv <=> SeenP!TreeInv)'
      BY SameTreeInv, PTL
    <3>5. ParserApart'
      BY <1>1, <2>1, <2>2, <3>2, <3>3, <3>4 DEF UseInv, ParserApart, Roots, vars, program
    <3> QED
      BY <1>1, <2>1, <3>5
      DEF UseInv, vars, program, TypeOK, RootsLoose, Roots, NothingLeft, SectionsPast,
          NoTableDefinedTwice, NoLogicError, LoopInPlace
  <2>3. CASE outcome # "parsing"
    <3>1. Idle /\ TypeOK
      BY <1>1, <2>3 DEF Idle, UseInv
    <3>2. heap' \in Heap /\ used' \in 0..MaxNodes /\ used <= used' /\ HeapFits(heap', used')
      BY <1>1, <2>1, ProgramFacts DEF vars
    <3>3. RootsLoose' /\ LoopInPlace'
      BY <1>1, <2>1 DEF UseInv, vars, program, RootsLoose, Roots, LoopInPlace
    <3> QED
      BY <1>1, <2>1, <3>1, <3>2, <3>3, ProgramKeeps DEF vars
  <2> QED
    BY <2>2, <2>3
<1> QED
  BY <1>1, UseKeeps, ParseKeeps DEF UseNext

THEOREM UseInvariance == UseSpec => []UseInv
<1> QED
  BY UseBegins, UseNextInv, PTL DEF UseSpec


----------------------------------------------------------------------------
\* What the invariant means for the program

\* Documents, copies, new values and the document being parsed are separate
\* trees, at every moment (Value.hpp:37-38).
THEOREM TreesStaySeparate == UseSpec => []TreesAreSeparate
<1>1. ASSUME UseInv PROVE TreesAreSeparate
  <2> DEFINE S == Roots \cup ({document} \ {Null})
  <2>1. heap \in Heap /\ OnePlace(heap) /\ Roots \in SUBSET Node /\ \A r \in Roots : Places(heap, r) = {}
    BY <1>1, ProgramFacts
  <2>2. S \in SUBSET Node /\ \A r \in S : Places(heap, r) = {}
    <3>1. outcome = "parsing" => document \in Node /\ Places(heap, document) = {}
      BY <1>1, DocumentLoose
    <3>2. outcome # "parsing" => document = Null
      BY <1>1 DEF UseInv, NothingLeft
    <3> QED
      BY <2>1, <3>1, <3>2
  <2> SUFFICES ASSUME NEW r \in S, NEW s \in S, r # s
               PROVE  Reach(heap, {r}) \cap Reach(heap, {s}) = {}
    BY DEF TreesAreSeparate
  <2>3. /\ {r} \in SUBSET Node /\ {s} \in SUBSET Node /\ {r} \cap {s} = {}
        /\ \A x \in {r} \cup {s} : Places(heap, x) = {}
    BY <2>2
  <2> HIDE DEF S
  <2> QED
    BY <2>1, <2>3, TreesApart
<1> QED
  BY <1>1, UseInvariance, PTL

\* A loop over an array is given every element the array had when it began, in
\* order, whatever its body does to the documents (ValueIterator.cpp:20-61).
THEOREM LoopsSeeArrays == UseSpec => []LoopSeesTheArray
<1>1. ASSUME UseInv PROVE LoopSeesTheArray
  <2>1. /\ loop.was \in Seq(Node) /\ loop.seen = SubSeq(loop.was, 1, loop.at.index)
        /\ loop.last.index = Len(loop.was)
    BY <1>1 DEF UseInv, LoopInPlace
  <2>2. SubSeq(loop.was, 1, Len(loop.was)) = loop.was
    BY <2>1, SubSeqFull
  <2> QED
    BY <2>1, <2>2 DEF LoopSeesTheArray
<1> QED
  BY <1>1, UseInvariance, PTL

\* Whatever the program has done to the documents of earlier parses, the parser
\* throws no std::logic_error and defines no table twice
\* (ParserData.cpp:148-205, 224-233).
THEOREM ParserUndisturbed == UseSpec => [](TypeOK /\ NoLogicError /\ NoTableDefinedTwice)
<1>1. UseInv => TypeOK /\ NoLogicError /\ NoTableDefinedTwice
  BY DEF UseInv
<1> QED
  BY <1>1, UseInvariance, PTL

\* And the parser changes no value the program can reach: no document it has
\* returned, no copy, no new value (ParserData.cpp:27, 43-44).
THEOREM DocumentsOfTheProgramKept ==
    UseSpec => ReturnedDocumentsStay /\ [][Next => \A n \in Known : heap'[n] = heap[n]]_allVars
<1>1. ASSUME UseInv, Next PROVE \A n \in Known : heap'[n] = heap[n]
  <2> SUFFICES ASSUME NEW n \in Known PROVE heap'[n] = heap[n]
    OBVIOUS
  <2>1. CASE outcome = "parsing" /\ outcome' = "parsing"
    <3>1. /\ SeenP!TreeInv /\ heap \in Heap /\ heap \in PureHeap /\ ClosedBefore(heap, document)
          /\ Roots \in SUBSET Earlier /\ Earlier \in SUBSET Node
      BY <1>1, <2>1, SameTreeInv DEF UseInv, ParserApart, TypeOK, HeapFits, PureHeap, Earlier
    <3>2. \A m \in Earlier : heap'[m] = heap[m]
      BY <1>1, <2>1, <3>1, ParserSteps DEF SeenStep
    <3>3. Closed(heap, Earlier)
      <4> SUFFICES ASSUME NEW m \in Earlier, NEW c \in Children(heap, m) PROVE c \in Earlier
        BY <3>1 DEF Closed
      <4>1. m \in Node /\ c \in Node /\ c < document
        BY <3>1, ChildrenAreNodes DEF Earlier, ClosedBefore
      <4> QED
        BY <4>1 DEF Earlier
    <3>4. Known \subseteq Earlier
      BY <3>1, <3>3, ReachIsLeast DEF Known
    <3> QED
      BY <3>2, <3>4
  <2>2. CASE outcome = "parsing" /\ outcome' # "parsing"
    BY <1>1, <2>2, LastSteps
  <2>3. CASE outcome # "parsing"
    <3>1. BeginParse
      BY <1>1, <2>3, FirstSteps
    <3>2. n \in Node /\ n <= used /\ new = used + 1 /\ n \in Reach(heap, {n}) /\ used \in Nat
      BY <1>1, KnownInUse, ProgramFacts DEF new
    <3>3. n # new
      BY <3>2, NodeTyping
    <3>4. heap \in Heap
      BY <1>1, ProgramFacts
    <3> QED
      BY <3>1, <3>2, <3>3, <3>4 DEF BeginParse, Create, Heap
  <2> QED
    BY <2>1, <2>2, <2>3
<1>2. ASSUME UseInv PROVE Reach(heap, returned) \subseteq Known
  <2>1. heap \in Heap /\ Roots \in SUBSET Node /\ returned \subseteq Roots
    BY <1>2, ProgramFacts DEF Roots
  <2>2. Roots \subseteq Known /\ Closed(heap, Known)
    BY <2>1, ReachIsLeast DEF Known, Closed
  <2> QED
    BY <2>1, <2>2, ReachIsLeast
<1>3. UseInv => [Next => \A n \in Reach(heap, returned) : heap'[n] = heap[n]]_vars
  BY <1>1, <1>2
<1>4. UseInv => [Next => \A n \in Known : heap'[n] = heap[n]]_allVars
  BY <1>1
<1> QED
  BY <1>3, <1>4, UseInvariance, PTL DEF ReturnedDocumentsStay

----------------------------------------------------------------------------
\* Copies say the same

\* Among some values there is one that has none of them directly below it.
LEMMA LowestValue ==
    ASSUME NEW h \in Heap, NoCycle(h), NEW W \in SUBSET Node, W # {}
    PROVE  \E n \in W : Children(h, n) \cap W = {}
<1> DEFINE others(n) == Node \ Reach(h, {n})
           F == {others(n) : n \in W}
<1>1. F \in SUBSET (SUBSET Node) /\ F # {}
  OBVIOUS
<1>2. \E T \in F : \A U \in F : ~ (T \subseteq U /\ T # U)
  <2> HIDE DEF F
  <2> QED
    BY ONLY <1>1, LargestMember
<1>3. PICK n \in W : \A m \in W : ~ (others(n) \subseteq others(m) /\ others(n) # others(m))
  <2>1. PICK T \in F : \A U \in F : ~ (T \subseteq U /\ T # U)
    BY <1>2
  <2>2. PICK n \in W : T = others(n)
    BY <2>1
  <2>3. \A m \in W : others(m) \in F
    OBVIOUS
  <2> HIDE DEF F, others
  <2> QED
    BY <2>1, <2>2, <2>3
<1>4. ASSUME NEW c \in Children(h, n), c \in W PROVE FALSE
  <2>1. /\ n \in Node /\ c \in Node /\ {n} \in SUBSET Node /\ {c} \in SUBSET Node
        /\ Children(h, n) \in SUBSET Node
    BY <1>4, ChildrenAreNodes
  <2> DEFINE R == Reach(h, Children(h, n))
             Rn == Reach(h, {n})
             Rc == Reach(h, {c})
  <2>2. Children(h, n) \subseteq R /\ Closed(h, R)
    BY <2>1, ReachIsLeast DEF Closed
  <2>3. {n} \subseteq Rn /\ Closed(h, Rn) /\ {c} \subseteq Rc /\ Rc \subseteq Node
    BY <2>1, ReachIsLeast DEF Closed
  <2>4. Children(h, n) \subseteq Rn
    BY <2>3 DEF Closed
  <2> HIDE DEF R, Rn
  <2>5. Rc \subseteq R /\ Rc \subseteq Rn
    BY <1>4, <2>1, <2>2, <2>3, <2>4, ReachIsLeast
  <2>6. n \notin R
    BY <2>1 DEF NoCycle, R
  <2>7. n \in others(c) /\ n \notin others(n) /\ others(n) \subseteq others(c)
    BY <2>1, <2>3, <2>5, <2>6 DEF Rn
  <2> QED
    BY <1>3, <1>4, <2>7
<1> QED
  BY <1>4

\* toJson of a value, given that of the values below it.
JsonStep(h, c, J, n) ==
    CASE isTable(h, n) ->
           [type |-> "Table",
            entries |-> [k \in tableKeys(h, n) |-> J[h[n].entries[k]]]]
      [] isArray(h, n) ->
           [type |-> "Array",
            items |-> [i \in DOMAIN h[n].items |-> J[h[n].items[i]]]]
      [] OTHER -> [type |-> "Scalar", content |-> c[n]]

IsJson(h, c, C, J) == J = [n \in C |-> JsonStep(h, c, J, n)]

LEMMA JsonChosen ==
    ASSUME NEW h, NEW c, NEW n
    PROVE  toJson(h, c, n) = (CHOOSE J : IsJson(h, c, Node, J))[n]
  BY DEF toJson, IsJson, JsonStep

\* It depends on the values directly below only.
LEMMA JsonOfChildren ==
    ASSUME NEW h \in Heap, NEW c, NEW n \in Node, NEW I, NEW J,
           \A m \in Children(h, n) : I[m] = J[m]
    PROVE  JsonStep(h, c, I, n) = JsonStep(h, c, J, n)
<1>1. CASE isTable(h, n)
  <2>1. \A k \in tableKeys(h, n) : h[n].entries[k] \in Children(h, n)
    BY <1>1 DEF tableKeys, hasKey, valueFromKey, Children
  <2>2. [k \in tableKeys(h, n) |-> I[h[n].entries[k]]] = [k \in tableKeys(h, n) |-> J[h[n].entries[k]]]
    BY <2>1
  <2> QED
    BY <1>1, <2>2 DEF JsonStep, isTable, isArray
<1>2. CASE isArray(h, n)
  <2>1. \A i \in DOMAIN h[n].items : h[n].items[i] \in Children(h, n)
    BY HeapTyping, NodeTyping DEF Children
  <2>2. [i \in DOMAIN h[n].items |-> I[h[n].items[i]]] = [i \in DOMAIN h[n].items |-> J[h[n].items[i]]]
    BY <2>1
  <2> QED
    BY <1>2, <2>2 DEF JsonStep, isTable, isArray
<1>3. CASE ~isTable(h, n) /\ ~isArray(h, n)
  BY <1>3 DEF JsonStep
<1> QED
  BY <1>1, <1>2, <1>3

\* The recursion of toJson ends: a value that is not below itself is converted
\* after those below it.
LEMMA JsonExists ==
    ASSUME NEW h \in Heap, NoCycle(h), NEW c
    PROVE  \E J : IsJson(h, c, Node, J)
<1> DEFINE F == {C \in SUBSET Node : Closed(h, C) /\ \E J : IsJson(h, c, C, J)}
<1>1. F \in SUBSET (SUBSET Node)
  OBVIOUS
<1>2. {} \in F
  <2>1. Closed(h, {})
    BY DEF Closed
  <2>2. IsJson(h, c, {}, [n \in {} |-> 0])
    BY DEF IsJson
  <2> QED
    BY <2>1, <2>2
<1>3. \E T \in F : \A U \in F : ~ (T \subseteq U /\ T # U)
  <2> HIDE DEF F
  <2> QED
    BY ONLY <1>1, <1>2, LargestMember
<1>4. PICK T \in F : \A U \in F : ~ (T \subseteq U /\ T # U)
  BY <1>3
<1>5. PICK I : IsJson(h, c, T, I)
  BY <1>4
<1>6. CASE T = Node
  BY <1>5, <1>6
<1>7. CASE T # Node
  <2>1. PICK n \in Node \ T : Children(h, n) \cap (Node \ T) = {}
    BY <1>4, <1>7, LowestValue
  <2>2. Children(h, n) \subseteq T /\ n \in Node /\ T \subseteq Node /\ Closed(h, T) /\ n \notin T
    BY <1>4, <2>1, ChildrenAreNodes
  <2>3. Closed(h, T \cup {n})
    BY <2>2 DEF Closed
  <2> DEFINE J == [m \in T \cup {n} |-> JsonStep(h, c, I, m)]
  <2>4. \A m \in T : J[m] = I[m]
    BY <1>5 DEF IsJson
  <2>5. \A m \in T \cup {n} : Children(h, m) \subseteq T
    BY <2>2 DEF Closed
  <2> HIDE DEF J
  <2>6. \A m \in T \cup {n} : JsonStep(h, c, I, m) = JsonStep(h, c, J, m)
    <3> TAKE m \in T \cup {n}
    <3>1. m \in Node /\ \A x \in Children(h, m) : I[x] = J[x]
      BY <2>2, <2>4, <2>5
    <3> QED
      BY <3>1, JsonOfChildren
  <2>7. J = [m \in T \cup {n} |-> JsonStep(h, c, J, m)]
    BY <2>6 DEF J
  <2>8. T \cup {n} \in F
    BY <2>2, <2>3, <2>7 DEF IsJson
  <2> QED
    BY <1>4, <2>2, <2>8
<1> QED
  BY <1>6, <1>7

\* So the function toJson is defined by is there.
LEMMA JsonIsJson ==
    ASSUME NEW h \in Heap, NoCycle(h), NEW c, NEW n \in Node
    PROVE  /\ IsJson(h, c, Node, CHOOSE J : IsJson(h, c, Node, J))
           /\ toJson(h, c, n) = (CHOOSE J : IsJson(h, c, Node, J))[n]
  BY JsonExists, JsonChosen

\* Twins say the same.
LEMMA TwinsSayTheSame ==
    ASSUME NEW h \in Heap, NoCycle(h), NEW g, NoCycle(g), NEW u, NEW D, NEW copy,
           Twins(h, g, D, copy, u), NEW c, NEW d, \A o \in D : d[copy[o]] = c[o],
           NEW n \in D
    PROVE  toJson(g, d, copy[n]) = toJson(h, c, n)
<1> DEFINE I == CHOOSE J : IsJson(h, c, Node, J)
           K == CHOOSE J : IsJson(g, d, Node, J)
           W == {o \in D : K[copy[o]] # I[o]}
<1>1. g \in Heap /\ D \in SUBSET Node /\ Closed(h, D) /\ \A o \in D : copy[o] \in Node
  BY DEF Twins
<1>2. IsJson(h, c, Node, I) /\ toJson(h, c, n) = I[n]
  BY <1>1, JsonIsJson
<1>3. IsJson(g, d, Node, K) /\ toJson(g, d, copy[n]) = K[copy[n]]
  BY <1>1, JsonIsJson
<1> HIDE DEF I, K
<1>4. W = {}
  <2> SUFFICES ASSUME W # {} PROVE FALSE
    OBVIOUS
  <2>1. PICK o \in W : Children(h, o) \cap W = {}
    <3>1. W \in SUBSET Node /\ W # {}
      BY <1>1
    <3> HIDE DEF W
    <3> QED
      BY <3>1, LowestValue
  <2>2. o \in D /\ o \in Node /\ copy[o] \in Node /\ \A x \in Children(h, o) : x \in D /\ K[copy[x]] = I[x]
    BY <1>1, <2>1 DEF Closed
  <2>3. K[copy[o]] = JsonStep(g, d, K, copy[o]) /\ I[o] = JsonStep(h, c, I, o)
    BY <1>2, <1>3, <2>2 DEF IsJson
  <2>4. /\ g[copy[o]].type = h[o].type
        /\ \A k \in Key :
              g[copy[o]].entries[k] = IF h[o].entries[k] = Null THEN Null ELSE copy[h[o].entries[k]]
        /\ DOMAIN g[copy[o]].items = DOMAIN h[o].items
        /\ \A i \in DOMAIN h[o].items : g[copy[o]].items[i] = copy[h[o].items[i]]
        /\ d[copy[o]] = c[o]
    BY <2>2 DEF Twins
  <2>5. CASE isTable(h, o)
    <3>1. isTable(g, copy[o]) /\ ~isArray(g, copy[o]) /\ ~isArray(h, o)
      BY <2>4, <2>5 DEF isTable, isArray
    <3>2. \A x \in Node : copy[o] # Null /\ x # Null
      BY <2>2, NodeTyping
    <3>3. tableKeys(g, copy[o]) = tableKeys(h, o)
      <4>1. ASSUME NEW k \in Key PROVE g[copy[o]].entries[k] = Null <=> h[o].entries[k] = Null
        <5>1. h[o].entries[k] # Null => h[o].entries[k] \in Children(h, o)
          BY DEF Children
        <5> QED
          BY <1>1, <2>2, <2>4, <3>2, <5>1
      <4> QED
        BY <2>5, <3>1, <4>1 DEF tableKeys, hasKey, valueFromKey
    <3>4. \A k \in tableKeys(h, o) : K[g[copy[o]].entries[k]] = I[h[o].entries[k]]
      <4> TAKE k \in tableKeys(h, o)
      <4>1. k \in Key /\ h[o].entries[k] # Null /\ h[o].entries[k] \in Children(h, o)
        BY <2>5 DEF tableKeys, hasKey, valueFromKey, Children
      <4> QED
        BY <2>2, <2>4, <4>1
    <3>5. [k \in tableKeys(g, copy[o]) |-> K[g[copy[o]].entries[k]]]
          = [k \in tableKeys(h, o) |-> I[h[o].entries[k]]]
      BY <3>3, <3>4
    <3> QED
      BY <2>1, <2>3, <2>5, <3>1, <3>5 DEF JsonStep
  <2>6. CASE isArray(h, o)
    <3>1. isArray(g, copy[o]) /\ ~isTable(g, copy[o]) /\ ~isTable(h, o)
      BY <2>4, <2>6 DEF isTable, isArray
    <3>2. \A i \in DOMAIN h[o].items : h[o].items[i] \in Children(h, o)
      BY <2>2, HeapTyping, NodeTyping DEF Children
    <3>3. [i \in DOMAIN g[copy[o]].items |-> K[g[copy[o]].items[i]]]
          = [i \in DOMAIN h[o].items |-> I[h[o].items[i]]]
      BY <2>2, <2>4, <3>2
    <3> QED
      BY <2>1, <2>3, <2>6, <3>1, <3>3 DEF JsonStep
  <2>7. CASE ~isTable(h, o) /\ ~isArray(h, o)
    <3>1. ~isArray(g, copy[o]) /\ ~isTable(g, copy[o])
      BY <2>4, <2>7 DEF isTable, isArray
    <3> QED
      BY <2>1, <2>3, <2>4, <2>7, <3>1 DEF JsonStep
  <2> QED
    BY <2>5, <2>6, <2>7
<1> QED
  BY <1>2, <1>3, <1>4

\* A copy says the same as its original, has its sources, and leaves it alone
\* (Value.cpp:428-445).
THEOREM CopiesSayTheSame == UseSpec => CopiesAreFaithful
<1>1. ASSUME UseInv, NEW n \in Known, Cloned(n)
      PROVE  /\ toJson(heap', content', new) = toJson(heap, content, n)
             /\ SameSources(n)
             /\ \A m \in Reach(heap, {n}) : heap'[m] = heap[m]
  <2> DEFINE D == Reach(heap, {n})
             copy == CopyOf(n)
             g == heap'
             d == content'
  <2>1. /\ Twins(heap, g, D, copy, used) /\ copy[n] = new /\ n \in D
        /\ \A o \in D : d[copy[o]] = content[o]
    BY <1>1, CloneTwins DEF Cloned
  <2>2. /\ heap \in Heap /\ used \in Nat /\ CellsInUse(heap, used) /\ OnePlace(heap) /\ NoCycle(heap)
    BY <1>1, ProgramFacts
  <2>3. DOMAIN copy = D
    BY DEF CopyOf
  <2> HIDE DEF D, copy, g, d
  <2>4. NoCycle(g)
    BY ONLY <2>1, <2>2, TwinTrees
  <2>5. toJson(g, d, copy[n]) = toJson(heap, content, n)
    BY ONLY <2>1, <2>2, <2>4, TwinsSayTheSame
  <2>6. \A m \in D : g[copy[m]].source = heap[m].source
    BY <2>1 DEF Twins
  <2>7. \A m \in D : g[m] = heap[m]
    <3>1. \A m \in D : m \in Node /\ \A o \in D : copy[o] # m
      BY <2>1, <2>2, NodeTyping DEF Twins
    <3> QED
      BY <2>1, <3>1 DEF Twins
  <2> QED
    BY <2>1, <2>3, <2>5, <2>6, <2>7 DEF SameSources, D, copy, g, d
<1>2. UseInv => [\A n \in Known : Cloned(n) =>
                    /\ toJson(heap', content', new) = toJson(heap, content, n)
                    /\ SameSources(n)
                    /\ \A m \in Reach(heap, {n}) : heap'[m] = heap[m]]_allVars
  BY <1>1
<1> QED
  BY <1>2, UseInvariance, PTL DEF CopiesAreFaithful

=============================================================================
