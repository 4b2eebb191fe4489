--------------------------- MODULE DocumentProofs ---------------------------
(***************************************************************************)
(* The proofs about module Document, for all keys, paths, documents and    *)
(* numbers of parses: IndInv of DocumentInvariant and TreeInv of           *)
(* DocumentTree are inductive, and the properties of DocumentProperties    *)
(* that follow from the one and from the other.                            *)
(*                                                                         *)
(* The heap is the difficulty.  The changes an action makes to it are      *)
(* described field by field (EntrySet, ItemAdded, MadeExplicit, and a      *)
(* blank cell placed behind the last one in use); the first lemmas say     *)
(* what each change preserves, on any heap.  The next ones take the        *)
(* actions one by one for IndInv.                                          *)
(*                                                                         *)
(* TreeInv, the shape of the value tree, rests on Reach.  It is computed   *)
(* by a recursive function over sets of nodes; lemmas show that this       *)
(* function exists and returns the least closed set around its argument,   *)
(* and from there on only that is used: Reach contains its start, it is    *)
(* closed, and it lies within every closed set around the start.  Then     *)
(* come how Reach changes when a loose value is stored, and the actions    *)
(* once more, one by one.                                                  *)
(***************************************************************************)
EXTENDS DocumentTree, SequenceTheorems, FiniteSetTheorems, WellFoundedInduction, TLAPS

----------------------------------------------------------------------------
\* The cells the create* functions return are well-typed.
LEMMA CellTypes ==
    /\ FreeCell \in Cell
    /\ NewScalar \in Cell
    /\ \A s \in Source : NewTable(s) \in Cell /\ NewArray(s) \in Cell
  BY DEF FreeCell, NewScalar, NewTable, NewArray, NewCell, Cell, Type, Source, Ref, Null

\* Node numbers are natural numbers, and none is Null.
LEMMA NodeTyping ==
    /\ MaxNodes \in Nat
    /\ \A n \in Node : n \in Nat /\ n # Null /\ n <= MaxNodes /\ n \in Ref
    /\ \A r \in Ref : r \in Nat /\ (r # Null => r \in Node)
  BY MaxNodesAssumption DEF Node, Ref, Null

\* The fields of a cell of a heap have their types.
LEMMA HeapTyping ==
    ASSUME NEW h \in Heap, NEW n \in Node
    PROVE  /\ h[n] \in Cell
           /\ h[n].source \in Source
           /\ h[n].items \in Seq(Node)
           /\ \A i \in DOMAIN h[n].items : h[n].items[i] \in Node
           /\ \A k \in Key : h[n].entries[k] \in Ref
  BY DEF Heap, Cell

----------------------------------------------------------------------------
\* The difference between a heap h and a heap g with one more value stored.
EntrySet(h, g, n, k, v) ==
    /\ g \in Heap
    /\ g[n].entries[k] = v
    /\ \A m \in Node :
         /\ g[m].type = h[m].type
         /\ g[m].source = h[m].source
         /\ g[m].items = h[m].items
         /\ \A j \in Key : m # n \/ j # k => g[m].entries[j] = h[m].entries[j]

ItemAdded(h, g, n, v) ==
    /\ g \in Heap
    /\ g[n].items = Append(h[n].items, v)
    /\ \A m \in Node :
         /\ g[m].type = h[m].type
         /\ g[m].source = h[m].source
         /\ g[m].entries = h[m].entries
         /\ m # n => g[m].items = h[m].items

MadeExplicit(h, g, n) ==
    /\ g \in Heap
    /\ g[n].source = Explicit(h[n].source)
    /\ \A m \in Node :
         /\ g[m].type = h[m].type
         /\ m # n => g[m].source = h[m].source
         /\ g[m].items = h[m].items
         /\ g[m].entries = h[m].entries

\* setValue on a table stores the entry and changes nothing else.
LEMMA SetValueFields ==
    ASSUME NEW h \in Heap, NEW n \in Node, isTable(h, n), NEW k \in Key, NEW v \in Ref
    PROVE  EntrySet(h, setValue(h, n, k, v), n, k, v)
  BY DEF EntrySet, setValue, Heap, Cell

\* addValue on an array appends the item and changes nothing else.
LEMMA AddValueFields ==
    ASSUME NEW h \in Heap, NEW n \in Node, isArray(h, n), NEW v \in Node,
           h[n].source = "ExplicitTable" => isTable(h, v)
    PROVE  ItemAdded(h, addValue(h, n, v), n, v)
<1>1. h[n].items \in Seq(Node) /\ Append(h[n].items, v) \in Seq(Node)
  BY DEF Heap, Cell
<1> QED
  BY <1>1 DEF ItemAdded, addValue, Heap, Cell

\* makeExplicit changes the source of its value and nothing else.
LEMMA MakeExplicitFields ==
    ASSUME NEW h \in Heap, NEW n \in Node
    PROVE  MadeExplicit(h, makeExplicit(h, n), n)
  BY DEF MadeExplicit, makeExplicit, Explicit, Heap, Cell, Source

\* A cell as the create* functions return it: nothing is stored in it yet.
Blank(cell) ==
    /\ cell \in Cell
    /\ cell.type # "Free"
    /\ cell.items = <<>>
    /\ \A k \in Key : cell.entries[k] = Null

\* What the create* functions return is blank, of the type and source asked for.
LEMMA BlankCells ==
    /\ Blank(NewScalar) /\ NewScalar.type = "Scalar" /\ NewScalar.source = "Value"
    /\ \A s \in Source : /\ Blank(NewTable(s)) /\ NewTable(s).type = "Table" /\ NewTable(s).source = s
                         /\ Blank(NewArray(s)) /\ NewArray(s).type = "Array" /\ NewArray(s).source = s
  BY CellTypes DEF Blank, NewScalar, NewTable, NewArray, NewCell

----------------------------------------------------------------------------
\* What the four changes of a heap preserve.

\* A blank cell placed after the last one in use keeps the cells in use in order.
LEMMA PlaceCell ==
    ASSUME NEW h \in Heap, NEW u \in 0..MaxNodes, u < MaxNodes, CellsInUse(h, u),
           NEW cell, Blank(cell),
           NEW g, u + 1 \in Node, g[u + 1] = cell, \A n \in Node : n # u + 1 => g[n] = h[n]
    PROVE  CellsInUse(g, u + 1)
<1>1. /\ u + 1 \in Node /\ g[u + 1] = cell
      /\ \A n \in Node : n # u + 1 => g[n] = h[n]
  OBVIOUS
<1>2. \A n \in Node : g[n].type = "Free" <=> n > u + 1
  BY <1>1, NodeTyping DEF CellsInUse, Blank
<1>3. \A n \in Node : n > u + 1 => g[n].items = <<>> /\ \A k \in Key : g[n].entries[k] = Null
  BY <1>1, NodeTyping DEF CellsInUse
<1>4. ASSUME NEW n \in Node, NEW k \in Key PROVE g[n].entries[k] <= u + 1
  <2>1. h[n].entries[k] <= u /\ h[n].entries[k] \in Nat
    BY HeapTyping, NodeTyping DEF CellsInUse
  <2>2. g[n].entries[k] \in {Null, h[n].entries[k]}
    BY <1>1 DEF Blank
  <2> QED
    BY <2>1, <2>2 DEF Null
<1>5. ASSUME NEW n \in Node, NEW i \in DOMAIN g[n].items PROVE g[n].items[i] <= u + 1
  <2>1. g[n].items = h[n].items
    BY <1>1, <1>5 DEF Blank
  <2>2. h[n].items[i] <= u /\ h[n].items[i] \in Nat
    BY <1>5, <2>1, HeapTyping, NodeTyping DEF CellsInUse
  <2> QED
    BY <2>1, <2>2
<1> QED
  BY <1>1, <1>2, <1>3, <1>4, <1>5 DEF CellsInUse

\* A new table, array or plain value fits its source.
LEMMA PlaceCellSources ==
    ASSUME NEW h \in Heap, NEW m \in Node, NEW cell, Blank(cell), SourcesFit(h),
           cell.source # "Value" => cell.type \in {"Table", "Array"},
           NEW g, g[m] = cell, \A n \in Node : n # m => g[n] = h[n]
    PROVE  SourcesFit(g)
  BY DEF SourcesFit, isTable, isArray

\* An array may be empty while the parser is about to store its first element.
ArraysOfTablesBut(h, x) ==
    \A n \in Node \ {x} : isArray(h, n) /\ h[n].source # "Value" =>
        /\ h[n].items # <<>>
        /\ \A i \in DOMAIN h[n].items : isTable(h, h[n].items[i])

\* A new cell leaves the arrays of tables as they are.
LEMMA PlaceCellArrays ==
    ASSUME NEW h \in Heap, NEW u \in 0..MaxNodes, u < MaxNodes, CellsInUse(h, u),
           NEW cell, Blank(cell), NEW x, ArraysOfTablesBut(h, x),
           cell.source # "Value" => cell.type = "Table" \/ x = u + 1,
           NEW g, u + 1 \in Node, g[u + 1] = cell, \A n \in Node : n # u + 1 => g[n] = h[n]
    PROVE  ArraysOfTablesBut(g, x)
<1>1. /\ u + 1 \in Node /\ g[u + 1] = cell /\ \A n \in Node : n # u + 1 => g[n] = h[n]
  OBVIOUS
<1>2. SUFFICES ASSUME NEW n \in Node \ {x}, isArray(g, n), g[n].source # "Value"
               PROVE  g[n].items # <<>> /\ \A i \in DOMAIN g[n].items : isTable(g, g[n].items[i])
  BY DEF ArraysOfTablesBut
<1>3. n # u + 1 /\ g[n] = h[n]
  BY <1>1, <1>2 DEF isArray
<1>4. ASSUME NEW i \in DOMAIN g[n].items PROVE isTable(g, g[n].items[i])
  <2>1. isTable(h, h[n].items[i]) /\ h[n].items[i] \in Node /\ h[n].items[i] <= u
    BY <1>2, <1>3, <1>4, HeapTyping DEF ArraysOfTablesBut, CellsInUse, isArray
  <2> QED
    BY <1>1, <1>3, <2>1, NodeTyping DEF isTable
<1> QED
  BY <1>2, <1>3, <1>4 DEF ArraysOfTablesBut, isArray

\* A new cell nothing points to yet links no table of a dotted key.
LEMMA PlaceCellLinks ==
    ASSUME NEW h \in Heap, NEW u \in 0..MaxNodes, u < MaxNodes, CellsInUse(h, u),
           NEW b \in [Node -> Nat], NEW s, DottedTablesLinked(h, b, s),
           NEW cell, Blank(cell),
           NEW g, u + 1 \in Node, g[u + 1] = cell, \A n \in Node : n # u + 1 => g[n] = h[n],
           NEW c, \A n \in Node : n # u + 1 => c[n] = b[n]
    PROVE  DottedTablesLinked(g, c, s)
<1>1. /\ u + 1 \in Node /\ g[u + 1] = cell /\ \A n \in Node : n # u + 1 => g[n] = h[n]
  OBVIOUS
<1>2. SUFFICES ASSUME NEW p \in Node, NEW k \in Key, g[p].entries[k] # Null
               PROVE  Linked(g, c, s, p, g[p].entries[k])
  BY DEF DottedTablesLinked
<1>3. p # u + 1 /\ g[p] = h[p]
  BY <1>1, <1>2 DEF Blank
<1>4. h[p].entries[k] \in Node /\ h[p].entries[k] # u + 1
  BY <1>2, <1>3, HeapTyping, NodeTyping DEF CellsInUse
<1>5. Linked(h, b, s, p, h[p].entries[k])
  BY <1>2, <1>3 DEF DottedTablesLinked
<1> QED
  BY <1>1, <1>3, <1>4, <1>5 DEF Linked

\* Storing a value in use as an entry keeps the cells in use in order.
LEMMA SetCells ==
    ASSUME NEW h \in Heap, NEW u \in 0..MaxNodes, CellsInUse(h, u),
           NEW g, NEW n \in Node, NEW k \in Key, NEW v \in Ref, n <= u, v <= u,
           EntrySet(h, g, n, k, v)
    PROVE  CellsInUse(g, u)
<1>1. ASSUME NEW m \in Node, NEW j \in Key PROVE g[m].entries[j] <= u
  <2>1. g[m].entries[j] \in {v, h[m].entries[j]}
    BY DEF EntrySet
  <2> QED
    BY <2>1 DEF CellsInUse
<1>2. ASSUME NEW m \in Node, m > u PROVE m # n
  BY <1>2, NodeTyping
<1> QED
  BY <1>1, <1>2 DEF EntrySet, CellsInUse

\* Storing a properly linked value as an entry keeps all links.
LEMMA SetLinks ==
    ASSUME NEW h \in Heap, NEW b, NEW s, DottedTablesLinked(h, b, s),
           NEW g, NEW n \in Node, NEW k \in Key, NEW v \in Ref,
           v # Null => Linked(h, b, s, n, v),
           EntrySet(h, g, n, k, v)
    PROVE  DottedTablesLinked(g, b, s)
<1>1. SUFFICES ASSUME NEW p \in Node, NEW j \in Key, g[p].entries[j] # Null
               PROVE  Linked(g, b, s, p, g[p].entries[j])
  BY DEF DottedTablesLinked
<1>2. Linked(h, b, s, p, g[p].entries[j])
  BY <1>1 DEF EntrySet, DottedTablesLinked
<1>3. g[p].entries[j] \in Node
  BY <1>1, HeapTyping, NodeTyping DEF EntrySet
<1> QED
  BY <1>2, <1>3 DEF EntrySet, Linked

\* What depends on types, sources and items only.
LEMMA SetArrays ==
    ASSUME NEW h \in Heap, NEW g, NEW n \in Node, NEW k \in Key, NEW v, EntrySet(h, g, n, k, v)
    PROVE  /\ SourcesFit(h) => SourcesFit(g)
           /\ \A x : ArraysOfTablesBut(h, x) => ArraysOfTablesBut(g, x)
<1>1. SourcesFit(h) => SourcesFit(g)
  BY DEF EntrySet, SourcesFit, isTable, isArray
<1>2. ASSUME NEW x, ArraysOfTablesBut(h, x), NEW m \in Node \ {x}, isArray(g, m), g[m].source # "Value"
      PROVE  g[m].items # <<>> /\ \A i \in DOMAIN g[m].items : isTable(g, g[m].items[i])
  BY <1>2, HeapTyping DEF EntrySet, ArraysOfTablesBut, isTable, isArray
<1> QED
  BY <1>1, <1>2 DEF ArraysOfTablesBut

\* An item of an extended sequence is the new one or was there before.
LEMMA AppendItem ==
    ASSUME NEW s \in Seq(Node), NEW v \in Node, NEW i \in DOMAIN Append(s, v)
    PROVE  Append(s, v)[i] = v \/ (i \in DOMAIN s /\ Append(s, v)[i] = s[i])
<1>1. i \in 1..Len(s) \/ i = Len(s) + 1
  OBVIOUS
<1> QED
  BY <1>1, AppendProperties

\* Storing a value in use as an item keeps the cells in use in order.
LEMMA AddCells ==
    ASSUME NEW h \in Heap, NEW u \in 0..MaxNodes, CellsInUse(h, u),
           NEW g, NEW n \in Node, NEW v \in Node, n <= u, v <= u,
           ItemAdded(h, g, n, v)
    PROVE  CellsInUse(g, u)
<1>1. ASSUME NEW m \in Node, NEW i \in DOMAIN g[m].items PROVE g[m].items[i] <= u
  <2>1. CASE m = n
    <3>1. g[n].items = Append(h[n].items, v) /\ h[n].items \in Seq(Node)
      BY HeapTyping DEF ItemAdded
    <3>2. g[n].items[i] = v \/ (i \in DOMAIN h[n].items /\ g[n].items[i] = h[n].items[i])
      BY <1>1, <2>1, <3>1, AppendItem
    <3> QED
      BY <2>1, <3>2 DEF CellsInUse
  <2>2. CASE m # n
    BY <1>1, <2>2 DEF ItemAdded, CellsInUse
  <2> QED
    BY <2>1, <2>2
<1>2. ASSUME NEW m \in Node, m > u PROVE m # n
  BY <1>2, NodeTyping
<1> QED
  BY <1>1, <1>2 DEF ItemAdded, CellsInUse

\* Appending a table to an array of tables, even an empty one, leaves only
\* arrays of tables that have a last element.
LEMMA AddArrays ==
    ASSUME NEW h \in Heap, NEW g, NEW n \in Node, NEW v \in Node, isArray(h, n),
           ArraysOfTablesBut(h, n),
           h[n].source # "Value" =>
              isTable(h, v) /\ \A i \in DOMAIN h[n].items : isTable(h, h[n].items[i]),
           ItemAdded(h, g, n, v)
    PROVE  ArraysOfTables(g)
<1>1. SUFFICES ASSUME NEW m \in Node, isArray(g, m), g[m].source # "Value"
               PROVE  g[m].items # <<>> /\ \A i \in DOMAIN g[m].items : isTable(g, g[m].items[i])
  BY DEF ArraysOfTables
<1>2. CASE m = n
  <2>1. g[n].items = Append(h[n].items, v) /\ h[n].items \in Seq(Node)
    BY HeapTyping DEF ItemAdded
  <2>2. g[n].items # <<>>
    BY <2>1
  <2>3. ASSUME NEW i \in DOMAIN g[n].items PROVE isTable(g, g[n].items[i])
    <3>1. g[n].items[i] = v \/ (i \in DOMAIN h[n].items /\ g[n].items[i] = h[n].items[i])
      BY <2>1, <2>3, AppendItem
    <3>2. isTable(h, g[n].items[i]) /\ g[n].items[i] \in Node
      BY <1>1, <1>2, <3>1, HeapTyping DEF ItemAdded
    <3> QED
      BY <3>2 DEF ItemAdded, isTable
  <2> QED
    BY <1>2, <2>2, <2>3
<1>3. CASE m # n
  <2>1. g[m].items = h[m].items /\ isArray(h, m) /\ h[m].source # "Value"
    BY <1>1, <1>3 DEF ItemAdded, isArray
  <2>2. ASSUME NEW i \in DOMAIN g[m].items PROVE isTable(g, g[m].items[i])
    BY <1>3, <2>1, <2>2, HeapTyping DEF ArraysOfTablesBut, ItemAdded, isTable
  <2> QED
    BY <1>3, <2>1, <2>2 DEF ArraysOfTablesBut
<1> QED
  BY <1>2, <1>3

\* Items do not matter to the links of dotted tables.
LEMMA AddLinks ==
    ASSUME NEW h \in Heap, NEW g, NEW n \in Node, NEW v, ItemAdded(h, g, n, v)
    PROVE  /\ SourcesFit(h) => SourcesFit(g)
           /\ \A b, s : DottedTablesLinked(h, b, s) => DottedTablesLinked(g, b, s)
<1>1. SourcesFit(h) => SourcesFit(g)
  BY DEF ItemAdded, SourcesFit, isTable, isArray
<1>2. ASSUME NEW b, NEW s, DottedTablesLinked(h, b, s),
             NEW p \in Node, NEW k \in Key, g[p].entries[k] # Null
      PROVE  Linked(g, b, s, p, g[p].entries[k])
  <2>1. g[p].entries[k] = h[p].entries[k] /\ h[p].entries[k] \in Node
    BY <1>2, HeapTyping, NodeTyping DEF ItemAdded
  <2>2. Linked(h, b, s, p, h[p].entries[k])
    BY <1>2, <2>1 DEF DottedTablesLinked
  <2> QED
    BY <2>1, <2>2 DEF ItemAdded, Linked
<1> QED
  BY <1>1, <1>2 DEF DottedTablesLinked

\* Making a table explicit leaves the order of cells and the arrays alone.
LEMMA ExplicitCells ==
    ASSUME NEW h \in Heap, NEW g, NEW n \in Node, isTable(h, n), MadeExplicit(h, g, n)
    PROVE  /\ \A u : CellsInUse(h, u) => CellsInUse(g, u)
           /\ SourcesFit(h) => SourcesFit(g)
           /\ \A x : ArraysOfTablesBut(h, x) => ArraysOfTablesBut(g, x)
<1>1. \A u : CellsInUse(h, u) => CellsInUse(g, u)
  BY DEF MadeExplicit, CellsInUse
<1>2. SourcesFit(h) => SourcesFit(g)
  BY DEF MadeExplicit, SourcesFit, isTable, isArray
<1>3. ASSUME NEW x, ArraysOfTablesBut(h, x), NEW m \in Node \ {x}, isArray(g, m), g[m].source # "Value"
      PROVE  g[m].items # <<>> /\ \A i \in DOMAIN g[m].items : isTable(g, g[m].items[i])
  <2>1. m # n /\ isArray(h, m) /\ h[m].source # "Value" /\ g[m].items = h[m].items
    BY <1>3 DEF MadeExplicit, isTable, isArray
  <2> QED
    BY <1>3, <2>1, HeapTyping DEF MadeExplicit, ArraysOfTablesBut, isTable
<1> QED
  BY <1>1, <1>2, <1>3 DEF ArraysOfTablesBut

\* A table implied by headers has no dotted tables, so that it may become
\* explicit, and current, without taking over any.
LEMMA ExplicitLinks ==
    ASSUME NEW h \in Heap, NEW b, NEW s, DottedTablesLinked(h, b, s),
           NEW g, NEW n \in Node, MadeExplicit(h, g, n)
    PROVE  DottedTablesLinked(g, b, s)
<1>1. SUFFICES ASSUME NEW p \in Node, NEW k \in Key, g[p].entries[k] # Null
               PROVE  Linked(g, b, s, p, g[p].entries[k])
  BY DEF DottedTablesLinked
<1> DEFINE c == g[p].entries[k]
<1>2. c = h[p].entries[k] /\ c \in Node
  BY <1>1, HeapTyping, NodeTyping DEF MadeExplicit
<1>3. Linked(h, b, s, p, c)
  BY <1>1, <1>2 DEF DottedTablesLinked
<1> SUFFICES Linked(g, b, s, p, c)
  OBVIOUS
<1> HIDE DEF c
<1>4. g[c].source \in DottedSource <=> h[c].source \in DottedSource
  BY <1>2 DEF MadeExplicit, Explicit, DottedSource
<1>5. CASE p = n /\ h[n].source = "ImplicitTable"
  BY <1>3, <1>4, <1>5 DEF Linked, DottedSource
<1>6. CASE p = n /\ h[n].source # "ImplicitTable"
  <2>1. g[p].source = "ExplicitTable" <=> h[p].source = "ExplicitTable"
    BY <1>6 DEF MadeExplicit, Explicit
  <2>2. h[p].source \in DottedSource \cup {"Value"} => g[p].source \in DottedSource \cup {"Value"}
    BY <1>6 DEF MadeExplicit, Explicit, DottedSource
  <2> QED
    BY <1>3, <1>4, <2>1, <2>2 DEF Linked
<1>7. CASE p # n
  BY <1>1, <1>3, <1>4, <1>7 DEF MadeExplicit, Linked
<1> QED
  BY <1>5, <1>6, <1>7

\* A new section leaves the tables of earlier sections linked.
LEMMA SectionLinks ==
    ASSUME NEW h, NEW b, NEW s \in Seq(Node), DottedTablesLinked(h, b, s), NEW t \in Node
    PROVE  DottedTablesLinked(h, b, Append(s, t))
<1>1. \A i \in DOMAIN s : i \in DOMAIN Append(s, t) /\ Append(s, t)[i] = s[i]
  OBVIOUS
<1> QED
  BY <1>1 DEF DottedTablesLinked, Linked

----------------------------------------------------------------------------
\* Steps that change no value.

Quiet == UNCHANGED <<heap, used, sections, birth>>

\* A step that changes no value preserves what is known of the heap.
LEMMA QuietHeap == HeapInv /\ Quiet => HeapInv'
  BY DEF Quiet, HeapInv

\* Popping a frame keeps the frames below it.
LEMMA PopFrames ==
    ASSUME TypeOK
    PROVE  /\ Pop \in Seq(Frame)
           /\ \A i \in DOMAIN Pop : i \in DOMAIN frames /\ Pop[i] = frames[i]
  BY DEF TypeOK, Pop

\* The top of a non-empty stack of frames is a frame.
LEMMA TopFrame ==
    ASSUME TypeOK, frames # <<>>
    PROVE  Len(frames) \in DOMAIN frames /\ top = frames[Len(frames)] /\ top \in Frame
  BY DEF TypeOK, top

\* Setting the keys of the top frame changes no kind and no node.
LEMMA TopKeys ==
    ASSUME TypeOK, frames # <<>>, NEW keys \in Seq(Key),
           NEW g, g = [frames EXCEPT ![Len(frames)].keys = keys]
    PROVE  /\ g \in Seq(Frame) /\ g # <<>> /\ DOMAIN g = DOMAIN frames
           /\ \A i \in DOMAIN frames : g[i].kind = frames[i].kind /\ g[i].node = frames[i].node
<1>1. /\ Len(frames) \in Nat /\ Len(frames) # 0 /\ DOMAIN frames = 1..Len(frames)
      /\ frames \in [1..Len(frames) -> Frame]
  BY DEF TypeOK
<1>2. DOMAIN g = 1..Len(frames)
  BY <1>1
<1>3. ASSUME NEW i \in 1..Len(frames)
      PROVE  g[i] \in Frame /\ g[i].kind = frames[i].kind /\ g[i].node = frames[i].node
  BY <1>1, <1>3 DEF Frame
<1>4. g \in Seq(Frame)
  BY <1>1, <1>2, <1>3
<1> QED
  BY <1>1, <1>2, <1>3, <1>4

\* An exception preserves the invariant.
LEMMA ThrowInv ==
    ASSUME IndInv, NEW error \in Outcome \ {"parsing", "logic"}, Throw(error)
    PROVE  IndInv'
<1>1. Quiet /\ returned' = returned /\ currentTable' = currentTable
      /\ document' = Null /\ frames' = <<>> /\ value' = Null /\ walk' = NoWalk
      /\ outcome' = error
  BY DEF Throw, Quiet
<1>2. TypeOK'
  BY <1>1, NodeTyping DEF IndInv, TypeOK, Quiet, Walk, NoWalk, Goal, Ref
<1>3. SectionInv'
  BY <1>1 DEF IndInv, SectionInv, NoTableDefinedTwice, Quiet
<1>4. ValueInv' /\ WalkInv' /\ NoLogicError'
  BY <1>1 DEF ValueInv, WalkInv, NoLogicError, NoWalk
<1> QED
  BY <1>1, <1>2, <1>3, <1>4, QuietHeap DEF IndInv

\* A conflict error preserves the invariant.
LEMMA ConflictInv == IndInv /\ Conflict => IndInv'
  BY ThrowInv DEF Conflict, Outcome

\* Returning a document preserves the invariant.
LEMMA EndOfDocumentInv == IndInv /\ EndOfDocument => IndInv'
<1> SUFFICES ASSUME IndInv, EndOfDocument PROVE IndInv'
  OBVIOUS
<1>1. Quiet /\ UNCHANGED <<currentTable, frames, value, walk>>
      /\ document' = Null /\ outcome' = "ok" /\ returned' = returned \cup {document}
      /\ outcome = "parsing" /\ frames = <<>> /\ walk.goal = "none"
  BY DEF EndOfDocument, AtStatement, Quiet
<1>2. document \in Node
  BY <1>1, NodeTyping DEF IndInv, TypeOK, SectionInv
<1>3. TypeOK'
  BY <1>1, <1>2, NodeTyping DEF IndInv, TypeOK, Quiet, Outcome, Ref
<1>4. SectionInv'
  BY <1>1 DEF IndInv, SectionInv, NoTableDefinedTwice, Quiet
<1>5. ValueInv' /\ WalkInv' /\ NoLogicError'
  BY <1>1 DEF IndInv, ValueInv, WalkInv, NoLogicError, Quiet, section
<1> QED
  BY <1>1, <1>3, <1>4, <1>5, QuietHeap DEF IndInv

\* Beginning a table header preserves the invariant.
LEMMA BeginHeaderInv ==
    ASSUME IndInv, NEW path \in Path, BeginTable(path) \/ BeginArrayOfTables(path)
    PROVE  IndInv'
<1>1. Quiet /\ UNCHANGED <<document, currentTable, frames, value, outcome, returned>>
      /\ outcome = "parsing" /\ frames = <<>>
      /\ \E goal \in {"table", "tableArray"} :
            walk' = [goal |-> goal, at |-> document, keys |-> path, pos |-> 1, mark |-> used]
  BY DEF BeginTable, BeginArrayOfTables, StartWalk, AtStatement, Quiet
<1>2. TypeOK'
  BY <1>1, PathAssumption DEF IndInv, TypeOK, Quiet, Walk, Goal
<1>3. SectionInv' /\ ValueInv' /\ NoLogicError'
  BY <1>1 DEF IndInv, SectionInv, NoTableDefinedTwice, ValueInv, NoLogicError, Quiet, section
<1>4. WalkInv'
  BY <1>1 DEF IndInv, WalkInv, SectionInv, Quiet, isValueAssignment, isTable
<1> QED
  BY <1>1, <1>2, <1>3, <1>4, QuietHeap DEF IndInv

\* Beginning an assignment preserves the invariant.
LEMMA BeginAssignmentInv ==
    ASSUME IndInv, NEW path \in Path, BeginAssignment(path)
    PROVE  IndInv'
<1> DEFINE frame == [kind |-> "assign", node |-> Null, keys |-> path]
<1>1. Quiet /\ UNCHANGED <<document, currentTable, value, walk, outcome, returned>>
      /\ outcome = "parsing" /\ walk.goal = "none" /\ frames' = <<frame>>
  BY DEF BeginAssignment, AtStatement, Quiet
<1>2. frame \in Frame
  BY PathAssumption DEF Frame, FrameKind, Ref
<1>3. TypeOK'
  BY <1>1, <1>2 DEF IndInv, TypeOK, Quiet
<1>4. SectionInv' /\ ValueInv' /\ WalkInv' /\ NoLogicError'
  BY <1>1 DEF IndInv, SectionInv, NoTableDefinedTwice, ValueInv, WalkInv, NoLogicError, Quiet, section
<1> QED
  BY <1>1, <1>3, <1>4, QuietHeap DEF IndInv

\* The end of an array or inline table preserves the invariant.
LEMMA CloseValueInv == IndInv /\ CloseValue => IndInv'
<1> SUFFICES ASSUME IndInv, CloseValue PROVE IndInv'
  OBVIOUS
<1>1. Quiet /\ UNCHANGED <<document, currentTable, walk, outcome, returned>>
      /\ outcome = "parsing" /\ walk.goal = "none" /\ frames # <<>>
      /\ top.kind \in {"array", "inline"} /\ value' = top.node /\ frames' = Pop
  BY DEF CloseValue, InValue, Quiet
<1>2. top.node \in Ref /\ top.node <= used /\ heap[top.node].source = "Value"
  BY <1>1, TopFrame DEF IndInv, ValueInv, Frame
<1>3. TypeOK'
  BY <1>1, <1>2, PopFrames DEF IndInv, TypeOK, Quiet
<1>4. ValueInv'
  BY <1>1, <1>2, PopFrames DEF IndInv, ValueInv, Quiet, section
<1>5. SectionInv' /\ WalkInv' /\ NoLogicError'
  BY <1>1 DEF IndInv, SectionInv, NoTableDefinedTwice, WalkInv, NoLogicError, Quiet, section
<1> QED
  BY <1>1, <1>3, <1>4, <1>5, QuietHeap DEF IndInv

\* Reading the keys of an inline entry preserves the invariant.
LEMMA BeginInlineEntryInv ==
    ASSUME IndInv, NEW path \in Path, BeginInlineEntry(path)
    PROVE  IndInv'
<1>1. Quiet /\ UNCHANGED <<document, currentTable, value, walk, outcome, returned>>
      /\ outcome = "parsing" /\ walk.goal = "none" /\ frames # <<>>
      /\ frames' = [frames EXCEPT ![Len(frames)].keys = path]
  BY DEF BeginInlineEntry, InValue, Quiet
<1>2. /\ frames' \in Seq(Frame) /\ DOMAIN frames' = DOMAIN frames
      /\ \A i \in DOMAIN frames : frames'[i].kind = frames[i].kind /\ frames'[i].node = frames[i].node
  <2>1. path \in Seq(Key)
    BY PathAssumption
  <2> QED
    BY <1>1, <2>1, TopKeys DEF IndInv
<1>3. TypeOK'
  BY <1>1, <1>2 DEF IndInv, TypeOK, Quiet
<1>4. ValueInv'
  BY <1>1, <1>2 DEF IndInv, ValueInv, Quiet, section
<1>5. SectionInv' /\ WalkInv' /\ NoLogicError'
  BY <1>1 DEF IndInv, SectionInv, NoTableDefinedTwice, WalkInv, NoLogicError, Quiet, section
<1> QED
  BY <1>1, <1>3, <1>4, <1>5, QuietHeap DEF IndInv

\* The walk for an inline entry begins at a table of this section.
LEMMA BeginInlineWalkInv == IndInv /\ BeginInlineWalk => IndInv'
<1> SUFFICES ASSUME IndInv, BeginInlineWalk PROVE IndInv'
  OBVIOUS
<1>1. Quiet /\ UNCHANGED <<document, currentTable, frames, value, outcome, returned>>
      /\ outcome = "parsing" /\ frames # <<>> /\ top.kind = "inline"
      /\ walk' = [goal |-> "inline", at |-> top.node, keys |-> top.keys, pos |-> 1, mark |-> used]
  BY DEF BeginInlineWalk, HasValue, InValue, StartWalk, Quiet
<1>2. /\ top \in Frame /\ top.node # Null /\ top.node <= used /\ birth[top.node] = section
      /\ heap[top.node].source = "Value" /\ isTable(heap, top.node)
  BY <1>1, TopFrame DEF IndInv, ValueInv
<1>3. TypeOK'
  BY <1>1, <1>2 DEF IndInv, TypeOK, Quiet, Walk, Goal, Frame
<1>4. SectionInv' /\ ValueInv' /\ NoLogicError'
  BY <1>1 DEF IndInv, SectionInv, NoTableDefinedTwice, ValueInv, NoLogicError, Quiet, section
<1>5. WalkInv'
  BY <1>1, <1>2 DEF WalkInv, Quiet, isValueAssignment, isTable, section
<1> QED
  BY <1>1, <1>3, <1>4, <1>5, QuietHeap DEF IndInv

\* The walk for an assignment begins at the current table.
LEMMA BeginAssignWalkInv == IndInv /\ BeginAssignWalk => IndInv'
<1> SUFFICES ASSUME IndInv, BeginAssignWalk PROVE IndInv'
  OBVIOUS
<1>1. Quiet /\ UNCHANGED <<document, currentTable, frames, value, outcome, returned>>
      /\ outcome = "parsing" /\ frames # <<>>
      /\ walk' = [goal |-> "assign", at |-> currentTable, keys |-> top.keys, pos |-> 1, mark |-> used]
  BY DEF BeginAssignWalk, HasValue, InValue, StartWalk, Quiet
<1>2. top \in Frame
  BY <1>1, TopFrame DEF IndInv
<1>3. section \in DOMAIN sections /\ currentTable = sections[section] /\ currentTable \in Node
  BY <1>1 DEF IndInv, TypeOK, SectionInv, section
<1>4. TypeOK'
  BY <1>1, <1>2 DEF IndInv, TypeOK, Quiet, Walk, Goal, Frame
<1>5. SectionInv' /\ ValueInv' /\ NoLogicError'
  BY <1>1 DEF IndInv, SectionInv, NoTableDefinedTwice, ValueInv, NoLogicError, Quiet, section
<1>6. WalkInv'
  BY <1>1, <1>3, NodeTyping DEF IndInv, WalkInv, SectionInv, Quiet, isValueAssignment, isTable
<1> QED
  BY <1>1, <1>4, <1>5, <1>6, QuietHeap DEF IndInv

----------------------------------------------------------------------------
\* The invariant holds of a parser that has parsed nothing.
LEMMA InitInv == Init => IndInv
<1> SUFFICES ASSUME Init PROVE IndInv
  OBVIOUS
<1>1. FreeCell \in Cell /\ FreeCell.type = "Free" /\ FreeCell.source = "Value"
      /\ FreeCell.items = <<>> /\ \A k \in Key : FreeCell.entries[k] = Null
  BY CellTypes DEF FreeCell, NewCell
<1>2. \A n \in Node : heap[n] = FreeCell
  BY DEF Init
<1>3. TypeOK
  BY <1>1, NodeTyping DEF Init, TypeOK, Heap, Walk, NoWalk, Goal, Outcome, Ref
<1>4. CellsInUse(heap, used)
  BY <1>1, <1>2, NodeTyping DEF Init, CellsInUse, Null
<1>5. SourcesFit(heap) /\ ArraysOfTables(heap) /\ DottedTablesLinked(heap, birth, sections)
  BY <1>1, <1>2 DEF SourcesFit, ArraysOfTables, DottedTablesLinked, isArray
<1>6. SectionInv /\ ValueInv /\ WalkInv /\ NoLogicError
  BY DEF Init, SectionInv, NoTableDefinedTwice, ValueInv, WalkInv, NoLogicError, NoWalk
<1> QED
  BY <1>3, <1>4, <1>5, <1>6 DEF IndInv, HeapInv

----------------------------------------------------------------------------
\* Steps that change the heap.

\* No value in use changes its type, and none its source but to become
\* explicit.
Steady ==
    /\ used <= used'
    /\ \A n \in Node : n <= used =>
          /\ heap'[n].type = heap[n].type
          /\ heap[n].source \notin {"ImplicitTable", "ImplicitValue"} =>
                heap'[n].source = heap[n].source
          /\ heap[n].source \in DottedSource => heap'[n].source \in DottedSource
          /\ birth'[n] = birth[n]

\* Node numbers and the count of cells in use can be compared.
LEMMA Counting ==
    ASSUME TypeOK, TypeOK'
    PROVE  used \in Nat /\ used' \in Nat /\ Node \subseteq Nat
  BY MaxNodesAssumption DEF TypeOK, Node

\* What the state before says of the sections and of the document
\* holds of the changed heap.
LEMMA SteadySections ==
    ASSUME IndInv, TypeOK', Steady, UNCHANGED <<document, outcome>>
    PROVE  /\ \A i \in DOMAIN sections :
                 /\ sections[i] <= used'
                 /\ isTable(heap', sections[i])
                 /\ heap'[sections[i]].source = "ExplicitTable"
           /\ outcome' = "parsing" =>
                 document' # Null /\ document' <= used' /\ isTable(heap', document')
<1>1. ASSUME NEW i \in DOMAIN sections
      PROVE  sections[i] <= used' /\ isTable(heap', sections[i])
             /\ heap'[sections[i]].source = "ExplicitTable"
  <2>1. /\ sections[i] \in Node /\ sections[i] <= used
        /\ isTable(heap, sections[i]) /\ heap[sections[i]].source = "ExplicitTable"
    BY DEF IndInv, TypeOK, SectionInv
  <2> QED
    BY <2>1, Counting, NodeTyping DEF IndInv, Steady, isTable
<1>2. ASSUME outcome' = "parsing"
      PROVE  document' # Null /\ document' <= used' /\ isTable(heap', document')
  <2>1. document \in Node /\ document <= used /\ isTable(heap, document)
    BY <1>2, NodeTyping DEF IndInv, TypeOK, SectionInv
  <2> QED
    BY <2>1, Counting, NodeTyping DEF IndInv, Steady, isTable
<1> QED
  BY <1>1, <1>2

\* So does what it says of the value on its way and of the values being filled.
LEMMA SteadyValues ==
    ASSUME IndInv, TypeOK', Steady
    PROVE  /\ value # Null => value <= used' /\ heap'[value].source = "Value"
           /\ \A i \in DOMAIN frames : frames[i].kind # "assign" =>
                 LET n == frames[i].node
                 IN  /\ n # Null /\ n <= used' /\ birth'[n] = section
                     /\ heap'[n].source = "Value"
                     /\ frames[i].kind = "array" => isArray(heap', n)
                     /\ frames[i].kind = "inline" => isTable(heap', n)
<1>1. ASSUME value # Null PROVE value <= used' /\ heap'[value].source = "Value"
  <2>1. value \in Node /\ value <= used /\ heap[value].source = "Value"
    BY <1>1, NodeTyping DEF IndInv, TypeOK, ValueInv
  <2> QED
    BY <2>1, Counting, NodeTyping DEF IndInv, Steady
<1>2. ASSUME NEW i \in DOMAIN frames, frames[i].kind # "assign"
      PROVE  LET n == frames[i].node
             IN  /\ n # Null /\ n <= used' /\ birth'[n] = section
                 /\ heap'[n].source = "Value"
                 /\ frames[i].kind = "array" => isArray(heap', n)
                 /\ frames[i].kind = "inline" => isTable(heap', n)
  <2> DEFINE n == frames[i].node
  <2>1. frames[i] \in Frame
    BY DEF IndInv, TypeOK
  <2>2. /\ n \in Node /\ n <= used /\ birth[n] = section /\ heap[n].source = "Value"
        /\ frames[i].kind = "array" => isArray(heap, n)
        /\ frames[i].kind = "inline" => isTable(heap, n)
    BY <1>2, <2>1, NodeTyping DEF IndInv, ValueInv, Frame
  <2>3. n # Null /\ n <= used' /\ birth'[n] = section
    BY <2>2, Counting, NodeTyping DEF IndInv, Steady
  <2>4. heap'[n].source = "Value" /\ heap'[n].type = heap[n].type
    BY <2>2 DEF Steady
  <2> QED
    BY <2>2, <2>3, <2>4 DEF isArray, isTable
<1> QED
  BY <1>1, <1>2

\* The value a walk may descend to.
LEMMA ChildType ==
    ASSUME IndInv, Walking, walk.pos <= Len(walk.keys)
    PROVE  /\ key \in Key
           /\ walk.at \in Node /\ walk.at <= used /\ isTable(heap, walk.at)
           /\ child = heap[walk.at].entries[key] /\ child \in Ref /\ child <= used
<1>1. walk \in Walk /\ walk.pos \in 1..Len(walk.keys)
  BY DEF IndInv, TypeOK, WalkInv, Walking, Walk
<1>2. key \in Key
  BY <1>1 DEF key, Walk
<1>3. walk.at \in Node /\ walk.at <= used /\ isTable(heap, walk.at)
  BY <1>1, NodeTyping DEF IndInv, WalkInv, Walking, Walk
<1>4. child = heap[walk.at].entries[key]
  BY <1>3 DEF child, valueFromKey
<1> QED
  BY <1>2, <1>3, <1>4, HeapTyping DEF IndInv, TypeOK, HeapInv, CellsInUse

\* A new value, not yet stored anywhere.
LEMMA CreateHeap ==
    ASSUME IndInv, used < MaxNodes, NEW cell, Blank(cell), NEW g, g = Create(cell)
    PROVE  /\ new = used + 1 /\ new \in Node /\ new \in 0..MaxNodes /\ g \in Heap
           /\ g[new] = cell /\ \A n \in Node : n # new => g[n] = heap[n]
           /\ \A n \in Node : n <= used => g[n] = heap[n]
           /\ CellsInUse(g, new)
           /\ (cell.source # "Value" => cell.type \in {"Table", "Array"}) => SourcesFit(g)
           /\ (cell.source # "Value" => cell.type = "Table") => ArraysOfTables(g)
           /\ ArraysOfTablesBut(g, new)
           /\ \A c : (\A n \in Node : n # new => c[n] = birth[n]) =>
                 DottedTablesLinked(g, c, sections)
<1>1. new = used + 1 /\ used \in 0..MaxNodes /\ heap \in Heap /\ CellsInUse(heap, used)
      /\ g = [heap EXCEPT ![used + 1] = cell]
  BY DEF new, Create, IndInv, TypeOK, HeapInv
<1>2. /\ used + 1 \in Node /\ g \in Heap /\ g[used + 1] = cell
      /\ \A n \in Node : n # used + 1 => g[n] = heap[n]
      /\ CellsInUse(g, used + 1)
  <2>1. /\ used + 1 \in Node /\ g \in Heap /\ g[used + 1] = cell
        /\ \A n \in Node : n # used + 1 => g[n] = heap[n]
    BY <1>1, MaxNodesAssumption DEF Node, Heap, Blank
  <2> QED
    BY ONLY <1>1, used < MaxNodes, Blank(cell), <2>1, PlaceCell
<1>3. /\ new \in 0..MaxNodes
      /\ \A n \in Node : n <= used => g[n] = heap[n]
  BY <1>1, <1>2, NodeTyping
<1>4. ASSUME cell.source # "Value" => cell.type \in {"Table", "Array"} PROVE SourcesFit(g)
  BY <1>1, <1>2, <1>4, PlaceCellSources DEF IndInv, HeapInv
<1>5. ASSUME cell.source # "Value" => cell.type = "Table" PROVE ArraysOfTables(g)
  <2>1. ArraysOfTablesBut(heap, Null)
    BY DEF IndInv, HeapInv, ArraysOfTables, ArraysOfTablesBut
  <2>2. ArraysOfTablesBut(g, Null)
    BY <1>1, <1>2, <1>5, <2>1, PlaceCellArrays
  <2> QED
    BY <2>2, NodeTyping DEF ArraysOfTables, ArraysOfTablesBut
<1>6. ArraysOfTablesBut(g, new)
  <2>1. ArraysOfTablesBut(heap, new)
    BY DEF IndInv, HeapInv, ArraysOfTables, ArraysOfTablesBut
  <2> QED
    BY <1>1, <1>2, <2>1, PlaceCellArrays
<1>7. ASSUME NEW c, \A n \in Node : n # new => c[n] = birth[n]
      PROVE  DottedTablesLinked(g, c, sections)
  <2>0. \A n \in Node : n # used + 1 => c[n] = birth[n]
    BY <1>1, <1>7
  <2>1. birth \in [Node -> Nat] /\ DottedTablesLinked(heap, birth, sections)
    BY DEF IndInv, TypeOK, HeapInv
  <2> QED
    BY ONLY <1>1, <1>2, used < MaxNodes, Blank(cell), <2>0, <2>1, PlaceCellLinks
<1> QED
  BY <1>1, <1>2, <1>3, <1>4, <1>5, <1>6, <1>7

----------------------------------------------------------------------------
\* The steps of createIntermediateNameElements.

\* A table of a dotted key a value's path may descend to is one of the
\* current section.
LEMMA OwnChild ==
    ASSUME IndInv, Walking, walk.pos <= Len(walk.keys), isValueAssignment,
           child # Null, heap[child].source \in DottedSource
    PROVE  birth[child] = section
<1>1. /\ key \in Key /\ walk.at \in Node /\ child = heap[walk.at].entries[key]
      /\ child \in Node
  BY ChildType, NodeTyping
<1>2. Linked(heap, birth, sections, walk.at, child)
  BY <1>1, NodeTyping DEF IndInv, HeapInv, DottedTablesLinked
<1>3. /\ section \in DOMAIN sections /\ currentTable = sections[section]
      /\ heap[currentTable].source = "ExplicitTable"
  BY DEF IndInv, TypeOK, SectionInv, Walking, section
<1>4. CASE heap[walk.at].source = "ExplicitTable"
  <2>1. walk.at = currentTable
    BY <1>4 DEF IndInv, WalkInv, Walking, isValueAssignment, DottedSource
  <2>2. birth[child] \in DOMAIN sections /\ sections[birth[child]] = sections[section]
    BY <1>2, <1>3, <1>4, <2>1 DEF Linked
  <2> QED
    BY <1>3, <2>2 DEF IndInv, SectionInv, NoTableDefinedTwice
<1>5. CASE heap[walk.at].source # "ExplicitTable"
  <2>1. birth[walk.at] = birth[child]
    BY <1>2, <1>5 DEF Linked
  <2>2. birth[walk.at] = section
    BY <1>3, <1>5 DEF IndInv, WalkInv, Walking, isValueAssignment
  <2> QED
    BY <2>1, <2>2
<1> QED
  BY <1>4, <1>5

\* Descending to a table of its own section preserves the invariant.
LEMMA StepToInv ==
    ASSUME IndInv, Descending, NEW n \in Node, StepTo(n),
           UNCHANGED <<heap, used, document, currentTable, frames, value,
                       outcome, returned, sections, birth>>,
           n <= used, isTable(heap, n),
           isValueAssignment => heap[n].source \in DottedSource /\ birth[n] = section
    PROVE  IndInv'
<1>1. Quiet
  BY DEF Quiet
<1>2. /\ walk'.goal = walk.goal /\ walk'.at = n /\ walk'.pos = walk.pos + 1 /\ walk' \in Walk
      /\ walk.pos >= 1 /\ walk.pos \in Nat /\ walk.goal # "none" /\ outcome = "parsing"
  <2>1. walk \in Walk /\ walk.pos >= 1 /\ walk.goal # "none" /\ outcome = "parsing"
    BY DEF IndInv, TypeOK, WalkInv, Descending, Walking
  <2>2. n \in Ref /\ walk.pos \in Nat /\ walk.pos + 1 \in Nat
    BY <2>1, NodeTyping DEF Walk
  <2> QED
    BY <2>1, <2>2 DEF StepTo, Walk
<1>3. TypeOK'
  BY <1>2 DEF IndInv, TypeOK
<1>4. SectionInv' /\ ValueInv' /\ NoLogicError'
  BY DEF IndInv, SectionInv, NoTableDefinedTwice, ValueInv, NoLogicError, section
<1>5. WalkInv'
  BY <1>2, NodeTyping DEF IndInv, WalkInv, isTable, isValueAssignment, section
<1> QED
  BY <1>1, <1>3, <1>4, <1>5, QuietHeap DEF IndInv

\* Descending to an existing table preserves the invariant.
LEMMA DescendToTableInv == IndInv /\ DescendToTable => IndInv'
<1> SUFFICES ASSUME IndInv, DescendToTable PROVE IndInv'
  OBVIOUS
<1>1. /\ Descending /\ Walking /\ child # Null /\ heap[child].source # "Value"
      /\ ~isArray(heap, child) /\ StepTo(child)
      /\ isValueAssignment => heap[child].source \notin {"ImplicitTable", "ExplicitTable"}
      /\ UNCHANGED <<heap, used, document, currentTable, frames, value,
                     outcome, returned, sections, birth>>
  BY DEF DescendToTable, Descending
<1>2. walk.pos <= Len(walk.keys)
  BY <1>1 DEF Descending, IndInv, TypeOK, Walk
<1>3. child \in Node /\ child <= used
  BY <1>1, <1>2, ChildType, NodeTyping
<1>4. isTable(heap, child)
  BY <1>1, <1>3 DEF IndInv, HeapInv, SourcesFit
<1>5. heap[child].source \in Source
  BY <1>3, HeapTyping DEF IndInv, TypeOK
<1>6. isValueAssignment => heap[child].source \in DottedSource
  BY <1>1, <1>5 DEF Source, DottedSource
<1> QED
  BY <1>1, <1>2, <1>3, <1>4, <1>6, OwnChild, StepToInv

\* An array of tables has a last element, and it is a table.
LEMMA LastItem ==
    ASSUME IndInv, Walking, walk.pos <= Len(walk.keys), child # Null,
           heap[child].source # "Value", isArray(heap, child)
    PROVE  /\ size(heap, child) # 0
           /\ lastItem \in Node /\ lastItem <= used /\ isTable(heap, lastItem)
<1>1. child \in Node
  BY ChildType, NodeTyping
<1> DEFINE items == heap[child].items
<1>2. /\ items \in Seq(Node) /\ items # <<>>
      /\ \A i \in DOMAIN items : isTable(heap, items[i]) /\ items[i] \in Node /\ items[i] <= used
  BY <1>1, HeapTyping DEF IndInv, TypeOK, HeapInv, ArraysOfTables, CellsInUse
<1>3. size(heap, child) = Len(items)
  BY DEF size, isArray, isTable
<1> HIDE DEF items
<1>4. Len(items) \in Nat /\ Len(items) > 0 /\ Len(items) \in DOMAIN items
  BY <1>2
<1>5. lastItem = items[Len(items)]
  <2>1. Len(items) - 1 < Len(items) /\ (Len(items) - 1) + 1 = Len(items)
    BY <1>4
  <2>2. lastItem = valueAt(heap, child, Len(items) - 1)
    BY <1>3 DEF lastItem
  <2> QED
    BY <2>1, <2>2 DEF valueAt, items
<1> QED
  BY <1>2, <1>3, <1>4, <1>5

\* Descending to the last table of an array preserves the invariant.
LEMMA DescendIntoArrayInv == IndInv /\ DescendIntoArray => IndInv'
<1> SUFFICES ASSUME IndInv, DescendIntoArray PROVE IndInv'
  OBVIOUS
<1>1. /\ Descending /\ Walking /\ child # Null /\ heap[child].source # "Value"
      /\ isArray(heap, child) /\ ~isValueAssignment
  BY DEF DescendIntoArray, Descending
<1>2. walk.pos <= Len(walk.keys)
  BY <1>1 DEF Descending, IndInv, TypeOK, Walk
<1>3. size(heap, child) # 0 /\ lastItem \in Node /\ lastItem <= used /\ isTable(heap, lastItem)
  BY <1>1, <1>2, LastItem
<1>4. /\ StepTo(lastItem)
      /\ UNCHANGED <<heap, used, document, currentTable, frames, value,
                     outcome, returned, sections, birth>>
  BY <1>3 DEF DescendIntoArray
<1> QED
  BY <1>1, <1>3, <1>4, StepToInv

----------------------------------------------------------------------------
\* The steps of parseStream and parseValue that change the heap.

\* A new value is born in its section, and the others stay in theirs.
LEMMA BornFields ==
    ASSUME IndInv, new \in Node, NEW x \in Nat, NEW b, b = Born(x)
    PROVE  /\ b \in [Node -> Nat] /\ b[new] = x
           /\ \A n \in Node : n # new => b[n] = birth[n]
           /\ \A n \in Node : n <= used => b[n] = birth[n]
<1>1. birth \in [Node -> Nat]
  BY DEF IndInv, TypeOK
<1>2. /\ b \in [Node -> Nat] /\ b[new] = x
      /\ \A n \in Node : n # new => b[n] = birth[n]
  BY <1>1 DEF Born
<1>3. \A n \in Node : n <= used => n # new
  BY NodeTyping DEF new, IndInv, TypeOK
<1> QED
  BY <1>2, <1>3

\* A new document preserves the invariant, whatever earlier parses left behind.
LEMMA BeginParseInv == IndInv /\ BeginParse => IndInv'
<1> SUFFICES ASSUME IndInv, BeginParse PROVE IndInv'
  OBVIOUS
<1> DEFINE cell == NewTable("ExplicitTable")
<1>1. /\ outcome # "parsing" /\ used < MaxNodes /\ heap' = Create(cell) /\ used' = new
      /\ document' = new /\ currentTable' = new /\ outcome' = "parsing"
      /\ sections' = Append(sections, new) /\ birth' = Born(section + 1)
      /\ UNCHANGED <<frames, value, walk, returned>>
  BY DEF BeginParse
<1>2. Blank(cell) /\ cell.type = "Table" /\ cell.source = "ExplicitTable"
  BY BlankCells DEF Source
<1> HIDE DEF cell
<1>3. /\ new = used + 1 /\ new \in Node /\ new \in 0..MaxNodes /\ heap' \in Heap
      /\ heap'[new] = cell /\ \A n \in Node : n <= used => heap'[n] = heap[n]
      /\ CellsInUse(heap', new) /\ SourcesFit(heap') /\ ArraysOfTables(heap')
  BY ONLY <1>1, <1>2, IndInv, CreateHeap
<1>4. sections \in Seq(Node) /\ section \in Nat /\ used \in Nat
      /\ sections' \in Seq(Node) /\ DOMAIN sections = 1..section
      /\ DOMAIN sections' = 1..(section + 1)
      /\ sections'[section + 1] = new /\ \A i \in 1..section : sections'[i] = sections[i]
  BY <1>1, <1>3 DEF IndInv, TypeOK, section
<1>5. /\ birth' \in [Node -> Nat] /\ \A n \in Node : n # new => birth'[n] = birth[n]
      /\ \A n \in Node : n <= used => birth'[n] = birth[n]
  BY <1>1, <1>3, <1>4, BornFields
<1>6. TypeOK'
  BY <1>1, <1>3, <1>4, <1>5, NodeTyping DEF IndInv, TypeOK, Outcome
<1>7. HeapInv'
  <2>1. DottedTablesLinked(heap', birth', sections)
    BY ONLY <1>1, <1>2, <1>5, IndInv, CreateHeap
  <2>2. DottedTablesLinked(heap', birth', sections')
    BY ONLY <1>1, <1>3, <1>4, <2>1, SectionLinks
  <2> QED
    BY <1>1, <1>3, <2>2 DEF HeapInv
<1>8. Steady
  BY <1>1, <1>3, <1>4, <1>5 DEF Steady
<1>9. SectionInv'
  <2>1. \A i \in DOMAIN sections : sections[i] \in Node /\ sections[i] <= used
           /\ isTable(heap, sections[i]) /\ heap[sections[i]].source = "ExplicitTable"
    BY <1>4 DEF IndInv, SectionInv
  <2>2. ASSUME NEW i \in DOMAIN sections'
        PROVE  /\ sections'[i] <= used' /\ isTable(heap', sections'[i])
               /\ heap'[sections'[i]].source = "ExplicitTable"
    <3>1. CASE i = section + 1
      BY <3>1, <1>1, <1>2, <1>3, <1>4 DEF isTable
    <3>2. CASE i \in DOMAIN sections
      <4>1. sections'[i] = sections[i] /\ sections[i] \in Node /\ sections[i] <= used
            /\ isTable(heap, sections[i]) /\ heap[sections[i]].source = "ExplicitTable"
        BY <3>2, <1>4, <2>1
      <4>2. heap'[sections[i]] = heap[sections[i]]
        BY <4>1, <1>3
      <4>3. sections[i] <= used'
        <5>1. sections[i] \in Nat /\ used' = used + 1 /\ used \in Nat
          BY <4>1, <1>1, <1>3, <1>4, NodeTyping
        <5> QED
          BY ONLY <4>1, <5>1
      <4> QED
        BY <4>1, <4>2, <4>3 DEF isTable
    <3> QED
      BY <3>1, <3>2, <1>4
  <2>3. NoTableDefinedTwice'
    <3>1. \A i, j \in DOMAIN sections : sections[i] = sections[j] => i = j
      BY DEF IndInv, SectionInv, NoTableDefinedTwice
    <3>2. \A i \in DOMAIN sections : sections[i] # new
      BY <1>3, <1>4, <2>1, NodeTyping
    <3> QED
      BY <1>4, <3>1, <3>2 DEF NoTableDefinedTwice
  <2>4. /\ document' # Null /\ document' <= used' /\ isTable(heap', document')
        /\ sections' # <<>> /\ currentTable' = sections'[section']
    <3>1. section' = section + 1
      BY <1>1, <1>4 DEF section
    <3> QED
      BY <1>1, <1>2, <1>3, <1>4, <3>1, NodeTyping DEF isTable
  <2> QED
    BY <2>2, <2>3, <2>4 DEF SectionInv
<1>10. ValueInv'
  <2>1. frames' = <<>>
    BY <1>1 DEF IndInv, ValueInv
  <2>2. value' # Null => value' <= used' /\ heap'[value'].source = "Value"
    BY <1>1, <1>6, <1>8, SteadyValues
  <2> QED
    BY <2>1, <2>2 DEF ValueInv
<1>11. WalkInv' /\ NoLogicError'
  BY <1>1 DEF IndInv, WalkInv, NoLogicError
<1> QED
  BY <1>6, <1>7, <1>9, <1>10, <1>11 DEF IndInv

\* A new plain value preserves the invariant.
LEMMA ParseScalarInv == IndInv /\ ParseScalar => IndInv'
<1> SUFFICES ASSUME IndInv, ParseScalar PROVE IndInv'
  OBVIOUS
<1> DEFINE cell == NewScalar
<1>1. /\ outcome = "parsing" /\ walk.goal = "none" /\ value = Null
      /\ used < MaxNodes /\ heap' = Create(cell) /\ used' = new /\ value' = new
      /\ birth' = Born(section)
      /\ UNCHANGED <<document, currentTable, frames, walk, outcome, returned, sections>>
  BY DEF ParseScalar, NeedsValue, InValue
<1>2. Blank(cell) /\ cell.source = "Value"
  BY BlankCells
<1> HIDE DEF cell
<1>3. /\ new = used + 1 /\ new \in Node /\ new \in 0..MaxNodes /\ heap' \in Heap
      /\ heap'[new] = cell /\ \A n \in Node : n <= used => heap'[n] = heap[n]
      /\ CellsInUse(heap', new) /\ SourcesFit(heap') /\ ArraysOfTables(heap')
  BY ONLY <1>1, <1>2, IndInv, CreateHeap
<1>4. section \in Nat /\ used \in Nat
  BY DEF IndInv, TypeOK, section
<1>5. /\ birth' \in [Node -> Nat] /\ \A n \in Node : n # new => birth'[n] = birth[n]
      /\ \A n \in Node : n <= used => birth'[n] = birth[n]
  BY <1>1, <1>3, <1>4, BornFields
<1>6. TypeOK'
  BY <1>1, <1>3, <1>5, NodeTyping DEF IndInv, TypeOK
<1>7. HeapInv'
  <2>1. DottedTablesLinked(heap', birth', sections)
    BY ONLY <1>1, <1>2, <1>5, IndInv, CreateHeap
  <2> QED
    BY <1>1, <1>3, <2>1 DEF HeapInv
<1>8. Steady
  BY <1>1, <1>3, <1>4, <1>5 DEF Steady
<1>9. SectionInv'
  BY <1>1, <1>6, <1>8, SteadySections DEF IndInv, SectionInv, NoTableDefinedTwice, section
<1>10. ValueInv'
  BY <1>1, <1>2, <1>3, <1>6, <1>8, SteadyValues, NodeTyping DEF ValueInv, section
<1>11. WalkInv' /\ NoLogicError'
  BY <1>1 DEF IndInv, WalkInv, NoLogicError
<1> QED
  BY <1>6, <1>7, <1>9, <1>10, <1>11 DEF IndInv

\* A new array or inline table preserves the invariant.
LEMMA OpenValueInv ==
    ASSUME IndInv, NEW kind \in {"array", "inline"}, NEW cell, Blank(cell), cell.source = "Value",
           cell.type = IF kind = "array" THEN "Array" ELSE "Table", OpenValue(kind, cell)
    PROVE  IndInv'
<1> DEFINE frame == [kind |-> kind, node |-> new, keys |-> <<>>]
<1>1. /\ outcome = "parsing" /\ walk.goal = "none" /\ value = Null
      /\ used < MaxNodes /\ heap' = Create(cell) /\ used' = new
      /\ birth' = Born(section) /\ frames' = Append(frames, frame)
      /\ UNCHANGED <<document, currentTable, value, walk, outcome, returned, sections>>
  BY DEF OpenValue, NeedsValue, InValue
<1>2. Blank(cell) /\ cell.source = "Value"
      /\ (kind = "array" => cell.type = "Array") /\ (kind = "inline" => cell.type = "Table")
  OBVIOUS
<1>3. /\ new = used + 1 /\ new \in Node /\ new \in 0..MaxNodes /\ heap' \in Heap
      /\ heap'[new] = cell /\ \A n \in Node : n <= used => heap'[n] = heap[n]
      /\ CellsInUse(heap', new) /\ SourcesFit(heap') /\ ArraysOfTables(heap')
  BY ONLY <1>1, <1>2, IndInv, CreateHeap
<1>4. section \in Nat /\ used \in Nat
  BY DEF IndInv, TypeOK, section
<1>5. /\ birth' \in [Node -> Nat] /\ birth'[new] = section
      /\ \A n \in Node : n # new => birth'[n] = birth[n]
      /\ \A n \in Node : n <= used => birth'[n] = birth[n]
  BY <1>1, <1>3, <1>4, BornFields
<1>6. frame \in Frame
  BY <1>3, NodeTyping DEF Frame, FrameKind
<1> HIDE DEF frame
<1>7. /\ frames' \in Seq(Frame) /\ frames' # <<>>
      /\ \A i \in DOMAIN frames' : frames'[i] = frame \/ (i \in DOMAIN frames /\ frames'[i] = frames[i])
  <2>1. frames \in Seq(Frame)
    BY DEF IndInv, TypeOK
  <2>2. /\ frames' \in Seq(Frame) /\ frames' # <<>> /\ Len(frames) \in Nat
        /\ DOMAIN frames' = 1..(Len(frames) + 1) /\ DOMAIN frames = 1..Len(frames)
        /\ frames'[Len(frames) + 1] = frame
        /\ \A i \in 1..Len(frames) : frames'[i] = frames[i]
    BY <1>1, <1>6, <2>1
  <2> QED
    BY <2>2
<1>8. TypeOK'
  BY <1>1, <1>3, <1>5, <1>7 DEF IndInv, TypeOK
<1>9. HeapInv'
  <2>1. DottedTablesLinked(heap', birth', sections)
    BY ONLY <1>1, <1>2, <1>5, IndInv, CreateHeap
  <2> QED
    BY <1>1, <1>3, <2>1 DEF HeapInv
<1>10. Steady
  BY <1>1, <1>3, <1>4, <1>5 DEF Steady
<1>11. SectionInv'
  BY <1>1, <1>8, <1>10, SteadySections DEF IndInv, SectionInv, NoTableDefinedTwice, section
<1>12. ValueInv'
  <2>1. ASSUME NEW i \in DOMAIN frames', frames'[i].kind # "assign"
        PROVE  LET n == frames'[i].node
               IN  /\ n # Null /\ n <= used' /\ birth'[n] = section'
                   /\ heap'[n].source = "Value"
                   /\ frames'[i].kind = "array" => isArray(heap', n)
                   /\ frames'[i].kind = "inline" => isTable(heap', n)
    <3>1. section' = section
      BY <1>1 DEF section
    <3>2. CASE frames'[i] = frame
      <4>1. frames'[i].node = new /\ frames'[i].kind = kind
        BY <3>2 DEF frame
      <4> QED
        BY <4>1, <3>1, <1>1, <1>2, <1>3, <1>5, NodeTyping DEF isArray, isTable
    <3>3. CASE i \in DOMAIN frames /\ frames'[i] = frames[i]
      BY <2>1, <3>1, <3>3, <1>8, <1>10, SteadyValues
    <3> QED
      BY <3>2, <3>3, <1>7
  <2> QED
    BY <1>1, <2>1 DEF ValueInv
<1>13. WalkInv' /\ NoLogicError'
  BY <1>1 DEF IndInv, WalkInv, NoLogicError
<1> QED
  BY <1>8, <1>9, <1>11, <1>12, <1>13 DEF IndInv

\* OpenValueInv for the two kinds of value.
LEMMA OpenInv == IndInv /\ (OpenArray \/ OpenInlineTable) => IndInv'
<1>1. /\ Blank(NewArray("Value")) /\ NewArray("Value").type = "Array" /\ NewArray("Value").source = "Value"
      /\ Blank(NewTable("Value")) /\ NewTable("Value").type = "Table" /\ NewTable("Value").source = "Value"
  BY BlankCells DEF Source
<1>2. ASSUME IndInv, OpenArray PROVE IndInv'
  BY <1>1, <1>2, OpenValueInv DEF OpenArray
<1>3. ASSUME IndInv, OpenInlineTable PROVE IndInv'
  BY <1>1, <1>3, OpenValueInv DEF OpenInlineTable
<1> QED
  BY <1>2, <1>3

\* Adding an item to an array preserves the invariant.
LEMMA AddArrayItemInv == IndInv /\ AddArrayItem => IndInv'
<1> SUFFICES ASSUME IndInv, AddArrayItem PROVE IndInv'
  OBVIOUS
<1> DEFINE n == top.node
<1>1. /\ outcome = "parsing" /\ walk.goal = "none" /\ frames # <<>> /\ value # Null
      /\ top.kind = "array" /\ heap' = addValue(heap, n, value) /\ value' = Null
      /\ UNCHANGED <<used, document, currentTable, frames, walk, outcome, returned,
                     sections, birth>>
  BY DEF AddArrayItem, HasValue, InValue
<1>2. /\ n # Null /\ n <= used /\ heap[n].source = "Value" /\ isArray(heap, n)
      /\ n \in Ref
  BY <1>1, TopFrame DEF IndInv, ValueInv, Frame
<1>3. /\ n \in Node /\ value \in Node /\ value <= used /\ heap \in Heap /\ used \in 0..MaxNodes
  BY <1>1, <1>2, NodeTyping DEF IndInv, TypeOK, ValueInv
<1> HIDE DEF n
<1>4. ItemAdded(heap, heap', n, value)
  BY <1>1, <1>2, <1>3, AddValueFields
<1>5. heap' \in Heap
  BY <1>4 DEF ItemAdded
<1>6. CellsInUse(heap', used)
  BY <1>2, <1>3, <1>4, AddCells DEF IndInv, HeapInv
<1>7. ArraysOfTables(heap')
  <2>1. ArraysOfTablesBut(heap, n)
    BY DEF IndInv, HeapInv, ArraysOfTables, ArraysOfTablesBut
  <2> QED
    BY <1>2, <1>3, <1>4, <2>1, AddArrays
<1>8. SourcesFit(heap') /\ DottedTablesLinked(heap', birth, sections)
  BY <1>2, <1>3, <1>4, AddLinks DEF IndInv, HeapInv
<1>9. TypeOK'
  BY <1>1, <1>5 DEF IndInv, TypeOK, Ref
<1>10. HeapInv'
  BY <1>1, <1>6, <1>7, <1>8 DEF HeapInv
<1>11. Steady
  BY <1>1, <1>3, <1>4, NodeTyping DEF Steady, ItemAdded
<1>12. SectionInv'
  BY <1>1, <1>9, <1>11, SteadySections DEF IndInv, SectionInv, NoTableDefinedTwice, section
<1>13. ValueInv'
  BY <1>1, <1>9, <1>11, SteadyValues DEF ValueInv, section
<1>14. WalkInv' /\ NoLogicError'
  BY <1>1 DEF IndInv, WalkInv, NoLogicError
<1> QED
  BY <1>9, <1>10, <1>12, <1>13, <1>14 DEF IndInv

----------------------------------------------------------------------------
\* The last step of a walk, and the step that creates a missing table.

\* A new table stored under the key the walk stands at, born in section x.
LEMMA EntryCreated ==
    ASSUME IndInv, Walking, walk.pos <= Len(walk.keys), used < MaxNodes,
           NEW source \in {"ImplicitValue", "ImplicitTable", "ExplicitTable"}, NEW x \in Nat,
           source = "ImplicitValue" => isValueAssignment /\ x = section,
           heap' = setValue(Create(NewTable(source)), walk.at, key, new),
           used' = new, birth' = Born(x)
    PROVE  /\ new = used + 1 /\ new \in Node /\ used' \in 0..MaxNodes
           /\ heap' \in Heap /\ birth' \in [Node -> Nat]
           /\ CellsInUse(heap', used') /\ SourcesFit(heap') /\ ArraysOfTables(heap')
           /\ DottedTablesLinked(heap', birth', sections)
           /\ Steady
           /\ isTable(heap', new) /\ heap'[new].source = source /\ birth'[new] = x
           /\ child = Null => OnlyAdded
<1> DEFINE cell == NewTable(source)
           h == Create(cell)
           at == walk.at
<1>1. heap' = setValue(h, at, key, new) /\ used' = new /\ birth' = Born(x) /\ used < MaxNodes
  OBVIOUS
<1>2. Blank(cell) /\ cell.type = "Table" /\ cell.source = source
  BY BlankCells DEF Source
<1> HIDE DEF cell
<1>3. /\ new = used + 1 /\ new \in Node /\ new \in 0..MaxNodes /\ h \in Heap
      /\ h[new] = cell /\ \A n \in Node : n <= used => h[n] = heap[n]
      /\ \A n \in Node : n # new => h[n] = heap[n]
      /\ CellsInUse(h, new) /\ SourcesFit(h) /\ ArraysOfTables(h)
  BY ONLY <1>1, <1>2, IndInv, CreateHeap
<1>4. section \in Nat /\ used \in Nat
  BY DEF IndInv, TypeOK, section
<1>5. /\ birth' \in [Node -> Nat] /\ birth'[new] = x
      /\ \A n \in Node : n # new => birth'[n] = birth[n]
      /\ \A n \in Node : n <= used => birth'[n] = birth[n]
  BY <1>1, <1>3, BornFields
<1>6. walk.goal # "none" /\ outcome = "parsing"
  BY DEF Walking
<1>7. /\ key \in Key /\ at \in Node /\ at <= used /\ at # new
      /\ isTable(heap, at) /\ isTable(h, at) /\ h[at] = heap[at]
      /\ child = heap[at].entries[key]
  <2>1. key \in Key /\ at \in Node /\ at <= used /\ isTable(heap, at)
        /\ child = heap[at].entries[key]
    BY ChildType
  <2> HIDE DEF h, at
  <2>2. h[at] = heap[at] /\ at # new
    BY <1>3, <1>4, <2>1, NodeTyping
  <2> QED
    BY <2>1, <2>2 DEF isTable
<1> HIDE DEF h, at
<1>8. EntrySet(h, heap', at, key, new)
  BY <1>1, <1>3, <1>7, SetValueFields, NodeTyping
<1>9. at \in Nat /\ at <= new /\ new <= new /\ new \in Ref
  BY <1>3, <1>4, <1>7, NodeTyping
<1>10. CellsInUse(heap', new)
  BY <1>3, <1>7, <1>8, <1>9, SetCells
<1>11. SourcesFit(heap') /\ ArraysOfTables(heap')
  <2>1. ArraysOfTablesBut(h, Null)
    BY <1>3 DEF ArraysOfTables, ArraysOfTablesBut
  <2>2. SourcesFit(heap') /\ ArraysOfTablesBut(heap', Null)
    BY <1>3, <1>7, <1>8, <2>1, SetArrays
  <2> QED
    BY <2>2, NodeTyping DEF ArraysOfTables, ArraysOfTablesBut
<1>12. DottedTablesLinked(heap', birth', sections)
  <2>1. DottedTablesLinked(h, birth', sections)
    <3>1. h = Create(cell)
      BY DEF h
    <3> QED
      BY ONLY <3>1, <1>1, <1>2, <1>5, IndInv, CreateHeap
  <2>2. Linked(h, birth', sections, at, new)
    <3>1. CASE source # "ImplicitValue"
      BY <1>2, <1>3, <3>1 DEF Linked, DottedSource
    <3>2. CASE source = "ImplicitValue" /\ at = currentTable
      <4>1. section \in DOMAIN sections /\ currentTable = sections[section]
            /\ heap[currentTable].source = "ExplicitTable"
        BY <1>6 DEF IndInv, TypeOK, SectionInv, section
      <4> QED
        BY <1>5, <1>7, <3>2, <4>1 DEF Linked
    <3>3. CASE source = "ImplicitValue" /\ at # currentTable
      <4>1. heap[at].source \in DottedSource \cup {"Value"} /\ birth[at] = section
        BY <1>6, <3>3 DEF IndInv, WalkInv, isValueAssignment, at
      <4>2. birth'[at] = section
        BY <4>1, <1>5, <1>7
      <4> QED
        BY <1>5, <1>7, <3>3, <4>1, <4>2 DEF Linked, DottedSource
    <3> QED
      BY <3>1, <3>2, <3>3
  <2> QED
    BY <1>3, <1>7, <1>8, <1>9, <2>1, <2>2, SetLinks
<1>13. Steady
  <2>1. used <= used'
    BY <1>1, <1>3, <1>4
  <2>2. \A n \in Node : n <= used => heap'[n].type = heap[n].type
           /\ heap'[n].source = heap[n].source /\ birth'[n] = birth[n]
    BY <1>3, <1>5, <1>8 DEF EntrySet
  <2> QED
    BY <2>1, <2>2 DEF Steady
<1>14. isTable(heap', new) /\ heap'[new].source = source
  BY <1>2, <1>3, <1>8 DEF EntrySet, isTable
<1>15. ASSUME child = Null PROVE OnlyAdded
  <2>1. ASSUME NEW n \in Node
        PROVE  /\ \A k \in Key : heap[n].entries[k] # Null => heap'[n].entries[k] = heap[n].entries[k]
               /\ \A i \in DOMAIN heap[n].items :
                     i \in DOMAIN heap'[n].items /\ heap'[n].items[i] = heap[n].items[i]
    <3>1. CASE n = new
      <4>1. heap[n].items = <<>> /\ \A k \in Key : heap[n].entries[k] = Null
        BY <3>1, <1>3, <1>4, NodeTyping DEF IndInv, HeapInv, CellsInUse
      <4> QED
        BY <4>1
    <3>2. CASE n # new
      <4>1. h[n] = heap[n] /\ heap'[n].items = h[n].items
        BY <1>3, <1>8, <3>2 DEF EntrySet
      <4>2. \A k \in Key : n # at \/ k # key => heap'[n].entries[k] = heap[n].entries[k]
        BY <1>8, <4>1 DEF EntrySet
      <4> QED
        BY <1>7, <1>15, <4>1, <4>2
    <3> QED
      BY <3>1, <3>2
  <2> QED
    BY <2>1 DEF OnlyAdded
<1> QED
  BY <1>1, <1>3, <1>5, <1>8, <1>10, <1>11, <1>12, <1>13, <1>14, <1>15 DEF EntrySet

\* Creating a missing table on the way preserves the invariant.
LEMMA DescendToNewTableInv == IndInv /\ DescendToNewTable => IndInv'
<1> SUFFICES ASSUME IndInv, DescendToNewTable PROVE IndInv'
  OBVIOUS
<1> DEFINE source == IF isValueAssignment THEN "ImplicitValue" ELSE "ImplicitTable"
<1>1. /\ Descending /\ Walking /\ child = Null /\ used < MaxNodes
      /\ heap' = setValue(Create(NewTable(source)), walk.at, key, new)
      /\ used' = new /\ birth' = Born(section) /\ StepTo(new)
      /\ UNCHANGED <<document, currentTable, frames, value, outcome, returned, sections>>
  BY DEF DescendToNewTable, Descending
<1>2. /\ source \in {"ImplicitValue", "ImplicitTable", "ExplicitTable"}
      /\ source = "ImplicitValue" => isValueAssignment
      /\ isValueAssignment => source = "ImplicitValue"
  OBVIOUS
<1> HIDE DEF source
<1>3. /\ walk \in Walk /\ walk.pos \in Nat /\ walk.pos >= 1 /\ walk.goal # "none"
      /\ outcome = "parsing" /\ walk.pos <= Len(walk.keys) /\ section \in Nat
  BY <1>1 DEF IndInv, TypeOK, WalkInv, Walking, Walk, Descending, section
<1>4. /\ new = used + 1 /\ new \in Node /\ used' \in 0..MaxNodes
      /\ heap' \in Heap /\ birth' \in [Node -> Nat]
      /\ CellsInUse(heap', used') /\ SourcesFit(heap') /\ ArraysOfTables(heap')
      /\ DottedTablesLinked(heap', birth', sections)
      /\ Steady
      /\ isTable(heap', new) /\ heap'[new].source = source /\ birth'[new] = section
  BY ONLY <1>1, <1>2, <1>3, IndInv, EntryCreated
<1>5. new \in Ref /\ new # Null /\ walk.pos + 1 \in Nat /\ walk.pos + 1 >= 1 /\ new <= used'
  BY <1>1, <1>3, <1>4, NodeTyping
<1>6. walk' \in Walk /\ walk'.goal = walk.goal /\ walk'.at = new /\ walk'.pos = walk.pos + 1
  BY <1>1, <1>3, <1>5 DEF StepTo, Walk
<1>7. TypeOK'
  BY <1>1, <1>4, <1>6 DEF IndInv, TypeOK
<1>8. HeapInv'
  BY <1>1, <1>4 DEF HeapInv
<1>9. SectionInv'
  BY <1>1, <1>4, <1>7, SteadySections DEF IndInv, SectionInv, NoTableDefinedTwice, section
<1>10. ValueInv'
  BY <1>1, <1>4, <1>7, SteadyValues DEF IndInv, ValueInv, section
<1>11. WalkInv'
  <2>1. isValueAssignment' <=> isValueAssignment
    BY <1>6 DEF isValueAssignment
  <2>2. isValueAssignment => source \in DottedSource /\ section' = section
    BY <1>1, <1>2 DEF DottedSource, section
  <2>3. isValueAssignment <=> frames # <<>>
    BY <1>3 DEF IndInv, WalkInv
  <2> QED
    BY <1>1, <1>3, <1>4, <1>5, <1>6, <2>1, <2>2, <2>3 DEF WalkInv, isValueAssignment
<1>12. NoLogicError'
  BY <1>1 DEF IndInv, NoLogicError
<1> QED
  BY <1>7, <1>8, <1>9, <1>10, <1>11, <1>12 DEF IndInv

\* A header makes t current, a table that never was: what is left to show once
\* the heap of the next state is known.
LEMMA EnterSectionInv ==
    ASSUME IndInv, Walking, ~isValueAssignment, NEW t \in Node, EnterSection(t),
           UNCHANGED <<document, frames, value, outcome, returned>>,
           heap' \in Heap, used' \in 0..MaxNodes, birth' \in [Node -> Nat], Steady,
           CellsInUse(heap', used'), SourcesFit(heap'), ArraysOfTables(heap'),
           DottedTablesLinked(heap', birth', sections),
           t <= used', isTable(heap', t), heap'[t].source = "ExplicitTable",
           \A i \in DOMAIN sections : sections[i] # t
    PROVE  IndInv'
<1>1. /\ currentTable' = t /\ sections' = Append(sections, t) /\ walk' = NoWalk
      /\ outcome' = "parsing" /\ UNCHANGED <<document, frames, value, outcome, returned>>
  BY DEF EnterSection, Walking
<1>2. frames = <<>>
  BY DEF IndInv, WalkInv, Walking
<1>3. sections \in Seq(Node) /\ section \in Nat
      /\ sections' \in Seq(Node) /\ sections' # <<>> /\ DOMAIN sections = 1..section
      /\ DOMAIN sections' = 1..(section + 1) /\ section' = section + 1
      /\ sections'[section + 1] = t /\ \A i \in 1..section : sections'[i] = sections[i]
  BY <1>1 DEF IndInv, TypeOK, section
<1>4. walk' \in Walk
  BY <1>1, NodeTyping DEF NoWalk, Walk, Goal, Ref
<1>5. TypeOK'
  BY <1>1, <1>3, <1>4, NodeTyping DEF IndInv, TypeOK
<1>6. HeapInv'
  <2>1. DottedTablesLinked(heap', birth', sections')
    BY <1>1, <1>3, SectionLinks
  <2> QED
    BY <2>1 DEF HeapInv
<1>7. SectionInv'
  <2>1. /\ \A i \in DOMAIN sections : sections[i] <= used' /\ isTable(heap', sections[i])
              /\ heap'[sections[i]].source = "ExplicitTable"
        /\ document' # Null /\ document' <= used' /\ isTable(heap', document')
    BY <1>1, <1>5, SteadySections
  <2>2. ASSUME NEW i \in DOMAIN sections'
        PROVE  /\ sections'[i] <= used' /\ isTable(heap', sections'[i])
               /\ heap'[sections'[i]].source = "ExplicitTable"
    <3>1. sections'[i] = t \/ (i \in DOMAIN sections /\ sections'[i] = sections[i])
      BY <1>3
    <3> QED
      BY <2>1, <3>1
  <2>3. NoTableDefinedTwice'
    <3>1. \A i, j \in DOMAIN sections : sections[i] = sections[j] => i = j
      BY DEF IndInv, SectionInv, NoTableDefinedTwice
    <3> QED
      BY <1>3, <3>1 DEF NoTableDefinedTwice
  <2> QED
    BY <1>1, <1>3, <2>1, <2>2, <2>3 DEF SectionInv
<1>8. ValueInv'
  BY <1>1, <1>2, <1>5, SteadyValues DEF ValueInv
<1>9. WalkInv' /\ NoLogicError'
  BY <1>1 DEF WalkInv, NoLogicError, NoWalk
<1> QED
  BY <1>5, <1>6, <1>7, <1>8, <1>9 DEF IndInv

\* A header that creates its table preserves the invariant.
LEMMA CreateNewTableInv == IndInv /\ CreateNewTable => IndInv'
<1> SUFFICES ASSUME IndInv, CreateNewTable PROVE IndInv'
  OBVIOUS
<1>1. /\ Walking /\ walk.goal = "table" /\ walk.pos = Len(walk.keys) /\ used < MaxNodes
      /\ heap' = setValue(Create(NewTable("ExplicitTable")), walk.at, key, new)
      /\ used' = new /\ birth' = Born(section + 1) /\ EnterSection(new)
      /\ UNCHANGED <<document, frames, value, outcome, returned>>
  BY DEF CreateNewTable, Binding
<1>2. walk.pos <= Len(walk.keys) /\ section + 1 \in Nat /\ used \in Nat
  BY <1>1 DEF IndInv, TypeOK, section, Walk
<1>3. /\ new = used + 1 /\ new \in Node /\ used' \in 0..MaxNodes
      /\ heap' \in Heap /\ birth' \in [Node -> Nat]
      /\ CellsInUse(heap', used') /\ SourcesFit(heap') /\ ArraysOfTables(heap')
      /\ DottedTablesLinked(heap', birth', sections)
      /\ Steady
      /\ isTable(heap', new) /\ heap'[new].source = "ExplicitTable"
  BY ONLY <1>1, <1>2, IndInv, EntryCreated
<1>4. \A i \in DOMAIN sections : sections[i] # new
  BY <1>2, <1>3, NodeTyping DEF IndInv, SectionInv
<1>5. new <= used' /\ ~isValueAssignment
  BY <1>1, <1>3, NodeTyping DEF isValueAssignment
<1> QED
  BY ONLY <1>1, <1>3, <1>4, <1>5, IndInv, EnterSectionInv

\* A header that defines a table implied before preserves the invariant.
LEMMA CreateImpliedTableInv == IndInv /\ CreateImpliedTable => IndInv' /\ OnlyAdded
<1> SUFFICES ASSUME IndInv, CreateImpliedTable PROVE IndInv' /\ OnlyAdded
  OBVIOUS
<1> DEFINE h == makeExplicit(heap, child)
           at == walk.at
<1>1. /\ Walking /\ walk.goal = "table" /\ walk.pos = Len(walk.keys) /\ child # Null
      /\ isTable(heap, child)
      /\ heap[child].source \notin {"Value", "ImplicitValue", "ExplicitValue", "ExplicitTable"}
      /\ heap' = setValue(h, at, key, child) /\ EnterSection(child)
      /\ UNCHANGED <<used, document, frames, value, outcome, returned, birth>>
  BY DEF CreateImpliedTable, Binding
<1>2. walk.pos <= Len(walk.keys) /\ used \in Nat /\ heap \in Heap /\ birth \in [Node -> Nat]
      /\ used \in 0..MaxNodes
  BY <1>1 DEF IndInv, TypeOK, Walk
<1>3. /\ key \in Key /\ at \in Node /\ at <= used /\ isTable(heap, at)
      /\ child = heap[at].entries[key] /\ child \in Node /\ child <= used
  BY <1>1, <1>2, ChildType, NodeTyping
<1>4. heap[child].source = "ImplicitTable"
  BY <1>1, <1>2, <1>3, HeapTyping DEF Source
<1>5. MadeExplicit(heap, h, child)
  BY <1>2, <1>3, MakeExplicitFields
<1> HIDE DEF h, at
<1>6. EntrySet(h, heap', at, key, child)
  <2>1. h \in Heap /\ isTable(h, at) /\ child \in Ref
    BY <1>3, <1>5, NodeTyping DEF MadeExplicit, isTable
  <2> QED
    BY <1>1, <1>3, <2>1, SetValueFields
<1>7. /\ \A n \in Node : /\ heap'[n].type = heap[n].type /\ heap'[n].items = heap[n].items
                         /\ heap'[n].entries = heap[n].entries
                         /\ n # child => heap'[n].source = heap[n].source
      /\ heap'[child].source = "ExplicitTable"
  <2>1. heap'[child].source = "ExplicitTable"
    BY <1>3, <1>4, <1>5, <1>6 DEF MadeExplicit, EntrySet, Explicit
  <2>2. \A n \in Node : /\ heap'[n].type = heap[n].type /\ heap'[n].items = heap[n].items
                        /\ n # child => heap'[n].source = heap[n].source
    BY <1>5, <1>6 DEF MadeExplicit, EntrySet
  <2>3. ASSUME NEW n \in Node PROVE heap'[n].entries = heap[n].entries
    <3>1. \A k \in Key : heap'[n].entries[k] = heap[n].entries[k]
      BY <1>3, <1>5, <1>6 DEF MadeExplicit, EntrySet
    <3>2. heap'[n].entries \in [Key -> Ref] /\ heap[n].entries \in [Key -> Ref]
      BY <1>2, <1>6 DEF EntrySet, Heap, Cell
    <3> QED
      BY <3>1, <3>2
  <2> QED
    BY <2>1, <2>2, <2>3
<1>8. MadeExplicit(heap, heap', child)
  BY <1>4, <1>6, <1>7 DEF MadeExplicit, EntrySet, Explicit
<1>9. /\ CellsInUse(heap', used') /\ SourcesFit(heap') /\ ArraysOfTables(heap')
  <2>1. ArraysOfTablesBut(heap, Null)
    BY DEF IndInv, HeapInv, ArraysOfTables, ArraysOfTablesBut
  <2>2. ArraysOfTablesBut(heap', Null)
    BY <1>1, <1>2, <1>3, <1>8, <2>1, ExplicitCells
  <2>3. CellsInUse(heap, used) /\ SourcesFit(heap)
    BY DEF IndInv, HeapInv
  <2>4. CellsInUse(heap', used) /\ SourcesFit(heap')
    BY <1>1, <1>2, <1>3, <1>8, <2>3, ExplicitCells
  <2> QED
    BY <1>1, <2>2, <2>4, NodeTyping DEF ArraysOfTables, ArraysOfTablesBut
<1>10. DottedTablesLinked(heap', birth', sections)
  BY <1>1, <1>2, <1>3, <1>8, ExplicitLinks DEF IndInv, HeapInv
<1>11. Steady
  <2>1. used <= used'
    BY <1>1, <1>2
  <2> QED
    BY <1>1, <1>4, <1>7, <2>1 DEF Steady, DottedSource
<1>12. \A i \in DOMAIN sections : sections[i] # child
  BY <1>4 DEF IndInv, SectionInv
<1>13. /\ heap' \in Heap /\ used' \in 0..MaxNodes /\ birth' \in [Node -> Nat]
       /\ child <= used' /\ isTable(heap', child) /\ heap'[child].source = "ExplicitTable"
       /\ ~isValueAssignment
  BY <1>1, <1>2, <1>3, <1>7, <1>8 DEF MadeExplicit, isTable, isValueAssignment
<1>14. IndInv'
  BY ONLY <1>1, <1>3, <1>9, <1>10, <1>11, <1>12, <1>13, IndInv, EnterSectionInv
<1>15. OnlyAdded
  BY <1>7 DEF OnlyAdded
<1> QED
  BY <1>14, <1>15

\* An item more, and nothing else.
LEMMA ItemAddedOnly ==
    ASSUME NEW h \in Heap, NEW g, NEW n \in Node, NEW v \in Node, ItemAdded(h, g, n, v),
           NEW m \in Node
    PROVE  /\ g[m].entries = h[m].entries
           /\ \A i \in DOMAIN h[m].items : i \in DOMAIN g[m].items /\ g[m].items[i] = h[m].items[i]
<1>1. g[m].entries = h[m].entries
  BY DEF ItemAdded
<1>2. CASE m # n
  BY <1>1, <1>2 DEF ItemAdded
<1>3. CASE m = n
  <2>1. h[n].items \in Seq(Node) /\ g[n].items = Append(h[n].items, v)
    BY HeapTyping DEF ItemAdded
  <2>2. \A i \in DOMAIN h[n].items : i \in DOMAIN g[n].items /\ g[n].items[i] = h[n].items[i]
    BY <2>1
  <2> QED
    BY <1>1, <1>3, <2>2
<1> QED
  BY <1>2, <1>3

\* A further element of an array of tables preserves the invariant.
LEMMA ExtendArrayOfTablesInv == IndInv /\ ExtendArrayOfTables => IndInv' /\ OnlyAdded
<1> SUFFICES ASSUME IndInv, ExtendArrayOfTables PROVE IndInv' /\ OnlyAdded
  OBVIOUS
<1> DEFINE cell == NewTable("ExplicitTable")
           h == Create(cell)
<1>1. /\ Walking /\ walk.goal = "tableArray" /\ walk.pos = Len(walk.keys) /\ child # Null
      /\ isArray(heap, child) /\ heap[child].source # "Value" /\ used < MaxNodes
      /\ heap' = addValue(h, child, new) /\ used' = new /\ birth' = Born(section + 1)
      /\ EnterSection(new)
      /\ UNCHANGED <<document, frames, value, outcome, returned>>
  BY DEF ExtendArrayOfTables, Binding
<1>2. Blank(cell) /\ cell.type = "Table" /\ cell.source = "ExplicitTable"
  BY BlankCells DEF Source
<1> HIDE DEF cell
<1>3. /\ new = used + 1 /\ new \in Node /\ new \in 0..MaxNodes /\ h \in Heap
      /\ h[new] = cell /\ \A n \in Node : n <= used => h[n] = heap[n]
      /\ \A n \in Node : n # new => h[n] = heap[n]
      /\ CellsInUse(h, new) /\ SourcesFit(h) /\ ArraysOfTables(h)
  BY ONLY <1>1, <1>2, IndInv, CreateHeap
<1>4. walk.pos <= Len(walk.keys) /\ section + 1 \in Nat /\ used \in Nat /\ heap \in Heap
  BY <1>1 DEF IndInv, TypeOK, section, Walk
<1>5. /\ birth' \in [Node -> Nat]
      /\ \A n \in Node : n # new => birth'[n] = birth[n]
      /\ \A n \in Node : n <= used => birth'[n] = birth[n]
  BY <1>1, <1>3, <1>4, BornFields
<1>6. child \in Node /\ child <= used
  BY <1>1, <1>4, ChildType, NodeTyping
<1>7. DottedTablesLinked(h, birth', sections)
  <2>1. h = Create(cell)
    OBVIOUS
  <2> QED
    BY ONLY <2>1, <1>1, <1>2, <1>5, IndInv, CreateHeap
<1> HIDE DEF h
<1>8. child # new /\ child <= new /\ new <= new /\ h[child] = heap[child]
  BY <1>3, <1>4, <1>6, NodeTyping
<1>9. isArray(h, child) /\ isTable(h, new) /\ h[new].source = "ExplicitTable"
  BY <1>1, <1>2, <1>3, <1>8 DEF isArray, isTable
<1>10. ItemAdded(h, heap', child, new)
  BY <1>1, <1>3, <1>6, <1>9, AddValueFields
<1>11. CellsInUse(heap', new)
  BY <1>3, <1>6, <1>8, <1>10, AddCells
<1>12. SourcesFit(heap') /\ DottedTablesLinked(heap', birth', sections)
  BY <1>3, <1>6, <1>7, <1>10, AddLinks
<1>13. ArraysOfTables(heap')
  <2>1. ArraysOfTablesBut(h, child) /\ (h[child].source # "Value" =>
           \A i \in DOMAIN h[child].items : isTable(h, h[child].items[i]))
    BY <1>3, <1>6, <1>9 DEF ArraysOfTables, ArraysOfTablesBut
  <2> QED
    BY <1>3, <1>6, <1>9, <1>10, <2>1, AddArrays
<1>14. Steady
  <2>1. used <= used'
    BY <1>1, <1>3, <1>4
  <2>2. \A n \in Node : n <= used => heap'[n].type = heap[n].type
           /\ heap'[n].source = heap[n].source /\ birth'[n] = birth[n]
    BY <1>3, <1>5, <1>10 DEF ItemAdded
  <2> QED
    BY <2>1, <2>2 DEF Steady
<1>15. \A i \in DOMAIN sections : sections[i] # new
  BY <1>3, <1>4, NodeTyping DEF IndInv, SectionInv
<1>16. /\ heap' \in Heap /\ isTable(heap', new) /\ heap'[new].source = "ExplicitTable"
       /\ new <= used' /\ ~isValueAssignment /\ used' \in 0..MaxNodes
  BY <1>1, <1>3, <1>8, <1>9, <1>10 DEF ItemAdded, isTable, isValueAssignment
<1>17. IndInv'
  BY ONLY <1>1, <1>3, <1>5, <1>11, <1>12, <1>13, <1>14, <1>15, <1>16, IndInv, EnterSectionInv
<1>18. OnlyAdded
  <2>1. ASSUME NEW n \in Node
        PROVE  /\ \A k \in Key : heap[n].entries[k] # Null => heap'[n].entries[k] = heap[n].entries[k]
               /\ \A i \in DOMAIN heap[n].items :
                     i \in DOMAIN heap'[n].items /\ heap'[n].items[i] = heap[n].items[i]
    <3>1. CASE n = new
      BY <3>1, <1>3, <1>4, NodeTyping DEF IndInv, HeapInv, CellsInUse
    <3>2. CASE n # new
      <4>1. h[n] = heap[n]
        BY <1>3, <3>2
      <4> QED
        BY <1>3, <1>6, <1>10, <4>1, ItemAddedOnly
    <3> QED
      BY <3>1, <3>2
  <2> QED
    BY <2>1 DEF OnlyAdded
<1> QED
  BY <1>17, <1>18

\* The first element of an array of tables comes with the array, so that no
\* state between statements has an empty one.
LEMMA CreateNewArrayOfTablesInv == IndInv /\ CreateNewArrayOfTables => IndInv' /\ OnlyAdded
<1> SUFFICES ASSUME IndInv, CreateNewArrayOfTables PROVE IndInv' /\ OnlyAdded
  OBVIOUS
<1> DEFINE array == NewArray("ExplicitTable")
           table == NewTable("ExplicitTable")
           at == walk.at
           h == Create(array)
           withArray == setValue(h, at, key, new)
           withTable == [withArray EXCEPT ![new + 1] = table]
           b == Born(section + 1)
<1>1. /\ Walking /\ walk.goal = "tableArray" /\ walk.pos = Len(walk.keys) /\ child = Null
      /\ used + 2 <= MaxNodes /\ heap' = addValue(withTable, new, new + 1)
      /\ birth' = [n \in Node |-> IF n \in {new, new + 1} THEN section + 1 ELSE birth[n]]
      /\ used' = new + 1 /\ EnterSection(new + 1)
      /\ UNCHANGED <<document, frames, value, outcome, returned>>
  BY DEF CreateNewArrayOfTables, Binding
<1>2. /\ Blank(array) /\ array.type = "Array" /\ array.source = "ExplicitTable"
      /\ Blank(table) /\ table.type = "Table" /\ table.source = "ExplicitTable"
  BY BlankCells DEF Source
<1> HIDE DEF array, table
<1>3. /\ walk.pos <= Len(walk.keys) /\ section + 1 \in Nat /\ used \in Nat /\ used < MaxNodes
      /\ birth \in [Node -> Nat] /\ heap \in Heap /\ MaxNodes \in Nat
  BY <1>1, NodeTyping DEF IndInv, TypeOK, section, Walk
<1>4. /\ new = used + 1 /\ new \in Node /\ new \in 0..MaxNodes /\ h \in Heap
      /\ h[new] = array /\ \A n \in Node : n <= used => h[n] = heap[n]
      /\ \A n \in Node : n # new => h[n] = heap[n]
      /\ CellsInUse(h, new) /\ SourcesFit(h) /\ ArraysOfTablesBut(h, new)
  BY ONLY <1>2, <1>3, IndInv, CreateHeap
<1>5. /\ new < MaxNodes /\ new + 1 \in Node /\ new + 1 \in 0..MaxNodes /\ new # new + 1
      /\ new \in Ref /\ new <= new /\ new <= new + 1 /\ new + 1 <= new + 1
  BY <1>1, <1>3, <1>4, NodeTyping DEF Node
<1>6. /\ key \in Key /\ at \in Node /\ at <= new /\ at # new /\ at # new + 1
      /\ isTable(heap, at) /\ child = heap[at].entries[key]
  <2>1. key \in Key /\ at \in Node /\ at <= used /\ isTable(heap, at)
        /\ child = heap[at].entries[key]
    BY <1>1, <1>3, ChildType
  <2> HIDE DEF at, withTable
  <2> QED
    BY <1>3, <1>4, <2>1, NodeTyping
<1>7. b \in [Node -> Nat] /\ \A n \in Node : n # new => b[n] = birth[n]
  BY <1>3, <1>4, BornFields
<1>8. DottedTablesLinked(h, b, sections)
  <2>1. h = Create(array)
    OBVIOUS
  <2> HIDE DEF b, h
  <2> QED
    BY ONLY <2>1, <1>2, <1>3, <1>7, IndInv, CreateHeap
<1>9. /\ birth' \in [Node -> Nat] /\ \A n \in Node : n # new + 1 => birth'[n] = b[n]
      /\ \A n \in Node : n <= used => birth'[n] = birth[n]
  <2>1. /\ birth' \in [Node -> Nat] /\ birth'[new] = section + 1
        /\ \A n \in Node : n # new /\ n # new + 1 => birth'[n] = birth[n]
    BY <1>1, <1>3, <1>4
  <2>2. b[new] = section + 1
    BY <1>3, <1>4 DEF Born
  <2>3. \A n \in Node : n <= used => n # new /\ n # new + 1
    BY <1>3, <1>4, NodeTyping
  <2> HIDE DEF b
  <2> QED
    BY <1>7, <2>1, <2>2, <2>3
<1> HIDE DEF h, b, at
<1>10. h[at] = heap[at] /\ isTable(h, at)
  BY <1>4, <1>6 DEF isTable
<1>11. EntrySet(h, withArray, at, key, new)
  BY <1>4, <1>5, <1>6, <1>10, SetValueFields
<1> HIDE DEF withArray
<1>12. withArray \in Heap /\ isArray(withArray, new) /\ withArray[new].source = "ExplicitTable"
       /\ withArray[new].items = <<>>
  BY <1>2, <1>4, <1>11 DEF EntrySet, isArray, Blank
<1>13. CellsInUse(withArray, new)
  BY <1>4, <1>5, <1>6, <1>11, SetCells
<1>14. SourcesFit(withArray) /\ ArraysOfTablesBut(withArray, new)
  BY <1>4, <1>5, <1>6, <1>11, SetArrays
<1>15. DottedTablesLinked(withArray, b, sections)
  <2>1. Linked(h, b, sections, at, new)
    BY <1>2, <1>4 DEF Linked, DottedSource
  <2> QED
    BY <1>4, <1>5, <1>6, <1>8, <1>11, <2>1, SetLinks
<1>16. /\ withTable \in Heap /\ withTable[new + 1] = table
       /\ \A n \in Node : n # new + 1 => withTable[n] = withArray[n]
  BY <1>2, <1>5, <1>12 DEF Heap, Blank
<1> HIDE DEF withTable
<1>17. CellsInUse(withTable, new + 1)
  BY <1>2, <1>4, <1>5, <1>12, <1>13, <1>16, PlaceCell
<1>18. SourcesFit(withTable)
  BY <1>2, <1>5, <1>12, <1>14, <1>16, PlaceCellSources
<1>19. ArraysOfTablesBut(withTable, new)
  BY <1>2, <1>4, <1>5, <1>12, <1>13, <1>14, <1>16, PlaceCellArrays
<1>20. DottedTablesLinked(withTable, birth', sections)
  BY ONLY <1>2, <1>4, <1>5, <1>7, <1>9, <1>12, <1>13, <1>15, <1>16, PlaceCellLinks
<1>21. /\ isArray(withTable, new) /\ withTable[new].items = <<>>
       /\ withTable[new].source = "ExplicitTable"
       /\ isTable(withTable, new + 1) /\ withTable[new + 1].source = "ExplicitTable"
  BY <1>2, <1>4, <1>5, <1>12, <1>16 DEF isArray, isTable
<1>22. ItemAdded(withTable, heap', new, new + 1)
  BY <1>1, <1>4, <1>5, <1>16, <1>21, AddValueFields
<1>23. CellsInUse(heap', new + 1)
  BY <1>4, <1>5, <1>16, <1>17, <1>22, AddCells
<1>24. ArraysOfTables(heap')
  BY <1>4, <1>5, <1>16, <1>19, <1>21, <1>22, AddArrays
<1>25. SourcesFit(heap') /\ DottedTablesLinked(heap', birth', sections)
  BY <1>4, <1>16, <1>18, <1>20, <1>22, AddLinks
<1>26. \A n \in Node : n <= used =>
          /\ n # new /\ n # new + 1 /\ h[n] = heap[n] /\ withTable[n] = withArray[n]
  <2>1. \A n \in Node : n <= used => n # new /\ n # new + 1
    BY <1>3, <1>4, NodeTyping
  <2> QED
    BY <1>4, <1>16, <2>1
<1>27. Steady
  <2>1. used <= used'
    BY <1>1, <1>3, <1>4
  <2>2. \A n \in Node : n <= used => heap'[n].type = heap[n].type
           /\ heap'[n].source = heap[n].source /\ birth'[n] = birth[n]
    BY <1>9, <1>11, <1>22, <1>26 DEF ItemAdded, EntrySet
  <2> QED
    BY <2>1, <2>2 DEF Steady
<1>28. \A i \in DOMAIN sections : sections[i] # new + 1
  <2>1. \A i \in DOMAIN sections : sections[i] \in Node /\ sections[i] <= used
    BY DEF IndInv, TypeOK, SectionInv
  <2> QED
    BY <1>26, <2>1
<1>29. /\ heap' \in Heap /\ isTable(heap', new + 1) /\ heap'[new + 1].source = "ExplicitTable"
       /\ new + 1 <= used' /\ ~isValueAssignment /\ used' \in 0..MaxNodes
  BY <1>1, <1>5, <1>21, <1>22 DEF ItemAdded, isTable, isValueAssignment
<1>30. IndInv'
  <2>1. new + 1 \in Node /\ used' = new + 1
    BY <1>1, <1>5
  <2> QED
    BY ONLY <1>1, <2>1, <1>9, <1>23, <1>24, <1>25, <1>27, <1>28, <1>29, IndInv, EnterSectionInv
<1>31. OnlyAdded
  <2>1. ASSUME NEW n \in Node
        PROVE  /\ \A k \in Key : heap[n].entries[k] # Null => heap'[n].entries[k] = heap[n].entries[k]
               /\ \A i \in DOMAIN heap[n].items :
                     i \in DOMAIN heap'[n].items /\ heap'[n].items[i] = heap[n].items[i]
    <3>1. CASE n > used
      BY <3>1 DEF IndInv, HeapInv, CellsInUse
    <3>2. CASE n <= used
      <4>1. heap'[n].items = heap[n].items
        BY <1>11, <1>22, <1>26, <3>2 DEF ItemAdded, EntrySet
      <4>2. \A k \in Key : n # at \/ k # key => heap'[n].entries[k] = heap[n].entries[k]
        BY <1>11, <1>22, <1>26, <3>2 DEF ItemAdded, EntrySet
      <4> QED
        BY <1>1, <1>6, <4>1, <4>2
    <3> QED
      BY <3>1, <3>2, <1>3, NodeTyping
  <2> QED
    BY <2>1 DEF OnlyAdded
<1> QED
  BY <1>30, <1>31

\* The value goes to its place and its table, if a dotted key made it, is
\* explicit from now on.
LEMMA AssignValueInv == IndInv /\ AssignValue => IndInv' /\ OnlyAdded
<1> SUFFICES ASSUME IndInv, AssignValue PROVE IndInv' /\ OnlyAdded
  OBVIOUS
<1> DEFINE at == walk.at
           h == setValue(heap, at, key, value)
<1>1. /\ Walking /\ walk.goal = "assign" /\ walk.pos = Len(walk.keys) /\ child = Null
      /\ heap' = makeExplicit(h, at) /\ frames' = Pop /\ value' = Null /\ walk' = NoWalk
      /\ outcome = "parsing"
      /\ UNCHANGED <<used, document, currentTable, outcome, returned, sections, birth>>
  BY DEF AssignValue, Binding, Walking
<1>2. walk.pos <= Len(walk.keys) /\ used \in Nat /\ heap \in Heap /\ birth \in [Node -> Nat]
      /\ used \in 0..MaxNodes /\ value \in Ref
      /\ (value # Null => value <= used /\ heap[value].source = "Value")
  BY <1>1 DEF IndInv, TypeOK, ValueInv, Walk
<1>3. /\ key \in Key /\ at \in Node /\ at <= used /\ isTable(heap, at)
      /\ child = heap[at].entries[key]
  BY <1>1, <1>2, ChildType
<1>4. heap[at].source = "ExplicitTable" \/ heap[at].source \in DottedSource
  <2>1. CASE at = currentTable
    <3>1. currentTable = sections[section] /\ section \in DOMAIN sections
      BY <1>1 DEF IndInv, TypeOK, SectionInv, section
    <3> QED
      BY <2>1, <3>1 DEF IndInv, SectionInv
  <2>2. CASE at # currentTable
    BY <1>1, <2>2 DEF IndInv, WalkInv, Walking, at
  <2> QED
    BY <2>1, <2>2
<1> HIDE DEF at
<1>5. EntrySet(heap, h, at, key, value)
  BY <1>2, <1>3, SetValueFields
<1> HIDE DEF h
<1>6. h \in Heap /\ isTable(h, at)
  BY <1>3, <1>5 DEF EntrySet, isTable
<1>7. MadeExplicit(h, heap', at)
  BY <1>1, <1>3, <1>6, MakeExplicitFields
<1>8. heap' \in Heap
  BY <1>7 DEF MadeExplicit
<1>9. CellsInUse(heap', used) /\ SourcesFit(heap') /\ ArraysOfTables(heap')
  <2>1. value <= used
    BY <1>2 DEF Null
  <2>2. CellsInUse(h, used)
    BY <1>2, <1>3, <1>5, <2>1, SetCells DEF IndInv, HeapInv
  <2>3. ArraysOfTablesBut(heap, Null) /\ SourcesFit(heap)
    BY DEF IndInv, HeapInv, ArraysOfTables, ArraysOfTablesBut
  <2>4. SourcesFit(h) /\ ArraysOfTablesBut(h, Null)
    BY <1>2, <1>3, <1>5, <2>3, SetArrays
  <2>5. CellsInUse(heap', used) /\ SourcesFit(heap') /\ ArraysOfTablesBut(heap', Null)
    BY <1>3, <1>6, <1>7, <2>2, <2>4, ExplicitCells
  <2> QED
    BY <2>5, NodeTyping DEF ArraysOfTables, ArraysOfTablesBut
<1>10. DottedTablesLinked(heap', birth, sections)
  <2>1. value # Null => Linked(heap, birth, sections, at, value)
    BY <1>2 DEF Linked, DottedSource
  <2>2. DottedTablesLinked(h, birth, sections)
    BY <1>2, <1>3, <1>5, <2>1, SetLinks DEF IndInv, HeapInv
  <2> QED
    BY <1>3, <1>6, <1>7, <2>2, ExplicitLinks
<1>11. HeapInv'
  BY <1>1, <1>9, <1>10 DEF HeapInv
<1>12. TypeOK'
  BY <1>1, <1>8, PopFrames, NodeTyping DEF IndInv, TypeOK, NoWalk, Walk, Goal, Ref
<1>13. Steady
  <2>1. \A n \in Node : /\ heap'[n].type = heap[n].type
                        /\ n # at => heap'[n].source = heap[n].source
    BY <1>5, <1>7 DEF EntrySet, MadeExplicit
  <2>2. heap'[at].source = Explicit(heap[at].source)
    BY <1>3, <1>5, <1>7 DEF EntrySet, MadeExplicit
  <2>3. /\ heap[at].source = "ExplicitTable" => heap'[at].source = "ExplicitTable"
        /\ heap[at].source \in DottedSource => heap'[at].source = "ExplicitValue"
    BY <2>2 DEF Explicit, DottedSource
  <2>4. used <= used'
    BY <1>1, <1>2
  <2> QED
    BY <1>1, <1>4, <2>1, <2>3, <2>4 DEF Steady, DottedSource
<1>14. SectionInv'
  BY <1>1, <1>12, <1>13, SteadySections DEF IndInv, SectionInv, NoTableDefinedTwice, section
<1>15. ValueInv'
  <2>1. \A i \in DOMAIN frames' : i \in DOMAIN frames /\ frames'[i] = frames[i]
    BY <1>1, PopFrames DEF IndInv
  <2> QED
    BY <1>1, <1>12, <1>13, <2>1, SteadyValues DEF ValueInv, section
<1>16. WalkInv' /\ NoLogicError'
  BY <1>1 DEF WalkInv, NoLogicError, NoWalk
<1>17. OnlyAdded
  <2>1. \A n \in Node : heap'[n].items = heap[n].items
    BY <1>5, <1>7 DEF EntrySet, MadeExplicit
  <2>2. \A n \in Node, k \in Key : n # at \/ k # key => heap'[n].entries[k] = heap[n].entries[k]
    BY <1>5, <1>7 DEF EntrySet, MadeExplicit
  <2> QED
    BY <1>1, <1>3, <2>1, <2>2 DEF OnlyAdded
<1> QED
  BY <1>11, <1>12, <1>14, <1>15, <1>16, <1>17 DEF IndInv

\* Binding an entry of an inline table preserves the invariant.
LEMMA AssignInlineEntryInv == IndInv /\ AssignInlineEntry => IndInv' /\ OnlyAdded
<1> SUFFICES ASSUME IndInv, AssignInlineEntry PROVE IndInv' /\ OnlyAdded
  OBVIOUS
<1> DEFINE at == walk.at
<1>1. /\ Walking /\ walk.goal = "inline" /\ walk.pos = Len(walk.keys) /\ child = Null
      /\ heap' = setValue(heap, at, key, value)
      /\ frames' = [frames EXCEPT ![Len(frames)].keys = <<>>]
      /\ value' = Null /\ walk' = NoWalk /\ outcome = "parsing"
      /\ UNCHANGED <<used, document, currentTable, outcome, returned, sections, birth>>
  BY DEF AssignInlineEntry, Binding, Walking
<1>2. walk.pos <= Len(walk.keys) /\ used \in Nat /\ heap \in Heap /\ birth \in [Node -> Nat]
      /\ used \in 0..MaxNodes /\ value \in Ref /\ frames # <<>>
      /\ (value # Null => value <= used /\ heap[value].source = "Value")
  BY <1>1 DEF IndInv, TypeOK, ValueInv, WalkInv, isValueAssignment, Walk
<1>3. /\ key \in Key /\ at \in Node /\ at <= used /\ isTable(heap, at)
      /\ child = heap[at].entries[key]
  BY <1>1, <1>2, ChildType
<1> HIDE DEF at
<1>4. EntrySet(heap, heap', at, key, value)
  BY <1>1, <1>2, <1>3, SetValueFields
<1>5. heap' \in Heap
  BY <1>4 DEF EntrySet
<1>6. CellsInUse(heap', used) /\ SourcesFit(heap') /\ ArraysOfTables(heap')
  <2>1. value <= used
    BY <1>2 DEF Null
  <2>2. CellsInUse(heap', used)
    BY <1>2, <1>3, <1>4, <2>1, SetCells DEF IndInv, HeapInv
  <2>3. ArraysOfTablesBut(heap, Null) /\ SourcesFit(heap)
    BY DEF IndInv, HeapInv, ArraysOfTables, ArraysOfTablesBut
  <2>4. SourcesFit(heap') /\ ArraysOfTablesBut(heap', Null)
    BY <1>2, <1>3, <1>4, <2>3, SetArrays
  <2> QED
    BY <2>2, <2>4, NodeTyping DEF ArraysOfTables, ArraysOfTablesBut
<1>7. DottedTablesLinked(heap', birth, sections)
  <2>1. value # Null => Linked(heap, birth, sections, at, value)
    BY <1>2 DEF Linked, DottedSource
  <2> QED
    BY <1>2, <1>3, <1>4, <2>1, SetLinks DEF IndInv, HeapInv
<1>8. HeapInv'
  BY <1>1, <1>6, <1>7 DEF HeapInv
<1>9. /\ frames' \in Seq(Frame) /\ DOMAIN frames' = DOMAIN frames
      /\ \A i \in DOMAIN frames : frames'[i].kind = frames[i].kind /\ frames'[i].node = frames[i].node
  <2>1. <<>> \in Seq(Key)
    OBVIOUS
  <2> QED
    BY <1>1, <1>2, <2>1, TopKeys DEF IndInv
<1>10. TypeOK'
  BY <1>1, <1>5, <1>9, NodeTyping DEF IndInv, TypeOK, NoWalk, Walk, Goal, Ref
<1>11. Steady
  <2>1. used <= used'
    BY <1>1, <1>2
  <2> QED
    BY <1>1, <1>4, <2>1 DEF Steady, EntrySet
<1>12. SectionInv'
  BY <1>1, <1>10, <1>11, SteadySections DEF IndInv, SectionInv, NoTableDefinedTwice, section
<1>13. ValueInv'
  BY <1>1, <1>9, <1>10, <1>11, SteadyValues DEF ValueInv, section
<1>14. WalkInv' /\ NoLogicError'
  BY <1>1 DEF WalkInv, NoLogicError, NoWalk
<1>15. OnlyAdded
  BY <1>1, <1>3, <1>4 DEF OnlyAdded, EntrySet
<1> QED
  BY <1>8, <1>10, <1>12, <1>13, <1>14, <1>15 DEF IndInv

----------------------------------------------------------------------------
\* Every step preserves the invariant and only adds to the tree.

\* The actions that end a parse with an error preserve the invariant.
LEMMA ConflictsInv ==
    IndInv /\ (\/ DescendConflict \/ CreateTableConflict
               \/ CreateArrayOfTablesConflict \/ AssignConflict \/ Abort) => IndInv'
  BY ConflictInv, ThrowInv
     DEF DescendConflict, CreateTableConflict, CreateArrayOfTablesConflict, AssignConflict,
         Abort, Outcome

\* Every step preserves the invariant.
LEMMA NextInv == IndInv /\ Next => IndInv'
<1> SUFFICES ASSUME IndInv, Next PROVE IndInv'
  OBVIOUS
<1>1. CASE BeginParse \/ EndOfDocument \/ Abort
  BY <1>1, BeginParseInv, EndOfDocumentInv, ConflictsInv
<1>2. ASSUME NEW path \in Path, BeginStatement(path) \/ BeginInlineEntry(path) PROVE IndInv'
  BY <1>2, BeginHeaderInv, BeginAssignmentInv, BeginInlineEntryInv DEF BeginStatement
<1>3. CASE ParseValue
  BY <1>3, ParseScalarInv, OpenInv, CloseValueInv, AddArrayItemInv, BeginInlineWalkInv,
     BeginAssignWalkInv DEF ParseValue
<1>4. CASE Descend
  BY <1>4, DescendToNewTableInv, DescendToTableInv, DescendIntoArrayInv, ConflictsInv
     DEF Descend
<1>5. CASE Bind
  BY <1>5, CreateNewTableInv, CreateImpliedTableInv, CreateNewArrayOfTablesInv,
     ExtendArrayOfTablesInv, AssignValueInv, AssignInlineEntryInv, ConflictsInv DEF Bind
<1> QED
  BY <1>1, <1>2, <1>3, <1>4, <1>5 DEF Next

\* A stuttering step preserves the invariant.
LEMMA StutterInv == IndInv /\ UNCHANGED vars => IndInv'
  BY QuietHeap DEF vars, Quiet, IndInv, TypeOK, SectionInv, NoTableDefinedTwice, ValueInv,
     WalkInv, NoLogicError, isTable, isArray, isValueAssignment, section

\* A step that leaves the heap alone adds nothing and loses nothing.
LEMMA SameHeapAdds == heap' = heap => OnlyAdded
  BY DEF OnlyAdded

\* A new value takes a cell that held nothing.
LEMMA CreateAdds ==
    ASSUME IndInv, used < MaxNodes, NEW cell, Blank(cell), heap' = Create(cell)
    PROVE  OnlyAdded
<1>1. /\ new = used + 1 /\ new \in Node /\ \A n \in Node : n # new => heap'[n] = heap[n]
  BY CreateHeap
<1>2. heap[new].items = <<>> /\ \A k \in Key : heap[new].entries[k] = Null
  BY <1>1, NodeTyping DEF IndInv, TypeOK, HeapInv, CellsInUse
<1>3. ASSUME NEW n \in Node
      PROVE  /\ \A k \in Key : heap[n].entries[k] # Null => heap'[n].entries[k] = heap[n].entries[k]
             /\ \A i \in DOMAIN heap[n].items :
                   i \in DOMAIN heap'[n].items /\ heap'[n].items[i] = heap[n].items[i]
  BY <1>1, <1>2
<1> QED
  BY <1>3 DEF OnlyAdded

\* The steps of parseValue only add.
LEMMA ValueStepAdds == IndInv /\ (BeginParse \/ ParseValue) => OnlyAdded
<1>1. ASSUME IndInv, BeginParse PROVE OnlyAdded
  BY <1>1, CreateAdds, BlankCells DEF BeginParse, Source
<1>2. ASSUME IndInv, ParseScalar PROVE OnlyAdded
  BY <1>2, CreateAdds, BlankCells DEF ParseScalar
<1>3. ASSUME IndInv, OpenArray \/ OpenInlineTable PROVE OnlyAdded
  BY <1>3, CreateAdds, BlankCells DEF OpenArray, OpenInlineTable, OpenValue, Source
<1>4. ASSUME IndInv, AddArrayItem PROVE OnlyAdded
  <2> DEFINE n == top.node
  <2>1. /\ frames # <<>> /\ value # Null /\ top.kind = "array" /\ heap' = addValue(heap, n, value)
    BY <1>4 DEF AddArrayItem, HasValue, InValue
  <2>2. n \in Node /\ isArray(heap, n) /\ heap[n].source = "Value" /\ value \in Node
    BY <1>4, <2>1, TopFrame, NodeTyping DEF IndInv, TypeOK, ValueInv, Frame
  <2> HIDE DEF n
  <2>3. heap \in Heap /\ ItemAdded(heap, heap', n, value)
    BY <1>4, <2>1, <2>2, AddValueFields DEF IndInv, TypeOK
  <2> QED
    BY <2>2, <2>3, ItemAddedOnly DEF OnlyAdded
<1>5. ASSUME CloseValue \/ BeginInlineWalk \/ BeginAssignWalk PROVE OnlyAdded
  BY <1>5, SameHeapAdds DEF CloseValue, BeginInlineWalk, BeginAssignWalk
<1> QED
  BY <1>1, <1>2, <1>3, <1>4, <1>5 DEF ParseValue

\* The steps that create a table under a free key only add.
LEMMA WalkStepAdds == IndInv /\ (DescendToNewTable \/ CreateNewTable) => OnlyAdded
<1>1. ASSUME IndInv, DescendToNewTable PROVE OnlyAdded
  <2> DEFINE source == IF isValueAssignment THEN "ImplicitValue" ELSE "ImplicitTable"
  <2>1. /\ Walking /\ child = Null /\ used < MaxNodes /\ used' = new /\ birth' = Born(section)
        /\ heap' = setValue(Create(NewTable(source)), walk.at, key, new)
    BY <1>1 DEF DescendToNewTable, Descending
  <2>2. /\ source \in {"ImplicitValue", "ImplicitTable", "ExplicitTable"}
        /\ source = "ImplicitValue" => isValueAssignment
    OBVIOUS
  <2> HIDE DEF source
  <2>3. walk.pos <= Len(walk.keys) /\ section \in Nat
    BY <1>1 DEF DescendToNewTable, Descending, IndInv, TypeOK, Walk, section
  <2> QED
    BY ONLY <1>1, <2>1, <2>2, <2>3, EntryCreated
<1>2. ASSUME IndInv, CreateNewTable PROVE OnlyAdded
  <2>1. /\ Walking /\ child = Null /\ used < MaxNodes /\ used' = new /\ birth' = Born(section + 1)
        /\ heap' = setValue(Create(NewTable("ExplicitTable")), walk.at, key, new)
    BY <1>2 DEF CreateNewTable, Binding
  <2>2. walk.pos <= Len(walk.keys) /\ section + 1 \in Nat
    BY <1>2 DEF CreateNewTable, Binding, IndInv, TypeOK, Walk, section
  <2> QED
    BY ONLY <1>2, <2>1, <2>2, EntryCreated
<1> QED
  BY <1>1, <1>2

\* An exception changes no value.
LEMMA ThrowAdds == ASSUME NEW error, Throw(error) PROVE OnlyAdded
  BY SameHeapAdds DEF Throw

\* Every step only adds.
LEMMA NextAdds == IndInv /\ Next => OnlyAdded
<1> SUFFICES ASSUME IndInv, Next PROVE OnlyAdded
  OBVIOUS
<1>1. CASE BeginParse \/ ParseValue
  BY <1>1, ValueStepAdds
<1>2. CASE EndOfDocument \/ Abort
  BY <1>2, SameHeapAdds, ThrowAdds DEF EndOfDocument, Abort
<1>3. ASSUME NEW path \in Path, BeginStatement(path) \/ BeginInlineEntry(path) PROVE OnlyAdded
  BY <1>3, SameHeapAdds
     DEF BeginStatement, BeginTable, BeginArrayOfTables, BeginAssignment, BeginInlineEntry
<1>4. CASE DescendToTable \/ DescendIntoArray
  BY <1>4, SameHeapAdds, ThrowAdds DEF DescendToTable, DescendIntoArray
<1>5. CASE DescendToNewTable \/ CreateNewTable
  BY <1>5, WalkStepAdds
<1>6. CASE DescendConflict \/ CreateTableConflict \/ CreateArrayOfTablesConflict \/ AssignConflict
  BY <1>6, ThrowAdds
     DEF DescendConflict, CreateTableConflict, CreateArrayOfTablesConflict, AssignConflict, Conflict
<1>7. CASE \/ CreateImpliedTable \/ CreateNewArrayOfTables \/ ExtendArrayOfTables
           \/ AssignValue \/ AssignInlineEntry
  BY <1>7, CreateImpliedTableInv, CreateNewArrayOfTablesInv, ExtendArrayOfTablesInv,
     AssignValueInv, AssignInlineEntryInv
<1> QED
  BY <1>1, <1>2, <1>3, <1>4, <1>5, <1>6, <1>7 DEF Next, Descend, Bind

----------------------------------------------------------------------------
\* The inductive invariant holds in every reachable state.
THEOREM Invariance == Spec => []IndInv
<1>1. IndInv /\ [Next]_vars => IndInv'
  BY NextInv, StutterInv
<1> QED
  BY InitInv, <1>1, PTL DEF Spec

\* Every variable keeps its type (ParserData.hpp:72-83).
THEOREM TypeCorrect == Spec => []TypeOK
<1>1. IndInv => TypeOK
  BY DEF IndInv
<1> QED
  BY Invariance, <1>1, PTL

\* No document, however long and over whatever keys, makes the parser throw a
\* std::logic_error: every array of tables a path leads through has a last
\* element, and that is a table (ParserData.cpp:224-233).
THEOREM LogicErrorFree == Spec => []NoLogicError
<1>1. IndInv => NoLogicError
  BY DEF IndInv
<1> QED
  BY Invariance, <1>1, PTL

\* No header ever makes a table current a second time, for any number of
\* statements and documents one parser reads (ParserData.cpp:148-205).
THEOREM TablesDefinedOnce == Spec => []NoTableDefinedTwice
<1>1. IndInv => NoTableDefinedTwice
  BY DEF IndInv, SectionInv
<1> QED
  BY Invariance, <1>1, PTL

\* The dotted keys of an assignment never lead out of the section it stands in
\* (ParserData.cpp:234-238).
THEOREM DottedKeysConfined == Spec => []DottedKeysStayInSection
<1>1. IndInv => DottedKeysStayInSection
  BY DEF IndInv, WalkInv, DottedKeysStayInSection, Walking
<1> QED
  BY Invariance, <1>1, PTL

\* Parsing only ever adds to the values there are: setValue never replaces an
\* entry though it calls insert_or_assign, and no array loses or changes an
\* item (Value.cpp:88-108, ParserData.cpp:85-93, 479-487).
THEOREM OnlyEverAdded == Spec => NothingOverwritten
<1>1. IndInv /\ [Next]_vars => [OnlyAdded]_vars
  BY NextAdds
<1> QED
  BY Invariance, <1>1, PTL DEF Spec, NothingOverwritten

----------------------------------------------------------------------------
\* Reach as a least closed set.

\* One round of the search: the nodes of T and the nodes they point to.
Grown(h, T) == T \cup (UNION {Children(h, n) : n \in T})

\* What Closure in the definition of Reach is chosen to satisfy.
IsClosure(h, f) ==
    f = [T \in SUBSET Node |-> IF Grown(h, T) = T THEN T ELSE f[Grown(h, T)]]

\* A set of nodes no pointer leads out of.
Closed(h, T) == T \subseteq Node /\ \A n \in T : Children(h, n) \subseteq T

\* The least closed set around S.
Hull(h, S) == {n \in Node : \A T \in SUBSET Node : S \subseteq T /\ Closed(h, T) => n \in T}

\* The definition of Reach, with its recursive function spelled out.
LEMMA ReachIsChosen ==
    ASSUME NEW h, NEW S
    PROVE  Reach(h, S) = (CHOOSE f : IsClosure(h, f))[S]
  BY DEF Reach, IsClosure, Grown

\* In a heap pointers lead to nodes.
LEMMA ChildrenAreNodes ==
    ASSUME NEW h \in Heap, NEW n \in Node
    PROVE  Children(h, n) \subseteq Node
<1>1. \A k \in Key : h[n].entries[k] \in Ref
  BY HeapTyping
<1>2. \A i \in DOMAIN h[n].items : h[n].items[i] \in Node
  BY HeapTyping
<1> QED
  BY <1>1, <1>2, NodeTyping DEF Children, Ref

\* One round of the search stays among the nodes and within every closed set.
LEMMA GrownSets ==
    ASSUME NEW h \in Heap, NEW T \in SUBSET Node
    PROVE  /\ Grown(h, T) \in SUBSET Node
           /\ T \subseteq Grown(h, T)
           /\ Grown(h, T) = T <=> Closed(h, T)
           /\ \A C : T \subseteq C /\ Closed(h, C) => Grown(h, T) \subseteq C
<1>1. \A n \in T : Children(h, n) \subseteq Node
  BY ChildrenAreNodes
<1>2. Grown(h, T) = T <=> Closed(h, T)
  <2>1. ASSUME Grown(h, T) = T, NEW n \in T PROVE Children(h, n) \subseteq T
    BY <2>1 DEF Grown
  <2>2. ASSUME Closed(h, T) PROVE Grown(h, T) = T
    BY <2>2 DEF Grown, Closed
  <2> QED
    BY <2>1, <2>2 DEF Closed
<1>3. ASSUME NEW C, T \subseteq C, Closed(h, C) PROVE Grown(h, T) \subseteq C
  BY <1>3 DEF Grown, Closed
<1> QED
  BY <1>1, <1>2, <1>3 DEF Grown

\* The least closed set contains its start, is closed and lies within every
\* other closed set around the start.
LEMMA HullIsLeast ==
    ASSUME NEW h \in Heap, NEW S \in SUBSET Node
    PROVE  /\ S \subseteq Hull(h, S)
           /\ Closed(h, Hull(h, S))
           /\ \A C : S \subseteq C /\ Closed(h, C) => Hull(h, S) \subseteq C
<1>1. S \subseteq Hull(h, S)
  BY DEF Hull
<1>2. ASSUME NEW n \in Hull(h, S), NEW m \in Children(h, n) PROVE m \in Hull(h, S)
  <2>1. n \in Node
    BY DEF Hull
  <2>2. m \in Node
    BY <2>1, ChildrenAreNodes
  <2>3. ASSUME NEW T \in SUBSET Node, S \subseteq T, Closed(h, T) PROVE m \in T
    <3>1. n \in T
      BY <2>3 DEF Hull
    <3> QED
      BY <1>2, <2>3, <3>1 DEF Closed
  <2> QED
    BY <2>2, <2>3 DEF Hull
<1>3. Closed(h, Hull(h, S))
  <2>1. Hull(h, S) \subseteq Node
    BY DEF Hull
  <2> QED
    BY <1>2, <2>1 DEF Closed
<1>4. ASSUME NEW C, S \subseteq C, Closed(h, C) PROVE Hull(h, S) \subseteq C
  BY <1>4 DEF Hull, Closed
<1> QED
  BY <1>1, <1>3, <1>4

\* One round of the search does not change the least closed set.
LEMMA HullOfGrown ==
    ASSUME NEW h \in Heap, NEW T \in SUBSET Node
    PROVE  Hull(h, Grown(h, T)) = Hull(h, T)
<1>1. /\ Grown(h, T) \in SUBSET Node /\ T \subseteq Grown(h, T)
      /\ \A C : T \subseteq C /\ Closed(h, C) => Grown(h, T) \subseteq C
  BY GrownSets
<1>2. Grown(h, T) \subseteq Hull(h, T)
  BY <1>1, HullIsLeast
<1>3. Hull(h, Grown(h, T)) \subseteq Hull(h, T)
  BY <1>1, <1>2, HullIsLeast
<1>4. T \subseteq Hull(h, Grown(h, T))
  BY <1>1, HullIsLeast
<1>5. Hull(h, T) \subseteq Hull(h, Grown(h, T))
  BY <1>1, <1>4, HullIsLeast
<1> QED
  BY <1>3, <1>5

\* The function that returns the least closed sets is a closure, so one exists.
LEMMA ClosureExists ==
    ASSUME NEW h \in Heap
    PROVE  IsClosure(h, CHOOSE f : IsClosure(h, f))
<1> DEFINE f == [T \in SUBSET Node |-> Hull(h, T)]
<1>1. ASSUME NEW T \in SUBSET Node
      PROVE  Hull(h, T) = IF Grown(h, T) = T THEN T ELSE f[Grown(h, T)]
  <2>1. CASE Grown(h, T) = T
    BY <2>1, GrownSets, HullIsLeast
  <2>2. CASE Grown(h, T) # T
    BY <2>2, GrownSets, HullOfGrown
  <2> QED
    BY <2>1, <2>2
<1>2. IsClosure(h, f)
  BY <1>1 DEF IsClosure
<1> HIDE DEF f
<1> QED
  BY <1>2, Zenon

\* A non-empty family of sets of nodes has a member of greatest cardinality.
LEMMA LargestMember ==
    ASSUME NEW F \in SUBSET (SUBSET Node), F # {}
    PROVE  \E T \in F : \A U \in F : ~ (T \subseteq U /\ T # U)
<1>1. IsFiniteSet(Node)
  BY NodeTyping, FS_Interval DEF Node
<1>2. \A T \in SUBSET Node : IsFiniteSet(T) /\ Cardinality(T) \in Nat
        /\ Cardinality(T) <= Cardinality(Node)
  BY <1>1, FS_Subset, FS_CardinalityType
<1> DEFINE room(T) == Cardinality(Node) - Cardinality(T)
<1> DEFINE rooms == {room(T) : T \in F}
<1> DEFINE less == OpToRel(<, Nat)
<1>3. \A T \in SUBSET Node : room(T) \in Nat
  BY <1>1, <1>2, FS_CardinalityType
<1>4. rooms \subseteq Nat /\ rooms # {}
  BY <1>3
<1>5. \A a, b \in Nat : <<a, b>> \in less <=> a < b
  BY DEF OpToRel
<1>6. IsWellFoundedOn(less, Nat)
  BY NatLessThanWellFounded
<1>7. \E a \in rooms : \A b \in rooms : ~ (<<b, a>> \in less)
  <2> HIDE DEF less, rooms
  <2> QED
    BY <1>4, <1>6, WFMin
<1>8. PICK T \in F : \A b \in rooms : ~ (<<b, room(T)>> \in less)
  BY <1>7
<1>9. ASSUME NEW U \in F, T \subseteq U, T # U PROVE FALSE
  <2>1. Cardinality(T) <= Cardinality(U) /\ Cardinality(T) # Cardinality(U)
    BY <1>2, <1>9, FS_Subset
  <2>2. room(U) < room(T)
    BY <1>1, <1>2, <2>1, FS_CardinalityType
  <2>3. room(U) \in rooms /\ room(U) \in Nat /\ room(T) \in Nat
    BY <1>3
  <2> QED
    BY <1>5, <1>8, <2>2, <2>3
<1> QED
  BY <1>9

\* Any closure returns the least closed sets: among the sets for which it did
\* not, the search from a largest one would go on from a larger one still.
LEMMA ClosureIsHull ==
    ASSUME NEW h \in Heap, NEW f, IsClosure(h, f), NEW S \in SUBSET Node
    PROVE  f[S] = Hull(h, S)
<1> DEFINE wrong == {T \in SUBSET Node : f[T] # Hull(h, T)}
<1>1. SUFFICES ASSUME wrong # {} PROVE FALSE
  OBVIOUS
<1>2. PICK T \in wrong : \A U \in wrong : ~ (T \subseteq U /\ T # U)
  <2>1. wrong \in SUBSET (SUBSET Node)
    OBVIOUS
  <2> HIDE DEF wrong
  <2> QED
    BY ONLY <1>1, <2>1, LargestMember
<1>3. f[T] = IF Grown(h, T) = T THEN T ELSE f[Grown(h, T)]
  BY DEF IsClosure
<1>4. CASE Grown(h, T) = T
  <2>1. Closed(h, T)
    BY <1>4, GrownSets
  <2>2. Hull(h, T) = T
    BY <2>1, HullIsLeast
  <2> QED
    BY <1>3, <1>4, <2>2
<1>5. CASE Grown(h, T) # T
  <2>1. Grown(h, T) \in SUBSET Node /\ T \subseteq Grown(h, T)
    BY GrownSets
  <2>2. f[Grown(h, T)] = Hull(h, Grown(h, T))
    BY <1>2, <1>5, <2>1
  <2> QED
    BY <1>3, <1>5, <2>2, HullOfGrown
<1> QED
  BY <1>4, <1>5

\* The search of Reach returns the least closed set around its start.
LEMMA ReachIsLeast ==
    ASSUME NEW h \in Heap, NEW S \in SUBSET Node
    PROVE  /\ S \subseteq Reach(h, S)
           /\ Reach(h, S) \subseteq Node
           /\ \A n \in Reach(h, S) : Children(h, n) \subseteq Reach(h, S)
           /\ \A C : S \subseteq C /\ Closed(h, C) => Reach(h, S) \subseteq C
<1>1. Reach(h, S) = Hull(h, S)
  BY ReachIsChosen, ClosureExists, ClosureIsHull
<1> QED
  BY <1>1, HullIsLeast DEF Closed

\* What is reached from reached nodes is reached.
LEMMA ReachWithin ==
    ASSUME NEW h \in Heap, NEW S \in SUBSET Node, NEW R \in SUBSET Node, R \subseteq Reach(h, S)
    PROVE  Reach(h, R) \subseteq Reach(h, S)
<1>1. Closed(h, Reach(h, S))
  BY ReachIsLeast DEF Closed
<1> QED
  BY <1>1, ReachIsLeast

\* From two starts together one reaches what one reaches from each of them.
LEMMA ReachJoin ==
    ASSUME NEW h \in Heap, NEW S \in SUBSET Node, NEW R \in SUBSET Node
    PROVE  Reach(h, S \cup R) = Reach(h, S) \cup Reach(h, R)
<1>1. Closed(h, Reach(h, S) \cup Reach(h, R))
  <2>1. Reach(h, S) \cup Reach(h, R) \subseteq Node
    BY ReachIsLeast
  <2>2. ASSUME NEW n \in Reach(h, S) \cup Reach(h, R)
        PROVE  Children(h, n) \subseteq Reach(h, S) \cup Reach(h, R)
    BY <2>2, ReachIsLeast
  <2> QED
    BY <2>1, <2>2 DEF Closed
<1>2. S \cup R \in SUBSET Node
  OBVIOUS
<1>3. Reach(h, S \cup R) \subseteq Reach(h, S) \cup Reach(h, R)
  BY <1>1, <1>2, ReachIsLeast
<1>4. S \subseteq Reach(h, S \cup R) /\ R \subseteq Reach(h, S \cup R)
  BY <1>2, ReachIsLeast
<1>5. Reach(h, S) \subseteq Reach(h, S \cup R) /\ Reach(h, R) \subseteq Reach(h, S \cup R)
  BY <1>2, <1>4, ReachWithin
<1> QED
  BY <1>3, <1>5

\* A node has a place below every node it is a child of, and no other.
LEMMA ChildHasPlace ==
    ASSUME NEW h \in Heap, NEW p \in Node, NEW c \in Node
    PROVE  c \in Children(h, p) <=> \E x : <<p, x>> \in Places(h, c)
<1>1. ASSUME c \in Children(h, p) PROVE \E x : <<p, x>> \in Places(h, c)
  <2>1. CASE \E k \in Key : h[p].entries[k] = c
    BY <2>1 DEF Places
  <2>2. CASE \E i \in DOMAIN h[p].items : h[p].items[i] = c
    BY <2>2 DEF Places
  <2> QED
    BY <1>1, <2>1, <2>2 DEF Children
<1>2. ASSUME NEW x, <<p, x>> \in Places(h, c) PROVE c \in Children(h, p)
  <2>1. c # Null
    BY NodeTyping
  <2>2. \/ x \in Key /\ h[p].entries[x] = c
        \/ x \in DOMAIN h[p].items /\ h[p].items[x] = c
    BY <1>2 DEF Places
  <2> QED
    BY <2>1, <2>2 DEF Children
<1> QED
  BY <1>1, <1>2

\* Where every value has one place, it has one parent.
LEMMA OneParent ==
    ASSUME NEW h \in Heap, OnePlace(h), NEW p \in Node, NEW q \in Node,
           NEW c \in Children(h, p) \cap Children(h, q)
    PROVE  p = q
<1>1. c \in Node
  BY ChildrenAreNodes
<1>2. PICK x, y : <<p, x>> \in Places(h, c) /\ <<q, y>> \in Places(h, c)
  BY <1>1, ChildHasPlace
<1> QED
  BY <1>1, <1>2 DEF OnePlace

\* A loose value is reached from itself only.
LEMMA LooseUnreached ==
    ASSUME NEW h \in Heap, NEW r \in Node, Places(h, r) = {}, NEW S \in SUBSET Node, r \notin S
    PROVE  r \notin Reach(h, S)
<1>1. \A n \in Node : r \notin Children(h, n)
  BY ChildHasPlace
<1>2. Closed(h, Node \ {r})
  BY <1>1, ChildrenAreNodes DEF Closed
<1> QED
  BY <1>2, ReachIsLeast

\* Where values have one parent, the child of a node that is not reached is
\* not reached either, unless the search starts there.
LEMMA ChildUnreached ==
    ASSUME NEW h \in Heap, OnePlace(h), NEW S \in SUBSET Node,
           NEW p \in Node, p \notin Reach(h, S), NEW c \in Children(h, p), c \notin S
    PROVE  c \notin Reach(h, S)
<1> DEFINE T == Reach(h, S) \ {c}
<1>1. \A n \in T : c \notin Children(h, n)
  BY OneParent, ReachIsLeast
<1>2. Closed(h, T)
  BY <1>1, ReachIsLeast DEF Closed
<1> QED
  BY <1>2, ReachIsLeast

\* The trees below different loose values have no value in common.
LEMMA TreesApart ==
    ASSUME NEW h \in Heap, OnePlace(h), NEW A \in SUBSET Node, NEW B \in SUBSET Node,
           A \cap B = {}, \A r \in A \cup B : Places(h, r) = {}
    PROVE  Reach(h, A) \cap Reach(h, B) = {}
<1> DEFINE T == Reach(h, A) \ Reach(h, B)
<1>1. A \subseteq T
  BY LooseUnreached, ReachIsLeast
<1>2. ASSUME NEW n \in T, NEW c \in Children(h, n) PROVE c \in T
  <2>1. n \in Node /\ c \in Reach(h, A)
    BY ReachIsLeast
  <2>2. c \notin B
    BY <2>1, ChildHasPlace
  <2>3. c \notin Reach(h, B)
    BY <2>1, <2>2, ChildUnreached
  <2> QED
    BY <2>1, <2>3
<1>3. Closed(h, T)
  BY <1>2, ReachIsLeast DEF Closed
<1>4. Reach(h, A) \subseteq T
  BY <1>1, <1>3, ReachIsLeast
<1> QED
  BY <1>4

----------------------------------------------------------------------------
\* What a change of the heap means for its shape.

\* The pointers of the two heaps are the same.
SameShape(h, g) ==
    \A n \in Node : Children(g, n) = Children(h, n) /\ Places(g, n) = Places(h, n)

\* In the heap g the value v is stored at the place x of p, and nothing else
\* differs from the heap h.
Attached(h, g, p, x, v) ==
    \A n \in Node :
        /\ Children(g, n) = IF n = p THEN Children(h, n) \cup {v} ELSE Children(h, n)
        /\ Places(g, n) = IF n = v THEN Places(h, n) \cup {<<p, x>>} ELSE Places(h, n)

\* Reach depends on the pointers only.
LEMMA SameReach ==
    ASSUME NEW h \in Heap, NEW g \in Heap, SameShape(h, g), NEW S \in SUBSET Node
    PROVE  Reach(g, S) = Reach(h, S)
<1>1. Closed(g, Reach(h, S)) /\ Closed(h, Reach(g, S))
  BY ReachIsLeast DEF Closed, SameShape
<1> QED
  BY <1>1, ReachIsLeast

\* And so does all that is said of the shape of the tree.
LEMMA SameTree ==
    ASSUME NEW h \in Heap, NEW g \in Heap, SameShape(h, g), OnePlace(h), NoCycle(h)
    PROVE  OnePlace(g) /\ NoCycle(g)
<1>1. OnePlace(g)
  BY DEF OnePlace, SameShape
<1>2. ASSUME NEW n \in Node PROVE n \notin Reach(g, Children(g, n))
  <2>1. Children(h, n) \in SUBSET Node
    BY ChildrenAreNodes
  <2> QED
    BY <2>1, SameReach DEF NoCycle, SameShape
<1> QED
  BY <1>1, <1>2 DEF NoCycle

\* Storing v below p: whatever reaches p now reaches v and what is below it,
\* and nothing else is reached that was not reached before.
LEMMA AttachReach ==
    ASSUME NEW h \in Heap, NEW g \in Heap, NEW p \in Node, NEW x, NEW v \in Node,
           Attached(h, g, p, x, v), NEW S \in SUBSET Node
    PROVE  /\ Reach(h, S) \subseteq Reach(g, S)
           /\ Reach(g, S) \subseteq Reach(h, S) \cup Reach(h, {v})
           /\ p \notin Reach(h, S) => Reach(g, S) = Reach(h, S)
           /\ p \in Reach(h, S) => v \in Reach(g, S)
<1>1. Closed(h, Reach(g, S))
  BY ReachIsLeast DEF Closed, Attached
<1>2. Reach(h, S) \subseteq Reach(g, S)
  BY <1>1, ReachIsLeast
<1>3. Closed(g, Reach(h, S) \cup Reach(h, {v}))
  <2>1. v \in Reach(h, {v}) /\ Reach(h, {v}) \subseteq Node
    BY ReachIsLeast
  <2> QED
    BY <2>1, ReachIsLeast DEF Closed, Attached
<1>4. ASSUME p \notin Reach(h, S) PROVE Closed(g, Reach(h, S))
  BY <1>4, ReachIsLeast DEF Closed, Attached
<1>5. ASSUME p \in Reach(h, S) PROVE v \in Reach(g, S)
  BY <1>2, <1>5, ReachIsLeast DEF Attached
<1>6. Reach(g, S) \subseteq Reach(h, S) \cup Reach(h, {v})
  <2>1. S \subseteq Reach(h, S) \cup Reach(h, {v})
    BY ReachIsLeast
  <2> QED
    BY <1>3, <2>1, ReachIsLeast
<1>7. ASSUME p \notin Reach(h, S) PROVE Reach(g, S) = Reach(h, S)
  <2>1. S \subseteq Reach(h, S)
    BY ReachIsLeast
  <2> QED
    BY <1>2, <1>4, <1>7, <2>1, ReachIsLeast
<1> QED
  BY <1>2, <1>5, <1>6, <1>7

\* A loose value that is stored below a value it does not itself contain
\* leaves a tree.
LEMMA AttachTree ==
    ASSUME NEW h \in Heap, NEW g \in Heap, NEW p \in Node, NEW x, NEW v \in Node,
           Attached(h, g, p, x, v), OnePlace(h), NoCycle(h),
           Places(h, v) = {}, p \notin Reach(h, {v})
    PROVE  OnePlace(g) /\ NoCycle(g)
<1>1. OnePlace(g)
  BY DEF OnePlace, Attached
<1>2. ASSUME NEW n \in Node PROVE n \notin Reach(g, Children(g, n))
  <2> DEFINE C == Children(h, n)
  <2>1. C \in SUBSET Node /\ {v} \in SUBSET Node /\ n \notin Reach(h, C)
    BY ChildrenAreNodes DEF NoCycle
  <2>2. CASE n = p
    <3>1. Children(g, n) = C \cup {v}
      BY <2>2 DEF Attached
    <3>2. p \notin Reach(h, C \cup {v})
      BY <2>1, <2>2, ReachJoin
    <3> QED
      BY <2>1, <2>2, <3>1, <3>2, AttachReach
  <2>3. CASE n # p
    <3>1. Children(g, n) = C
      BY <2>3 DEF Attached
    <3>2. CASE p \notin Reach(h, C)
      BY <2>1, <3>1, <3>2, AttachReach
    <3>3. CASE p \in Reach(h, C)
      <4>1. n \notin Reach(h, {v})
        <5> SUFFICES ASSUME n \in Reach(h, {v}) PROVE FALSE
          OBVIOUS
        <5>1. C \subseteq Reach(h, {v})
          BY <2>1, ReachIsLeast
        <5> QED
          BY <2>1, <3>3, <5>1, ReachWithin
      <4> QED
        BY <2>1, <3>1, <4>1, AttachReach
    <3> QED
      BY <3>2, <3>3
  <2> QED
    BY <2>2, <2>3
<1> QED
  BY <1>1, <1>2 DEF NoCycle

\* A new cell holds nothing and is stored nowhere.
LEMMA FreshShape ==
    ASSUME NEW h \in Heap, NEW u \in 0..MaxNodes, u < MaxNodes, CellsInUse(h, u),
           NEW g \in Heap, NEW cell, Blank(cell), g[u + 1] = cell,
           \A n \in Node : n # u + 1 => g[n] = h[n]
    PROVE  /\ SameShape(h, g)
           /\ Children(h, u + 1) = {}
           /\ Places(h, u + 1) = {}
<1> DEFINE m == u + 1
<1>1. m \in Node /\ m \in Nat /\ m > u
  BY MaxNodesAssumption DEF Node
<1>2. h[m].items = <<>> /\ \A k \in Key : h[m].entries[k] = Null
  BY <1>1 DEF CellsInUse
<1>3. g[m].items = <<>> /\ \A k \in Key : g[m].entries[k] = Null
  BY DEF Blank
<1> HIDE DEF m
<1>4. ASSUME NEW n \in Node PROVE Children(g, n) = Children(h, n)
  <2>1. CASE n = m
    BY <1>2, <1>3, <2>1 DEF Children
  <2>2. CASE n # m
    BY <2>2 DEF Children, m
  <2> QED
    BY <2>1, <2>2
<1>5. Children(h, m) = {}
  BY <1>2 DEF Children
<1>6. ASSUME NEW n \in Node PROVE Places(g, n) = Places(h, n)
  <2>1. n # Null
    BY NodeTyping
  <2>2. \A p \in Node : /\ \A k \in Key : g[p].entries[k] = n <=> h[p].entries[k] = n
                        /\ {j \in DOMAIN g[p].items : g[p].items[j] = n}
                           = {j \in DOMAIN h[p].items : h[p].items[j] = n}
    <3> TAKE p \in Node
    <3>1. CASE p = m
      BY <1>2, <1>3, <2>1, <3>1
    <3>2. CASE p # m
      BY <3>2 DEF m
    <3> QED
      BY <3>1, <3>2
  <2> QED
    BY <2>2 DEF Places
<1>7. Places(h, m) = {}
  <2>1. ASSUME NEW p \in Node, NEW k \in Key PROVE h[p].entries[k] # m
    BY <1>1, HeapTyping, NodeTyping DEF CellsInUse
  <2>2. ASSUME NEW p \in Node, NEW i \in DOMAIN h[p].items PROVE h[p].items[i] # m
    BY <1>1, HeapTyping, NodeTyping DEF CellsInUse
  <2> QED
    BY <2>1, <2>2 DEF Places
<1> QED
  BY <1>4, <1>5, <1>6, <1>7 DEF SameShape, m

\* A value stored under a free key.
LEMMA EntryAttached ==
    ASSUME NEW h \in Heap, NEW g, NEW p \in Node, NEW k \in Key, NEW v \in Node,
           EntrySet(h, g, p, k, v), h[p].entries[k] = Null
    PROVE  Attached(h, g, p, k, v)
<1>1. v # Null
  BY NodeTyping
<1>2. ASSUME NEW n \in Node, n # p PROVE Children(g, n) = Children(h, n)
  BY <1>2 DEF Children, EntrySet
<1>3. Children(g, p) = Children(h, p) \cup {v}
  <2>1. {g[p].entries[j] : j \in Key} \ {Null} = ({h[p].entries[j] : j \in Key} \ {Null}) \cup {v}
    BY <1>1 DEF EntrySet
  <2> QED
    BY <1>1, <2>1 DEF Children, EntrySet
<1>4. ASSUME NEW n \in Node
      PROVE  Places(g, n) = IF n = v THEN Places(h, n) \cup {<<p, k>>} ELSE Places(h, n)
  <2>1. n # Null
    BY NodeTyping
  <2>2. {place \in Node \X Key : g[place[1]].entries[place[2]] = n}
        = {place \in Node \X Key : h[place[1]].entries[place[2]] = n}
          \cup (IF n = v THEN {<<p, k>>} ELSE {})
    BY <2>1 DEF EntrySet
  <2>3. \A q \in Node : {j \in DOMAIN g[q].items : g[q].items[j] = n}
                        = {j \in DOMAIN h[q].items : h[q].items[j] = n}
    BY DEF EntrySet
  <2> QED
    BY <2>2, <2>3 DEF Places
<1> QED
  BY <1>2, <1>3, <1>4 DEF Attached

\* A value appended to an array.
LEMMA ItemAttached ==
    ASSUME NEW h \in Heap, NEW g, NEW p \in Node, NEW v \in Node, ItemAdded(h, g, p, v)
    PROVE  Attached(h, g, p, Len(h[p].items) + 1, v)
<1> DEFINE s == h[p].items
<1> DEFINE x == Len(s) + 1
<1>1. v # Null
  BY NodeTyping
<1>2. /\ s \in Seq(Node) /\ g[p].items = Append(s, v)
      /\ DOMAIN g[p].items = DOMAIN s \cup {x} /\ x \notin DOMAIN s
      /\ g[p].items[x] = v
      /\ \A i \in DOMAIN s : g[p].items[i] = s[i]
  <2>1. s \in Seq(Node) /\ g[p].items = Append(s, v)
    BY HeapTyping DEF ItemAdded
  <2>2. DOMAIN s = 1..Len(s) /\ DOMAIN Append(s, v) = 1..(Len(s) + 1) /\ Len(s) \in Nat
    BY <2>1
  <2> QED
    BY <2>1, <2>2, AppendProperties
<1>3. ASSUME NEW n \in Node, n # p PROVE Children(g, n) = Children(h, n)
  BY <1>3 DEF Children, ItemAdded
<1>4. Children(g, p) = Children(h, p) \cup {v}
  <2>1. {g[p].items[i] : i \in DOMAIN g[p].items} = {s[i] : i \in DOMAIN s} \cup {v}
    BY <1>2
  <2>2. g[p].entries = h[p].entries
    BY DEF ItemAdded
  <2> HIDE DEF s, x
  <2>3. Children(g, p) = ({h[p].entries[k] : k \in Key} \cup {s[i] : i \in DOMAIN s} \cup {v}) \ {Null}
    BY <2>1, <2>2 DEF Children
  <2>4. Children(h, p) = ({h[p].entries[k] : k \in Key} \cup {s[i] : i \in DOMAIN s}) \ {Null}
    BY DEF Children, s
  <2> QED
    BY <1>1, <2>3, <2>4
<1> HIDE DEF x
<1>5. ASSUME NEW n \in Node
      PROVE  Places(g, n) = IF n = v THEN Places(h, n) \cup {<<p, x>>} ELSE Places(h, n)
  <2>1. \A q \in Node : {j \in DOMAIN g[q].items : g[q].items[j] = n}
                        = {j \in DOMAIN h[q].items : h[q].items[j] = n}
                          \cup (IF n = v /\ q = p THEN {x} ELSE {})
    <3> TAKE q \in Node
    <3>1. CASE q = p
      BY <1>2, <3>1
    <3>2. CASE q # p
      BY <3>2 DEF ItemAdded
    <3> QED
      BY <3>1, <3>2
  <2>2. \A q \in Node : g[q].entries = h[q].entries
    BY DEF ItemAdded
  <2>3. CASE n = v
    BY <2>1, <2>2, <2>3 DEF Places
  <2>4. CASE n # v
    BY <2>1, <2>2, <2>4 DEF Places
  <2> QED
    BY <2>3, <2>4
<1> QED
  BY <1>3, <1>4, <1>5 DEF Attached, x

\* A value made explicit keeps its pointers.
LEMMA ExplicitShape ==
    ASSUME NEW h \in Heap, NEW g, NEW n \in Node, MadeExplicit(h, g, n)
    PROVE  SameShape(h, g)
<1>1. \A m \in Node : g[m].items = h[m].items /\ g[m].entries = h[m].entries
  BY DEF MadeExplicit
<1> QED
  BY <1>1 DEF SameShape, Children, Places

----------------------------------------------------------------------------
\* Loose values, and what becomes of them.

\* The nodes the frames of a stack fill.
Nodes(fs) == {fs[i].node : i \in DOMAIN fs} \ {Null}

\* The complete values of a heap that are not inside of another: the ones at
\* or below them are sealed.
Finished(h, open) ==
    {n \in Node : h[n].type # "Free" /\ h[n].source = "Value" /\ n \notin open}

\* What the definitions of open nodes and of sealed values come to.
LEMMA OpenAndSealed ==
    /\ OpenNodes = Nodes(frames)
    /\ Sealed = Reach(heap, Finished(heap, OpenNodes))
    /\ OpenNodes' = Nodes(frames')
    /\ Sealed' = Reach(heap', Finished(heap', OpenNodes'))
  BY DEF OpenNodes, Nodes, Sealed, Finished

\* A frame put on a stack opens its node.
LEMMA NodesOfAppend ==
    ASSUME NEW fs \in Seq(Frame), NEW f \in Frame
    PROVE  Nodes(Append(fs, f)) = Nodes(fs) \cup ({f.node} \ {Null})
<1> DEFINE gs == Append(fs, f)
<1>1. /\ DOMAIN gs = DOMAIN fs \cup {Len(fs) + 1} /\ gs[Len(fs) + 1] = f
      /\ \A i \in DOMAIN fs : gs[i] = fs[i]
  <2>1. DOMAIN gs = 1..(Len(fs) + 1) /\ DOMAIN fs = 1..Len(fs) /\ Len(fs) \in Nat
    OBVIOUS
  <2> QED
    BY <2>1, AppendProperties
<1> HIDE DEF gs
<1>2. {gs[i].node : i \in DOMAIN gs} = {fs[i].node : i \in DOMAIN fs} \cup {f.node}
  BY <1>1
<1> QED
  BY <1>2 DEF Nodes, gs

\* A frame taken off a stack closes its node, if no other frame fills it.
LEMMA NodesOfPop ==
    ASSUME TypeOK, frames # <<>>,
           \A i, j \in DOMAIN frames :
              frames[i].node = frames[j].node /\ frames[i].node # Null => i = j
    PROVE  Nodes(Pop) = Nodes(frames) \ {top.node}
<1>1. /\ Len(frames) \in Nat /\ Len(frames) # 0 /\ DOMAIN frames = 1..Len(frames)
      /\ DOMAIN Pop = 1..(Len(frames) - 1) /\ \A i \in DOMAIN Pop : Pop[i] = frames[i]
  BY DEF TypeOK, Pop
<1>2. DOMAIN frames = DOMAIN Pop \cup {Len(frames)} /\ Len(frames) \notin DOMAIN Pop
  BY <1>1
<1>3. {frames[i].node : i \in DOMAIN frames} = {Pop[i].node : i \in DOMAIN Pop} \cup {top.node}
  BY <1>1, <1>2 DEF top
<1>4. ASSUME NEW i \in DOMAIN Pop, Pop[i].node # Null PROVE Pop[i].node # top.node
  BY <1>1, <1>2, <1>4 DEF top
<1> QED
  BY <1>3, <1>4 DEF Nodes

\* What a state says of its loose values: they are in use and stored nowhere.
LEMMA LooseFacts ==
    ASSUME TreeInv
    PROVE  /\ heap \in Heap /\ used \in 0..MaxNodes /\ CellsInUse(heap, used)
           /\ OpenNodes \subseteq Node /\ LiveRoots \subseteq LooseValues
           /\ LooseValues \in SUBSET Node
           /\ \A r \in LooseValues : r <= used /\ Places(heap, r) = {}
           /\ \A r \in OpenNodes : heap[r].source = "Value"
           /\ Finished(heap, OpenNodes) \in SUBSET Node
           /\ \A n \in Finished(heap, OpenNodes) : n <= used
<1>1. /\ heap \in Heap /\ used \in 0..MaxNodes /\ CellsInUse(heap, used)
      /\ frames \in Seq(Frame) /\ document \in Ref /\ value \in Ref
  BY DEF TreeInv, IndInv, TypeOK, HeapInv
<1>2. ASSUME NEW r \in OpenNodes PROVE r \in Node /\ r <= used /\ heap[r].source = "Value"
  <2>1. PICK i \in DOMAIN frames : frames[i].node = r /\ r # Null
    BY DEF OpenNodes
  <2>2. frames[i] \in Frame /\ frames[i].kind # "assign"
    BY <1>1, <2>1 DEF TreeInv, FramesFit
  <2> QED
    BY <2>1, <2>2, NodeTyping DEF TreeInv, IndInv, ValueInv, Frame
<1>3. document # Null => document \in Node /\ document <= used
  BY <1>1, NodeTyping DEF TreeInv, IndInv, SectionInv, FramesFit
<1>4. value # Null => value \in Node /\ value <= used
  BY <1>1, NodeTyping DEF TreeInv, IndInv, ValueInv
<1>5. returned \subseteq Node /\ \A r \in returned : r <= used
  <2>1. used \in Nat
    BY <1>1, MaxNodesAssumption
  <2>2. \A r \in 1..used : r \in Node /\ r <= used
    BY <1>1, MaxNodesAssumption DEF Node
  <2> QED
    BY <2>2 DEF TreeInv, RootsApart
<1>6. \A r \in LooseValues : r \in Node /\ r <= used
  BY <1>2, <1>3, <1>4, <1>5 DEF LooseValues, LiveRoots
<1>7. \A n \in Finished(heap, OpenNodes) : n <= used
  <2>1. \A n \in Node : heap[n].type # "Free" => n <= used
    BY <1>1, NodeTyping DEF CellsInUse
  <2> QED
    BY <2>1 DEF Finished
<1> QED
  BY <1>1, <1>2, <1>6, <1>7 DEF TreeInv, Loose, LooseValues, Finished

\* A value that is being filled is not sealed.
LEMMA OpenNotSealed ==
    ASSUME TreeInv, NEW r \in OpenNodes
    PROVE  /\ r \in LiveRoots /\ r \in LooseValues /\ r \in Node
           /\ Places(heap, r) = {}
           /\ r \notin Sealed
<1>1. r \in LiveRoots /\ r \in LooseValues
  BY DEF LiveRoots, LooseValues, OpenNodes
<1>2. r \in Node /\ Places(heap, r) = {} /\ heap \in Heap
      /\ Finished(heap, OpenNodes) \in SUBSET Node
  BY <1>1, LooseFacts
<1>3. r \notin Finished(heap, OpenNodes)
  BY DEF Finished
<1>4. r \notin Reach(heap, Finished(heap, OpenNodes))
  BY <1>2, <1>3, LooseUnreached
<1> QED
  BY <1>1, <1>2, <1>4, OpenAndSealed

\* Making a value explicit does not make it complete, nor the other way round.
LEMMA ExplicitSource ==
    ASSUME NEW h \in Heap, NEW g, NEW n, MadeExplicit(h, g, n), NEW m \in Node
    PROVE  g[m].source = "Value" <=> h[m].source = "Value"
<1>1. CASE m = n
  <2>1. g[m].source = Explicit(h[m].source) /\ h[m].source \in Source
    BY <1>1, HeapTyping DEF MadeExplicit
  <2> QED
    BY <2>1 DEF Explicit, Source
<1>2. CASE m # n
  BY <1>2 DEF MadeExplicit
<1> QED
  BY <1>1, <1>2

\* The elements of arrays of tables depend on items and sources only.
LEMMA HeaderItemsKept ==
    ASSUME NEW h \in Heap, NEW g, HeaderItems(h)
    PROVE  /\ \A n, k, v : EntrySet(h, g, n, k, v) => HeaderItems(g)
           /\ \A n : MadeExplicit(h, g, n) => HeaderItems(g)
<1>1. ASSUME \A m \in Node : /\ g[m].type = h[m].type /\ g[m].items = h[m].items
                             /\ g[m].source = "Value" <=> h[m].source = "Value"
      PROVE  HeaderItems(g)
  <2>1. SUFFICES ASSUME NEW n \in Node, isArray(g, n), g[n].source # "Value",
                        NEW i \in DOMAIN g[n].items
                 PROVE  g[g[n].items[i]].source # "Value"
    BY DEF HeaderItems
  <2>2. g[n].items = h[n].items /\ isArray(h, n) /\ h[n].source # "Value"
    BY <1>1, <2>1 DEF isArray
  <2>3. h[n].items[i] \in Node /\ h[h[n].items[i]].source # "Value"
    BY <2>1, <2>2, HeapTyping DEF HeaderItems
  <2> QED
    BY <1>1, <2>2, <2>3
<1>2. ASSUME NEW n, NEW k, NEW v, EntrySet(h, g, n, k, v) PROVE HeaderItems(g)
  BY <1>1, <1>2 DEF EntrySet
<1>3. ASSUME NEW n, MadeExplicit(h, g, n) PROVE HeaderItems(g)
  BY <1>1, <1>3, ExplicitSource DEF MadeExplicit
<1> QED
  BY <1>2, <1>3

\* A table a header has made may be added to them.
LEMMA HeaderItemsAdded ==
    ASSUME NEW h \in Heap, HeaderItems(h), NEW g, NEW n \in Node, NEW v \in Node,
           ItemAdded(h, g, n, v),
           h[n].source # "Value" => h[v].source # "Value"
    PROVE  HeaderItems(g)
<1>1. SUFFICES ASSUME NEW m \in Node, isArray(g, m), g[m].source # "Value",
                      NEW i \in DOMAIN g[m].items
               PROVE  g[g[m].items[i]].source # "Value"
  BY DEF HeaderItems
<1>2. isArray(h, m) /\ h[m].source # "Value"
  BY <1>1 DEF ItemAdded, isArray
<1>3. CASE m = n
  <2>1. g[n].items = Append(h[n].items, v) /\ h[n].items \in Seq(Node)
    BY HeapTyping DEF ItemAdded
  <2>2. g[n].items[i] = v \/ (i \in DOMAIN h[n].items /\ g[n].items[i] = h[n].items[i])
    BY <1>1, <1>3, <2>1, AppendItem
  <2>3. g[n].items[i] \in Node /\ h[g[n].items[i]].source # "Value"
    BY <1>2, <1>3, <2>2, HeapTyping DEF HeaderItems
  <2> QED
    BY <1>3, <2>3 DEF ItemAdded
<1>4. CASE m # n
  <2>1. g[m].items = h[m].items
    BY <1>4 DEF ItemAdded
  <2>2. g[m].items[i] \in Node /\ h[g[m].items[i]].source # "Value"
    BY <1>1, <1>2, <2>1, HeapTyping DEF HeaderItems
  <2> QED
    BY <2>2 DEF ItemAdded
<1> QED
  BY <1>3, <1>4

\* The complete values stay the same where types and sources do.
LEMMA FinishedKept ==
    ASSUME NEW h, NEW g, NEW open,
           \A n \in Node : /\ g[n].type = h[n].type
                           /\ g[n].source = "Value" <=> h[n].source = "Value"
    PROVE  Finished(g, open) = Finished(h, open)
  BY DEF Finished

\* The heap g is the heap h with a value in the first free cell.
Filled(h, u, cell, g) ==
    /\ u \in 0..MaxNodes /\ u < MaxNodes
    /\ Blank(cell)
    /\ g \in Heap /\ g[u + 1] = cell
    /\ \A n \in Node : n # u + 1 => g[n] = h[n]

\* Values in use that are stored nowhere.
LooseIn(h, u, L) ==
    L \subseteq Node /\ \A r \in L : r <= u /\ Places(h, r) = {}

\* A cell that has just been filled is loose, and nothing is below it.
LEMMA FreshIsLoose ==
    ASSUME NEW h \in Heap, NEW u, CellsInUse(h, u), OnePlace(h), NoCycle(h),
           NEW L, LooseIn(h, u, L), NEW g, NEW cell, Filled(h, u, cell, g),
           NEW m, m = u + 1
    PROVE  /\ m \in Node /\ m \notin L
           /\ SameShape(h, g) /\ OnePlace(g) /\ NoCycle(g)
           /\ HeaderItems(h) => HeaderItems(g)
           /\ \A r \in L \cup {m} : Places(g, r) = {}
           /\ \A S \in SUBSET Node : Reach(g, S) = Reach(h, S)
           /\ Reach(g, {m}) = {m}
           /\ cell.source # "Value" => \A open : Finished(g, open) = Finished(h, open)
           /\ cell.source = "Value" => \A open :
                 /\ m \in open => Finished(g, open) = Finished(h, open)
                 /\ m \notin open => Finished(g, open) = Finished(h, open) \cup {m}
<1>0. /\ u \in 0..MaxNodes /\ u < MaxNodes /\ L \in SUBSET Node
      /\ Blank(cell) /\ g \in Heap /\ g[m] = cell /\ \A n \in Node : n # m => g[n] = h[n]
      /\ \A r \in L : r <= u /\ Places(h, r) = {}
  BY DEF Filled, LooseIn
<1>1. m \in Node /\ m \in Nat /\ m > u /\ u \in Nat
  BY <1>0, MaxNodesAssumption DEF Node
<1>2. SameShape(h, g) /\ Children(h, m) = {} /\ Places(h, m) = {}
  BY <1>0, FreshShape
<1>3. OnePlace(g) /\ NoCycle(g)
  BY <1>0, <1>2, SameTree
<1>4. \A r \in L : r # m /\ r \in Node
  BY <1>0, <1>1, NodeTyping
<1>5. \A r \in L \cup {m} : Places(g, r) = {}
  BY <1>0, <1>1, <1>2, <1>4 DEF SameShape
<1>6. \A S \in SUBSET Node : Reach(g, S) = Reach(h, S)
  BY <1>0, <1>2, SameReach
<1>7. Reach(g, {m}) = {m}
  <2>1. Closed(h, {m})
    BY <1>0, <1>1, <1>2 DEF Closed
  <2> QED
    BY <1>0, <1>1, <1>6, <2>1, ReachIsLeast
<1>8. ASSUME HeaderItems(h) PROVE HeaderItems(g)
  <2>1. SUFFICES ASSUME NEW n \in Node, isArray(g, n), g[n].source # "Value",
                        NEW i \in DOMAIN g[n].items
                 PROVE  g[g[n].items[i]].source # "Value"
    BY DEF HeaderItems
  <2>2. n # m /\ g[n] = h[n]
    BY <1>0, <2>1 DEF Blank
  <2>3. h[n].items[i] \in Node /\ h[n].items[i] <= u
    BY <1>0, <2>1, <2>2, HeapTyping DEF CellsInUse
  <2>4. g[h[n].items[i]] = h[h[n].items[i]]
    <3>1. ASSUME NEW x \in Node, x <= u PROVE g[x] = h[x]
      BY <1>0, <1>1, <3>1, NodeTyping
    <3> QED
      BY <2>3, <3>1
  <2> QED
    BY <1>0, <1>8, <2>1, <2>2, <2>4 DEF HeaderItems, isArray
<1>9. ASSUME NEW open
      PROVE  /\ cell.source # "Value" \/ m \in open => Finished(g, open) = Finished(h, open)
             /\ cell.source = "Value" /\ m \notin open => Finished(g, open) = Finished(h, open) \cup {m}
  <2>1. m \notin Finished(h, open)
    BY <1>0, <1>1 DEF CellsInUse, Finished
  <2>2. ASSUME NEW n \in Node, n # m PROVE n \in Finished(g, open) <=> n \in Finished(h, open)
    BY <1>0, <2>2 DEF Finished
  <2>3. m \in Finished(g, open) <=> cell.source = "Value" /\ m \notin open
    BY <1>0, <1>1 DEF Finished, Blank
  <2>4. Finished(g, open) \subseteq Node /\ Finished(h, open) \subseteq Node
    BY <1>0 DEF Finished
  <2>5. m \in Finished(g, open) => Finished(g, open) = Finished(h, open) \cup {m}
    BY <1>0, <1>1, <2>2, <2>4
  <2>6. ASSUME m \notin Finished(g, open) PROVE Finished(g, open) = Finished(h, open)
    <3>1. Finished(g, open) \subseteq Finished(h, open) /\ Finished(h, open) \subseteq Finished(g, open)
      BY <1>0, <2>1, <2>2, <2>4, <2>6
    <3> QED
      BY <1>0, <3>1
  <2> QED
    BY <1>0, <2>3, <2>5, <2>6
<1> QED
  BY <1>0, <1>1, <1>2, <1>3, <1>4, <1>5, <1>6, <1>7, <1>8, <1>9

\* So is a value the parser has just created.
LEMMA NewIsLoose ==
    ASSUME TreeInv, used < MaxNodes, NEW cell, Blank(cell), NEW g, g = Create(cell)
    PROVE  /\ new = used + 1 /\ new \in Node /\ g \in Heap
           /\ g[new] = cell /\ \A n \in Node : n # new => g[n] = heap[n]
           /\ new \notin LooseValues
           /\ OnePlace(g) /\ NoCycle(g) /\ HeaderItems(g)
           /\ \A r \in LooseValues \cup {new} : Places(g, r) = {}
           /\ \A S \in SUBSET Node : Reach(g, S) = Reach(heap, S)
           /\ Reach(g, {new}) = {new}
           /\ cell.source # "Value" => \A open : Finished(g, open) = Finished(heap, open)
           /\ cell.source = "Value" => \A open :
                 /\ new \in open => Finished(g, open) = Finished(heap, open)
                 /\ new \notin open => Finished(g, open) = Finished(heap, open) \cup {new}
           /\ cell.source = "Value" => Finished(g, OpenNodes) = Finished(heap, OpenNodes) \cup {new}
<1>1. /\ new = used + 1 /\ new \in Node /\ g \in Heap
      /\ g[new] = cell /\ \A n \in Node : n # new => g[n] = heap[n]
  BY CreateHeap DEF TreeInv
<1>2. /\ heap \in Heap /\ used \in 0..MaxNodes /\ CellsInUse(heap, used) /\ used < MaxNodes
      /\ OnePlace(heap) /\ NoCycle(heap) /\ HeaderItems(heap)
      /\ LooseValues \in SUBSET Node
      /\ \A r \in LooseValues : r <= used /\ Places(heap, r) = {}
  BY LooseFacts DEF TreeInv
<1>3. Filled(heap, used, cell, g) /\ LooseIn(heap, used, LooseValues)
  BY <1>1, <1>2 DEF Filled, LooseIn
<1>4. /\ new = used + 1 /\ new \in Node /\ g \in Heap
      /\ g[new] = cell /\ \A n \in Node : n # new => g[n] = heap[n]
      /\ new \notin LooseValues
      /\ OnePlace(g) /\ NoCycle(g) /\ HeaderItems(g)
      /\ \A r \in LooseValues \cup {new} : Places(g, r) = {}
      /\ \A S \in SUBSET Node : Reach(g, S) = Reach(heap, S)
      /\ Reach(g, {new}) = {new}
      /\ cell.source # "Value" => \A open : Finished(g, open) = Finished(heap, open)
      /\ cell.source = "Value" => \A open :
            /\ new \in open => Finished(g, open) = Finished(heap, open)
            /\ new \notin open => Finished(g, open) = Finished(heap, open) \cup {new}
  BY ONLY <1>1, <1>2, <1>3, FreshIsLoose
<1>5. new \notin OpenNodes
  BY <1>1, <1>4 DEF LooseValues, LiveRoots, OpenNodes, Null
<1> QED
  BY <1>4, <1>5

\* Values that are stored nowhere.
AllLoose(h, L) == L \in SUBSET Node /\ \A q \in L : Places(h, q) = {}

\* A loose value v stored below another, r: the others stay loose, and what
\* was below v is now below r.
LEMMA StoreLoose ==
    ASSUME NEW h \in Heap, NEW g \in Heap, OnePlace(h), NoCycle(h),
           NEW L, AllLoose(h, L),
           NEW v \in L, NEW r \in L, r # v,
           NEW p \in Reach(h, {r}), NEW x, Attached(h, g, p, x, v)
    PROVE  /\ OnePlace(g) /\ NoCycle(g)
           /\ \A q \in L \ {v} : Places(g, q) = {}
           /\ \A S \in SUBSET Node : Reach(h, S) \subseteq Reach(g, S)
           /\ \A S \in SUBSET Node : p \notin Reach(h, S) => Reach(g, S) = Reach(h, S)
           /\ \A S \in SUBSET Node : r \in S => Reach(h, S \cup {v}) \subseteq Reach(g, S)
<1>1. /\ {r} \in SUBSET Node /\ {v} \in SUBSET Node /\ p \in Node /\ v \in Node
      /\ Places(h, v) = {}
  BY ReachIsLeast DEF AllLoose
<1>2. p \notin Reach(h, {v})
  <2>1. {r} \cap {v} = {} /\ \A q \in {r} \cup {v} : Places(h, q) = {}
    BY DEF AllLoose
  <2>2. Reach(h, {r}) \cap Reach(h, {v}) = {}
    BY <1>1, <2>1, TreesApart
  <2> QED
    BY <2>2
<1>3. OnePlace(g) /\ NoCycle(g)
  BY <1>1, <1>2, AttachTree
<1>4. \A q \in L \ {v} : Places(g, q) = {}
  BY DEF Attached, AllLoose
<1>5. \A S \in SUBSET Node :
         /\ Reach(h, S) \subseteq Reach(g, S)
         /\ p \notin Reach(h, S) => Reach(g, S) = Reach(h, S)
         /\ p \in Reach(h, S) => v \in Reach(g, S)
  BY <1>1, AttachReach
<1>6. ASSUME NEW S \in SUBSET Node, r \in S PROVE Reach(h, S \cup {v}) \subseteq Reach(g, S)
  <2>1. {r} \subseteq Reach(h, S)
    BY <1>6, ReachIsLeast
  <2>2. p \in Reach(h, S)
    BY <1>1, <2>1, ReachWithin
  <2>3. v \in Reach(g, S)
    BY <1>5, <2>2
  <2>4. Reach(g, {v}) \subseteq Reach(g, S)
    BY <1>1, <2>3, ReachWithin
  <2>5. Reach(h, {v}) \subseteq Reach(g, {v}) /\ Reach(h, S) \subseteq Reach(g, S)
    BY <1>1, <1>5
  <2>6. Reach(h, S \cup {v}) = Reach(h, S) \cup Reach(h, {v})
    BY <1>1, ReachJoin
  <2> QED
    BY <2>4, <2>5, <2>6
<1> QED
  BY <1>3, <1>4, <1>5, <1>6

----------------------------------------------------------------------------
\* The actions that leave the heap alone.

\* The loose values stay the same: the stack and the walk remain to be looked at.
LEMMA SameRoots ==
    ASSUME TreeInv, UNCHANGED <<heap, used, document, value, returned, outcome>>,
           OpenNodes' = OpenNodes, IndInv', FramesFit', InPlace'
    PROVE  TreeInv'
<1>1. OnePlace(heap') /\ NoCycle(heap') /\ HeaderItems(heap')
  BY DEF TreeInv
<1>2. LiveRoots' = LiveRoots /\ LooseValues' = LooseValues
  BY DEF LiveRoots, LooseValues
<1>3. RootsApart' /\ Loose' /\ Held'
  BY <1>2 DEF TreeInv, RootsApart, Loose, Held
<1> QED
  BY <1>1, <1>3 DEF TreeInv

\* A walk that begins or goes on is where it may store something.
LEMMA SameRootsWalk ==
    ASSUME TreeInv, IndInv', UNCHANGED <<heap, used, document, value, returned, outcome>>,
           UNCHANGED <<currentTable, frames>>,
           isValueAssignment' => value # Null /\ frames # <<>> /\ top.kind = walk'.goal,
           outcome = "parsing" => walk'.at \in Reach(heap, {WalkRoot'}) \ Sealed
    PROVE  TreeInv'
<1>1. OpenNodes' = OpenNodes
  BY DEF OpenNodes
<1>2. Sealed' = Sealed
  BY <1>1, OpenAndSealed
<1>3. FramesFit'
  BY DEF TreeInv, FramesFit, top
<1>4. InPlace'
  BY <1>2 DEF TreeInv, InPlace
<1> QED
  BY <1>1, <1>3, <1>4, SameRoots

\* Headers walk from the root of the document.
LEMMA BeginHeaderTree ==
    ASSUME TreeInv, IndInv', NEW path \in Path, BeginTable(path) \/ BeginArrayOfTables(path)
    PROVE  TreeInv'
<1>1. /\ outcome = "parsing"
      /\ UNCHANGED <<heap, used, document, value, returned, outcome, currentTable, frames>>
      /\ walk'.at = document /\ walk'.goal \in {"table", "tableArray"}
  BY DEF BeginTable, BeginArrayOfTables, AtStatement, StartWalk
<1>2. document \in Node
  BY <1>1, NodeTyping DEF TreeInv, IndInv, TypeOK, SectionInv
<1>3. ~isValueAssignment' /\ WalkRoot' = document
  BY <1>1 DEF isValueAssignment, WalkRoot
<1>4. walk'.at \in Reach(heap, {WalkRoot'}) \ Sealed
  BY <1>1, <1>2, <1>3, LooseFacts, ReachIsLeast DEF TreeInv, InPlace
<1> QED
  BY <1>1, <1>3, <1>4, SameRootsWalk

\* An assignment puts the first frame on the stack.
LEMMA BeginAssignmentTree ==
    ASSUME TreeInv, IndInv', NEW path \in Path, BeginAssignment(path)
    PROVE  TreeInv'
<1>1. /\ UNCHANGED <<heap, used, document, value, returned, outcome, currentTable, walk>>
      /\ outcome = "parsing" /\ walk.goal = "none" /\ frames = <<>>
      /\ frames' = <<[kind |-> "assign", node |-> Null, keys |-> path]>>
  BY DEF BeginAssignment, AtStatement
<1>2. /\ DOMAIN frames' = {1} /\ frames' # <<>>
      /\ frames'[1].kind = "assign" /\ frames'[1].node = Null
  BY <1>1
<1>3. OpenNodes = {} /\ OpenNodes' = {}
  BY <1>1, <1>2 DEF OpenNodes
<1>4. Sealed' = Sealed
  BY <1>1, <1>3, OpenAndSealed
<1>5. FramesFit'
  BY <1>1, <1>2 DEF TreeInv, FramesFit, isValueAssignment
<1>6. InPlace'
  BY <1>1, <1>4 DEF TreeInv, InPlace
<1> QED
  BY <1>1, <1>3, <1>5, <1>6, SameRoots

\* The keys of an inline entry are noted in the top frame.
LEMMA BeginInlineEntryTree ==
    ASSUME TreeInv, IndInv', NEW path \in Path, BeginInlineEntry(path)
    PROVE  TreeInv'
<1>1. /\ UNCHANGED <<heap, used, document, value, returned, outcome, currentTable, walk>>
      /\ outcome = "parsing" /\ walk.goal = "none" /\ frames # <<>>
      /\ frames' = [frames EXCEPT ![Len(frames)].keys = path]
  BY DEF BeginInlineEntry, InValue
<1>2. /\ frames' # <<>> /\ DOMAIN frames' = DOMAIN frames
      /\ \A i \in DOMAIN frames : frames'[i].kind = frames[i].kind /\ frames'[i].node = frames[i].node
  BY <1>1, TopKeys, PathAssumption DEF TreeInv, IndInv
<1>3. OpenNodes' = OpenNodes
  BY <1>2 DEF OpenNodes
<1>4. Sealed' = Sealed
  BY <1>1, <1>3, OpenAndSealed
<1>5. FramesFit'
  BY <1>1, <1>2 DEF TreeInv, FramesFit, isValueAssignment
<1>6. InPlace'
  BY <1>1, <1>4 DEF TreeInv, InPlace
<1> QED
  BY <1>1, <1>3, <1>5, <1>6, SameRoots

\* The walk for an inline entry begins at the inline table that is being
\* filled: it is not complete.
LEMMA BeginInlineWalkTree ==
    ASSUME TreeInv, IndInv', BeginInlineWalk
    PROVE  TreeInv'
<1>1. /\ UNCHANGED <<heap, used, document, value, returned, outcome, currentTable, frames>>
      /\ outcome = "parsing" /\ frames # <<>> /\ value # Null /\ top.kind = "inline"
      /\ walk'.at = top.node /\ walk'.goal = "inline"
  BY DEF BeginInlineWalk, HasValue, InValue, StartWalk
<1>2. top.node \in OpenNodes
  BY <1>1, TopFrame DEF TreeInv, IndInv, ValueInv, OpenNodes
<1>3. WalkRoot' = top.node
  BY <1>1 DEF WalkRoot, top
<1>4. top.node \notin Sealed
  BY <1>2, OpenNotSealed
<1>5. top.node \in Reach(heap, {top.node})
  BY <1>2, LooseFacts, ReachIsLeast
<1> QED
  BY <1>1, <1>3, <1>4, <1>5, SameRootsWalk

\* The walk for an assignment begins at the current table.
LEMMA BeginAssignWalkTree ==
    ASSUME TreeInv, IndInv', BeginAssignWalk
    PROVE  TreeInv'
<1>1. /\ UNCHANGED <<heap, used, document, value, returned, outcome, currentTable, frames>>
      /\ outcome = "parsing" /\ frames # <<>> /\ value # Null /\ top.kind = "assign"
      /\ walk'.at = currentTable /\ walk'.goal = "assign"
  BY DEF BeginAssignWalk, HasValue, InValue, StartWalk
<1>2. WalkRoot' = document
  BY <1>1 DEF WalkRoot
<1> QED
  BY <1>1, <1>2, SameRootsWalk DEF TreeInv, InPlace

\* The child of a value that is not sealed is not sealed, unless it is complete itself.
LEMMA ChildNotSealed ==
    ASSUME TreeInv, NEW p \in Node, p \notin Sealed, NEW c \in Children(heap, p),
           heap[c].source # "Value"
    PROVE  c \notin Sealed
<1>1. heap \in Heap /\ OnePlace(heap) /\ Finished(heap, OpenNodes) \in SUBSET Node
  BY LooseFacts DEF TreeInv
<1>2. c \notin Finished(heap, OpenNodes)
  BY DEF Finished
<1> QED
  BY <1>1, <1>2, ChildUnreached, OpenAndSealed

\* A walk stands in the tree of one of the loose values of this parse.
LEMMA WalkFacts ==
    ASSUME TreeInv, Walking
    PROVE  /\ WalkRoot \in LiveRoots /\ WalkRoot \in Node
           /\ walk.at \in Reach(heap, {WalkRoot}) /\ walk.at \in Node /\ walk.at \notin Sealed
           /\ walk.goal = "inline" => WalkRoot = top.node /\ frames # <<>>
           /\ walk.goal # "inline" => WalkRoot = document
<1>1. outcome = "parsing" /\ walk.goal # "none" /\ IndInv
  BY DEF Walking, TreeInv
<1>2. walk.goal = "inline" => frames # <<>> /\ top.kind = "inline" /\ top.node \in OpenNodes
  <2>1. ASSUME walk.goal = "inline" PROVE frames # <<>> /\ top.kind = "inline"
    BY <2>1 DEF TreeInv, FramesFit, isValueAssignment
  <2> QED
    BY <1>1, <2>1, TopFrame DEF IndInv, ValueInv, OpenNodes
<1>3. document \in LiveRoots
  BY <1>1 DEF IndInv, SectionInv, LiveRoots
<1>4. WalkRoot \in LiveRoots
  BY <1>2, <1>3, OpenNotSealed DEF WalkRoot
<1>5. WalkRoot \in Node
  BY <1>4, LooseFacts
<1>6. walk.at \in Reach(heap, {WalkRoot}) /\ walk.at \notin Sealed
  BY <1>1 DEF TreeInv, InPlace
<1>7. walk.at \in Node
  BY <1>5, <1>6, LooseFacts, ReachIsLeast
<1> QED
  BY <1>2, <1>4, <1>5, <1>6, <1>7 DEF WalkRoot

\* A walk that goes on to a value stored below the one it stands at, or a
\* value below that, stays in its tree.
LEMMA WalkOn ==
    ASSUME TreeInv, Walking, IndInv',
           NEW n \in Node, n \in Reach(heap, {walk.at}), n \notin Sealed,
           StepTo(n), UNCHANGED <<heap, used, document, currentTable, frames, value,
                                  outcome, returned>>
    PROVE  TreeInv'
<1>1. walk'.goal = walk.goal /\ walk'.at = n
  BY DEF StepTo, TreeInv, IndInv, TypeOK, Walk
<1>2. WalkRoot' = WalkRoot /\ top' = top /\ (isValueAssignment' <=> isValueAssignment)
  BY <1>1 DEF WalkRoot, top, isValueAssignment
<1>3. n \in Reach(heap, {WalkRoot})
  BY WalkFacts, LooseFacts, ReachWithin
<1>4. isValueAssignment' => value # Null /\ frames # <<>> /\ top.kind = walk'.goal
  BY <1>1, <1>2 DEF TreeInv, FramesFit
<1> QED
  BY <1>1, <1>2, <1>3, <1>4, SameRootsWalk

\* The child a walk descends to.
LEMMA ChildFacts ==
    ASSUME TreeInv, Walking, walk.pos <= Len(walk.keys), child # Null
    PROVE  /\ child \in Node /\ child \in Children(heap, walk.at)
           /\ child \in Reach(heap, {walk.at})
           /\ heap[child].source # "Value" => child \notin Sealed
<1>1. key \in Key /\ walk.at \in Node /\ child = heap[walk.at].entries[key] /\ child \in Ref
  BY ChildType DEF TreeInv
<1>2. child \in Node /\ child \in Children(heap, walk.at)
  BY <1>1, NodeTyping DEF Children
<1>3. child \in Reach(heap, {walk.at})
  BY <1>1, <1>2, LooseFacts, ReachIsLeast
<1>4. heap[child].source # "Value" => child \notin Sealed
  BY <1>1, <1>2, WalkFacts, ChildNotSealed
<1> QED
  BY <1>2, <1>3, <1>4

\* Descending to a table keeps the walk in its tree.
LEMMA DescendToTableTree == ASSUME TreeInv, IndInv', DescendToTable PROVE TreeInv'
<1>1. /\ Walking /\ child # Null /\ heap[child].source # "Value" /\ StepTo(child)
      /\ UNCHANGED <<heap, used, document, currentTable, frames, value, outcome, returned>>
  BY DEF DescendToTable, Descending
<1>2. walk.pos <= Len(walk.keys)
  BY DEF DescendToTable, Descending, TreeInv, IndInv, TypeOK, Walk
<1> QED
  BY <1>1, <1>2, ChildFacts, WalkOn

\* An exception drops the document: what was under way is no longer looked at.
LEMMA ThrowTree ==
    ASSUME TreeInv, IndInv', NEW error, error # "parsing", Throw(error)
    PROVE  TreeInv'
<1>1. /\ UNCHANGED <<heap, used, currentTable, returned>>
      /\ document' = Null /\ frames' = <<>> /\ value' = Null /\ walk' = NoWalk
      /\ outcome' = error
  BY DEF Throw
<1>2. OpenNodes' = {} /\ LiveRoots' = {} /\ LooseValues' = returned
  BY <1>1 DEF OpenNodes, LiveRoots, LooseValues
<1>3. OnePlace(heap') /\ NoCycle(heap') /\ HeaderItems(heap')
  BY <1>1 DEF TreeInv
<1>4. FramesFit'
  BY <1>1 DEF FramesFit, isValueAssignment, NoWalk
<1>5. RootsApart'
  <2>1. Null \notin returned
    BY DEF TreeInv, RootsApart, Null
  <2> QED
    BY <1>1, <1>2, <2>1 DEF TreeInv, RootsApart
<1>6. Loose'
  BY <1>1, <1>2 DEF TreeInv, Loose, LooseValues
<1>7. InPlace' /\ Held'
  BY <1>1 DEF InPlace, Held
<1> QED
  BY <1>3, <1>4, <1>5, <1>6, <1>7 DEF TreeInv

\* So does a conflict.
LEMMA ConflictTree == ASSUME TreeInv, IndInv', Conflict PROVE TreeInv'
  BY ThrowTree DEF Conflict

\* Descending to the last table of an array of tables keeps the walk in its tree.
LEMMA DescendIntoArrayTree == ASSUME TreeInv, IndInv', DescendIntoArray PROVE TreeInv'
<1>1. /\ Walking /\ child # Null /\ heap[child].source # "Value" /\ isArray(heap, child)
      /\ walk.pos <= Len(walk.keys)
  BY DEF DescendIntoArray, Descending, TreeInv, IndInv, TypeOK, Walk
<1>2. size(heap, child) # 0 /\ lastItem \in Node /\ isTable(heap, lastItem)
  BY <1>1, LastItem DEF TreeInv
<1>3. /\ StepTo(lastItem)
      /\ UNCHANGED <<heap, used, document, currentTable, frames, value, outcome, returned>>
  BY <1>2 DEF DescendIntoArray
<1>4. \E i \in DOMAIN heap[child].items : lastItem = heap[child].items[i]
  <2>1. child \in Node
    BY <1>1, ChildFacts
  <2>2. lastItem = valueAt(heap, child, size(heap, child) - 1) /\ lastItem # Null
    BY <1>2, NodeTyping DEF lastItem
  <2>3. size(heap, child) = Len(heap[child].items)
    BY <1>1 DEF size, isArray, isTable
  <2>4. heap[child].items \in Seq(Node) /\ Len(heap[child].items) \in Nat
    BY <2>1, LooseFacts, HeapTyping
  <2>5. /\ Len(heap[child].items) - 1 < Len(heap[child].items)
        /\ (Len(heap[child].items) - 1) + 1 = Len(heap[child].items)
        /\ Len(heap[child].items) # 0 => Len(heap[child].items) \in DOMAIN heap[child].items
    BY <2>4
  <2>6. lastItem = heap[child].items[Len(heap[child].items)]
    BY <1>1, <2>2, <2>3, <2>5 DEF valueAt
  <2> QED
    BY <1>2, <2>3, <2>5, <2>6
<1>5. lastItem \in Children(heap, child) /\ heap[lastItem].source # "Value"
  <2>1. child \in Node
    BY <1>1, ChildFacts
  <2> QED
    BY <1>1, <1>2, <1>4, <2>1, NodeTyping DEF Children, TreeInv, HeaderItems
<1>6. child \in Node /\ child \in Reach(heap, {walk.at}) /\ child \notin Sealed
  BY <1>1, ChildFacts
<1>7. lastItem \notin Sealed
  BY <1>5, <1>6, ChildNotSealed
<1>8. lastItem \in Reach(heap, {walk.at})
  BY <1>1, <1>5, <1>6, WalkFacts, LooseFacts, ReachIsLeast
<1> QED
  BY <1>1, <1>2, <1>3, <1>7, <1>8, WalkOn

\* The document that is returned stays loose, but it is no longer live.
LEMMA EndOfDocumentTree == ASSUME TreeInv, IndInv', EndOfDocument PROVE TreeInv'
<1>1. /\ UNCHANGED <<heap, used, currentTable, frames, value, walk>>
      /\ outcome = "parsing" /\ frames = <<>> /\ walk.goal = "none"
      /\ returned' = returned \cup {document} /\ document' = Null /\ outcome' = "ok"
  BY DEF EndOfDocument, AtStatement
<1>2. value = Null /\ document \in Node /\ document <= used /\ OpenNodes = {} /\ OpenNodes' = {}
  BY <1>1, NodeTyping DEF TreeInv, FramesFit, IndInv, TypeOK, SectionInv, OpenNodes
<1>3. LooseValues' = LooseValues
  BY <1>1, <1>2, NodeTyping DEF LooseValues, LiveRoots
<1>4. OnePlace(heap') /\ NoCycle(heap') /\ HeaderItems(heap')
  BY <1>1 DEF TreeInv
<1>5. FramesFit'
  BY <1>1, <1>2 DEF FramesFit, isValueAssignment
<1>6. RootsApart'
  <2>1. document \in 1..used /\ Null \notin returned'
    BY <1>1, <1>2, NodeTyping, LooseFacts DEF Node, Null, TreeInv, RootsApart
  <2> QED
    BY <1>1, <1>2, <2>1 DEF TreeInv, RootsApart
<1>7. Loose'
  BY <1>1, <1>3 DEF TreeInv, Loose
<1>8. InPlace' /\ Held'
  BY <1>1 DEF InPlace, Held
<1> QED
  BY <1>4, <1>5, <1>6, <1>7, <1>8 DEF TreeInv

\* An array or inline table that ends becomes the value: it is sealed now,
\* and everything below it, but nothing of the document is below it.
LEMMA CloseValueTree == ASSUME TreeInv, IndInv', CloseValue PROVE TreeInv'
<1> DEFINE n == top.node
<1>1. /\ UNCHANGED <<heap, used, document, currentTable, walk, outcome, returned>>
      /\ outcome = "parsing" /\ walk.goal = "none" /\ frames # <<>> /\ value = Null
      /\ top.kind \in {"array", "inline"} /\ value' = n /\ frames' = Pop
  BY DEF CloseValue, InValue
<1>2. n \in OpenNodes /\ n # Null
  BY <1>1, TopFrame DEF TreeInv, IndInv, ValueInv, OpenNodes
<1>3. /\ n \in Node /\ n \in LooseValues /\ Places(heap, n) = {}
      /\ heap[n].source = "Value" /\ heap[n].type # "Free" /\ n <= used
  BY <1>2, OpenNotSealed, LooseFacts, NodeTyping DEF CellsInUse
<1>4. OpenNodes' = OpenNodes \ {n}
  BY <1>1, NodesOfPop, OpenAndSealed DEF TreeInv, IndInv, FramesFit
<1> HIDE DEF n
<1>5. LiveRoots' = LiveRoots /\ LooseValues' = LooseValues
  BY <1>1, <1>2, <1>4 DEF LiveRoots, LooseValues, OpenNodes
<1>6. OnePlace(heap') /\ NoCycle(heap') /\ HeaderItems(heap') /\ Loose' /\ Held'
  BY <1>1, <1>5 DEF TreeInv, Loose, Held
<1>7. FramesFit'
  <2>1. /\ Len(frames) \in DOMAIN frames /\ Len(frames) # 1 /\ DOMAIN frames = 1..Len(frames)
        /\ Len(frames) \in Nat
    BY <1>1, TopFrame DEF TreeInv, IndInv, TypeOK, FramesFit
  <2>2. Pop # <<>> /\ 1 \in DOMAIN Pop /\ \A i \in DOMAIN Pop : i \in DOMAIN frames /\ Pop[i] = frames[i]
    <3>1. TypeOK /\ frames \in Seq(Frame)
      BY DEF TreeInv, IndInv, TypeOK
    <3>2. DOMAIN Pop = 1..(Len(frames) - 1)
      BY <2>1, <3>1 DEF Pop
    <3>3. 1 \in DOMAIN Pop
      BY <2>1, <3>2
    <3> QED
      BY <3>1, <3>3, PopFrames
  <2>3. \A i \in DOMAIN frames' :
           /\ frames'[i].kind = "assign" <=> i = 1
           /\ frames'[i].node = Null <=> i = 1
    BY <1>1, <2>2 DEF TreeInv, FramesFit
  <2>4. \A i, j \in DOMAIN frames' :
           frames'[i].node = frames'[j].node /\ frames'[i].node # Null => i = j
    BY <1>1, <2>2 DEF TreeInv, FramesFit
  <2>5. ~isValueAssignment' /\ frames' # <<>> /\ outcome' = "parsing"
    BY <1>1, <2>2 DEF isValueAssignment
  <2> QED
    BY <2>3, <2>4, <2>5 DEF FramesFit
<1>8. RootsApart'
  BY <1>1, <1>2, <1>4 DEF TreeInv, RootsApart
<1>9. InPlace'
  <2>1. heap \in Heap /\ OnePlace(heap) /\ document \in Node /\ {n} \in SUBSET Node
        /\ Finished(heap, OpenNodes) \in SUBSET Node
    BY <1>1, <1>3, LooseFacts, NodeTyping DEF TreeInv, IndInv, TypeOK, SectionInv
  <2>2. Finished(heap', OpenNodes') = Finished(heap, OpenNodes) \cup {n}
    BY <1>1, <1>2, <1>3, <1>4 DEF Finished
  <2>3. Sealed' = Sealed \cup Reach(heap, {n})
    BY <1>1, <2>1, <2>2, ReachJoin, OpenAndSealed
  <2>4. document # n /\ Places(heap, document) = {}
    BY <1>1, <1>2, <2>1, NodeTyping, LooseFacts DEF TreeInv, RootsApart, LooseValues, LiveRoots
  <2>5. Reach(heap, {document}) \cap Reach(heap, {n}) = {}
    <3>1. {document} \in SUBSET Node /\ {document} \cap {n} = {}
      BY <2>1, <2>4
    <3>2. \A r \in {document} \cup {n} : Places(heap, r) = {}
      BY <1>3, <2>4
    <3> QED
      BY <2>1, <3>1, <3>2, TreesApart
  <2>6. document \in Reach(heap, {document})
    BY <2>1, ReachIsLeast
  <2> QED
    BY <1>1, <2>3, <2>5, <2>6 DEF TreeInv, InPlace
<1> QED
  BY <1>6, <1>7, <1>8, <1>9 DEF TreeInv

----------------------------------------------------------------------------
\* The actions that create a value.

\* In the heap g a new value m is stored in the tree of r: the values in L are
\* as loose as before, and from F one reaches what one reached before.
Extended(h, g, m, r, L, F) ==
    /\ g \in Heap /\ OnePlace(g) /\ NoCycle(g)
    /\ \A q \in L : Places(g, q) = {}
    /\ \A S \in SUBSET Node : Reach(h, S) \subseteq Reach(g, S)
    /\ Reach(g, F) = Reach(h, F)
    /\ m \in Reach(g, {r}) \ Reach(g, F)

\* A cell that is filled and then stored in the tree of the loose value r.
LEMMA StoreNew ==
    ASSUME NEW h \in Heap, NEW u, CellsInUse(h, u), OnePlace(h), NoCycle(h),
           NEW L, LooseIn(h, u, L), NEW F \in SUBSET Node, \A n \in F : n <= u,
           NEW f, NEW cell, Filled(h, u, cell, f),
           NEW r \in L, NEW p \in Reach(h, {r}), p \notin Reach(h, F),
           NEW g \in Heap, NEW x, NEW m, m = u + 1, Attached(f, g, p, x, m)
    PROVE  Extended(h, g, m, r, L, F)
<1>0. f \in Heap /\ u \in Nat /\ L \in SUBSET Node /\ r \in Node
  BY MaxNodesAssumption DEF Filled, LooseIn
<1>1. /\ m \in Node /\ m \notin L /\ OnePlace(f) /\ NoCycle(f)
      /\ \A q \in L \cup {m} : Places(f, q) = {}
      /\ \A S \in SUBSET Node : Reach(f, S) = Reach(h, S)
  <2>1. /\ m \in Node /\ m \notin L /\ SameShape(h, f) /\ OnePlace(f) /\ NoCycle(f)
        /\ HeaderItems(h) => HeaderItems(f)
        /\ \A q \in L \cup {m} : Places(f, q) = {}
        /\ \A S \in SUBSET Node : Reach(f, S) = Reach(h, S)
        /\ Reach(f, {m}) = {m}
    BY ONLY h \in Heap, CellsInUse(h, u), OnePlace(h), NoCycle(h), LooseIn(h, u, L),
            Filled(h, u, cell, f), m = u + 1, FreshIsLoose
  <2> QED
    BY <2>1
<1>2. /\ {r} \in SUBSET Node /\ L \cup {m} \in SUBSET Node /\ r # m
      /\ p \in Reach(f, {r}) /\ p \notin Reach(f, F)
  BY <1>0, <1>1
<1> DEFINE K == L \cup {m}
<1>3. /\ OnePlace(g) /\ NoCycle(g)
      /\ \A q \in K \ {m} : Places(g, q) = {}
      /\ \A S \in SUBSET Node : Reach(f, S) \subseteq Reach(g, S)
      /\ \A S \in SUBSET Node : p \notin Reach(f, S) => Reach(g, S) = Reach(f, S)
      /\ \A S \in SUBSET Node : r \in S => Reach(f, S \cup {m}) \subseteq Reach(g, S)
  <2>1. m \in K /\ r \in K /\ AllLoose(f, K)
    BY <1>1, <1>2 DEF AllLoose
  <2> HIDE DEF K
  <2> QED
    BY ONLY g \in Heap, <1>0, <1>1, <1>2, <2>1, Attached(f, g, p, x, m), StoreLoose
<1>4. \A q \in L : Places(g, q) = {}
  BY <1>1, <1>3
<1>5. \A S \in SUBSET Node : Reach(h, S) \subseteq Reach(g, S)
  BY <1>1, <1>3
<1>6. Reach(g, F) = Reach(f, F) /\ Reach(f, F) = Reach(h, F)
  BY <1>1, <1>2, <1>3
<1>7. m \notin Reach(f, F)
  <2>1. m \notin F
    BY <1>0
  <2> QED
    BY <1>0, <1>1, <2>1, LooseUnreached
<1>8. m \in Reach(g, {r})
  <2>1. Reach(f, {r} \cup {m}) \subseteq Reach(g, {r})
    BY <1>2, <1>3
  <2>2. {r} \cup {m} \in SUBSET Node
    BY <1>1, <1>2
  <2>3. m \in Reach(f, {r} \cup {m})
    BY <1>0, <2>2, ReachIsLeast
  <2> QED
    BY <2>1, <2>3
<1> QED
  BY <1>3, <1>4, <1>5, <1>6, <1>7, <1>8 DEF Extended

\* A step that extends the tree of a live root by the values in M, and leaves
\* the stack alone: the current table and the walk may move, within their tree.
LEMMA TreeGrown ==
    ASSUME TreeInv, IndInv', outcome = "parsing", used <= used',
           UNCHANGED <<document, frames, value, outcome, returned>>,
           NEW M, \A n \in document..used' : n \in document..used \/ n \in M,
           NEW r \in LiveRoots, M \subseteq Reach(heap', {r}),
           OnePlace(heap'), NoCycle(heap'), HeaderItems(heap'),
           \A q \in LooseValues : Places(heap', q) = {},
           \A S \in SUBSET Node : Reach(heap, S) \subseteq Reach(heap', S),
           Finished(heap', OpenNodes) = Finished(heap, OpenNodes),
           Reach(heap', Finished(heap, OpenNodes)) = Sealed,
           currentTable' # currentTable => currentTable' \in Reach(heap', {document}) \ Sealed,
           walk'.goal # "none" => /\ walk'.goal = walk.goal
                                  /\ walk'.at \in Reach(heap', {WalkRoot}) \ Sealed
    PROVE  TreeInv'
<1>1. OpenNodes' = OpenNodes /\ LiveRoots' = LiveRoots /\ LooseValues' = LooseValues /\ top' = top
  BY DEF OpenNodes, LiveRoots, LooseValues, top
<1>2. Sealed' = Sealed
  BY <1>1, OpenAndSealed
<1>3. heap' \in Heap /\ used' \in 0..MaxNodes /\ used \in 0..MaxNodes
      /\ document \in Node /\ LiveRoots \in SUBSET Node
  BY LooseFacts, NodeTyping DEF IndInv, TypeOK, TreeInv, SectionInv
<1>4. FramesFit'
  BY <1>1 DEF TreeInv, FramesFit, isValueAssignment
<1>5. RootsApart'
  <2>1. \A n \in 1..used : n \in 1..used'
    BY <1>3, MaxNodesAssumption
  <2> QED
    BY <1>1, <2>1 DEF TreeInv, RootsApart
<1>6. Loose'
  BY <1>1 DEF Loose
<1>7. InPlace'
  <2>1. document \notin Sealed /\ currentTable \in Reach(heap, {document}) \ Sealed
    BY DEF TreeInv, InPlace
  <2>2. {document} \in SUBSET Node
    BY <1>3
  <2>3. currentTable' \in Reach(heap', {document}) \ Sealed
    BY <2>1, <2>2
  <2>4. walk'.goal # "none" => WalkRoot' = WalkRoot
    BY <1>1 DEF WalkRoot
  <2> QED
    BY <1>2, <2>1, <2>3, <2>4 DEF InPlace
<1>8. Held'
  <2>1. \A n \in document..used : n \in Reach(heap', LiveRoots)
    BY <1>3 DEF TreeInv, Held
  <2>2. {r} \in SUBSET Node /\ {r} \subseteq Reach(heap', LiveRoots)
    BY <1>3, ReachIsLeast
  <2>3. Reach(heap', {r}) \subseteq Reach(heap', LiveRoots)
    BY <1>3, <2>2, ReachWithin
  <2>4. \A n \in document..used' : n \in Reach(heap', LiveRoots)
    BY <2>1, <2>3
  <2> QED
    BY <1>1, <2>4 DEF Held
<1> QED
  BY <1>4, <1>5, <1>6, <1>7, <1>8 DEF TreeInv

\* A new table or array of tables stored under the key the walk stands at.
LEMMA EntryGrown ==
    ASSUME TreeInv, Walking, walk.pos <= Len(walk.keys), child = Null, used < MaxNodes,
           NEW cell, Blank(cell), cell.source # "Value",
           NEW g, g = setValue(Create(cell), walk.at, key, new)
    PROVE  /\ new = used + 1 /\ new \in Node
           /\ Extended(heap, g, new, WalkRoot, LooseValues, Finished(heap, OpenNodes))
           /\ CellsInUse(g, new)
           /\ HeaderItems(g)
           /\ Finished(g, OpenNodes) = Finished(heap, OpenNodes)
           /\ g[new].items = <<>> /\ g[new].type = cell.type /\ g[new].source = cell.source
<1> DEFINE f == Create(cell)
           F == Finished(heap, OpenNodes)
           at == walk.at
<1>0. IndInv
  BY DEF TreeInv
<1>1. /\ new = used + 1 /\ new \in Node /\ f \in Heap
      /\ f[new] = cell /\ \A n \in Node : n # new => f[n] = heap[n]
      /\ HeaderItems(f) /\ Finished(f, OpenNodes) = F
  <2> HIDE DEF F
  <2>1. f = Create(cell)
    OBVIOUS
  <2> HIDE DEF f
  <2>2. /\ new = used + 1 /\ new \in Node /\ f \in Heap
        /\ f[new] = cell /\ \A n \in Node : n # new => f[n] = heap[n]
        /\ HeaderItems(f) /\ \A open : Finished(f, open) = Finished(heap, open)
    BY ONLY TreeInv, used < MaxNodes, Blank(cell), cell.source # "Value", <2>1, NewIsLoose
  <2> QED
    BY <2>2 DEF F
<1>2. CellsInUse(f, new) /\ new \in 0..MaxNodes
  BY <1>0, CreateHeap
<1>3. /\ key \in Key /\ at \in Node /\ at <= used /\ isTable(heap, at)
      /\ heap[at].entries[key] = Null
  BY <1>0, ChildType
<1>4. /\ heap \in Heap /\ used \in 0..MaxNodes /\ used \in Nat /\ CellsInUse(heap, used)
      /\ OnePlace(heap) /\ NoCycle(heap) /\ LooseIn(heap, used, LooseValues)
      /\ F \in SUBSET Node /\ \A n \in F : n <= used
  BY LooseFacts, MaxNodesAssumption DEF TreeInv, LooseIn
<1>5. /\ WalkRoot \in LooseValues /\ at \in Reach(heap, {WalkRoot}) /\ at \notin Reach(heap, F)
  BY WalkFacts, LooseFacts, OpenAndSealed
<1>6. g = setValue(f, at, key, new)
  OBVIOUS
<1> HIDE DEF f, F, at
<1>7. at # new /\ at <= new /\ new \in Ref /\ new <= new
  BY <1>1, <1>3, <1>4, NodeTyping
<1>8. f[at] = heap[at] /\ isTable(f, at)
  BY <1>1, <1>3, <1>7 DEF isTable
<1>9. EntrySet(f, g, at, key, new)
  BY <1>1, <1>3, <1>6, <1>7, <1>8, SetValueFields
<1>10. g \in Heap /\ Attached(f, g, at, key, new)
  BY <1>1, <1>3, <1>8, <1>9, EntryAttached DEF EntrySet
<1>11. Filled(heap, used, cell, f)
  BY <1>1, <1>4 DEF Filled
<1>12. Extended(heap, g, new, WalkRoot, LooseValues, F)
  BY ONLY <1>1, <1>4, <1>5, <1>10, <1>11, StoreNew
<1>13. CellsInUse(g, new)
  BY <1>1, <1>2, <1>3, <1>7, <1>9, SetCells
<1>14. HeaderItems(g)
  BY <1>1, <1>9, HeaderItemsKept
<1>15. Finished(g, OpenNodes) = F
  <2>1. \A n \in Node : g[n].type = f[n].type /\ g[n].source = f[n].source
    BY <1>9 DEF EntrySet
  <2>2. Finished(g, OpenNodes) = Finished(f, OpenNodes)
    BY <2>1, FinishedKept
  <2> QED
    BY <1>1, <2>2
<1>16. g[new].items = <<>> /\ g[new].type = cell.type /\ g[new].source = cell.source
  BY <1>1, <1>9 DEF EntrySet, Blank
<1> QED
  BY <1>1, <1>12, <1>13, <1>14, <1>15, <1>16 DEF F

\* What EntryGrown says of the state after the step.
LEMMA EntryStep ==
    ASSUME TreeInv, IndInv', Walking, walk.pos <= Len(walk.keys), child = Null, used < MaxNodes,
           NEW source, source \in Source, source # "Value",
           heap' = setValue(Create(NewTable(source)), walk.at, key, new), used' = new,
           UNCHANGED <<document, frames, value, outcome, returned>>,
           currentTable' = currentTable \/ (currentTable' = new /\ WalkRoot = document),
           walk'.goal # "none" => walk'.goal = walk.goal /\ walk'.at = new
    PROVE  TreeInv'
<1>1. Blank(NewTable(source)) /\ NewTable(source).source # "Value"
  BY BlankCells
<1>2. /\ new = used + 1 /\ new \in Node
      /\ Extended(heap, heap', new, WalkRoot, LooseValues, Finished(heap, OpenNodes))
      /\ HeaderItems(heap')
      /\ Finished(heap', OpenNodes) = Finished(heap, OpenNodes)
  BY <1>1, EntryGrown
<1>3. WalkRoot \in LiveRoots /\ outcome = "parsing"
  BY WalkFacts DEF Walking
<1>4. /\ OnePlace(heap') /\ NoCycle(heap')
      /\ \A q \in LooseValues : Places(heap', q) = {}
      /\ \A S \in SUBSET Node : Reach(heap, S) \subseteq Reach(heap', S)
      /\ Reach(heap', Finished(heap, OpenNodes)) = Sealed
      /\ new \in Reach(heap', {WalkRoot}) \ Sealed
  BY <1>2, OpenAndSealed DEF Extended
<1>5. used <= used' /\ \A n \in document..used' : n \in document..used \/ n \in {new}
  <2>1. used \in Nat /\ document \in Nat
    BY LooseFacts, NodeTyping DEF TreeInv, IndInv, TypeOK
  <2> QED
    BY <1>2, <2>1
<1>6. {new} \subseteq Reach(heap', {WalkRoot})
  BY <1>4
<1>7. /\ currentTable' # currentTable => currentTable' \in Reach(heap', {document}) \ Sealed
      /\ walk'.goal # "none" => /\ walk'.goal = walk.goal
                                /\ walk'.at \in Reach(heap', {WalkRoot}) \ Sealed
  BY <1>4
<1> QED
  BY ONLY TreeInv, IndInv', UNCHANGED <<document, frames, value, outcome, returned>>,
          <1>2, <1>3, <1>4, <1>5, <1>6, <1>7, TreeGrown

\* A table that is missing on the way.
LEMMA DescendToNewTableTree == ASSUME TreeInv, IndInv', DescendToNewTable PROVE TreeInv'
<1>1. /\ Walking /\ child = Null /\ used < MaxNodes /\ used' = new /\ StepTo(new)
      /\ UNCHANGED <<document, frames, value, outcome, returned>> /\ currentTable' = currentTable
  BY DEF DescendToNewTable, Descending
<1>2. PICK source \in Source :
         source # "Value" /\ heap' = setValue(Create(NewTable(source)), walk.at, key, new)
  BY DEF DescendToNewTable, Source
<1>3. walk.pos <= Len(walk.keys)
  BY DEF DescendToNewTable, Descending, TreeInv, IndInv, TypeOK, Walk
<1>4. walk'.goal = walk.goal /\ walk'.at = new
  <2>1. walk \in Walk /\ walk' = [walk EXCEPT !.at = new, !.pos = @ + 1]
    BY <1>1 DEF StepTo, TreeInv, IndInv, TypeOK
  <2> QED
    BY ONLY <2>1 DEF Walk
<1>5. currentTable' = currentTable \/ (currentTable' = new /\ WalkRoot = document)
  BY <1>1
<1>6. UNCHANGED <<document, frames, value, outcome, returned>>
  BY <1>1
<1>7. Walking /\ child = Null /\ used < MaxNodes /\ used' = new
  BY <1>1
<1> QED
  BY ONLY TreeInv, IndInv', <1>2, <1>3, <1>4, <1>5, <1>6, <1>7, EntryStep

\* A header that creates its table makes it current.
LEMMA CreateNewTableTree == ASSUME TreeInv, IndInv', CreateNewTable PROVE TreeInv'
<1>1. /\ Walking /\ walk.goal = "table" /\ child = Null /\ used < MaxNodes
      /\ heap' = setValue(Create(NewTable("ExplicitTable")), walk.at, key, new) /\ used' = new
      /\ UNCHANGED <<document, frames, value, outcome, returned>>
      /\ currentTable' = new /\ walk' = NoWalk
  BY DEF CreateNewTable, Binding, EnterSection
<1>2. walk.pos <= Len(walk.keys)
  BY DEF CreateNewTable, Binding, TreeInv, IndInv, TypeOK, Walk
<1>3. WalkRoot = document /\ walk'.goal = "none"
  BY <1>1 DEF WalkRoot, NoWalk
<1>4. "ExplicitTable" \in Source
  BY DEF Source
<1> QED
  BY ONLY TreeInv, IndInv', <1>1, <1>2, <1>3, <1>4, "ExplicitTable" # "Value", EntryStep

\* An implied table that a header makes explicit: no pointer changes.
LEMMA CreateImpliedTableTree == ASSUME TreeInv, IndInv', CreateImpliedTable PROVE TreeInv'
<1> DEFINE h == makeExplicit(heap, child)
           at == walk.at
<1>1. /\ Walking /\ walk.goal = "table" /\ child # Null /\ isTable(heap, child)
      /\ heap[child].source # "Value"
      /\ heap' = setValue(h, at, key, child)
      /\ UNCHANGED <<used, document, frames, value, outcome, returned>>
      /\ currentTable' = child /\ walk' = NoWalk
  BY DEF CreateImpliedTable, Binding, EnterSection
<1>2. walk.pos <= Len(walk.keys) /\ IndInv
  BY DEF CreateImpliedTable, Binding, TreeInv, IndInv, TypeOK, Walk
<1>3. /\ child \in Node /\ child \in Reach(heap, {at}) /\ child \notin Sealed
      /\ key \in Key /\ at \in Node /\ isTable(heap, at) /\ child = heap[at].entries[key]
  BY <1>1, <1>2, ChildFacts, ChildType
<1>4. WalkRoot = document /\ outcome = "parsing" /\ at \in Reach(heap, {document}) /\ document \in Node
      /\ document \in LiveRoots
  BY <1>1, WalkFacts DEF Walking
<1>5. /\ heap \in Heap /\ used \in 0..MaxNodes /\ OnePlace(heap) /\ NoCycle(heap) /\ HeaderItems(heap)
      /\ Finished(heap, OpenNodes) \in SUBSET Node
      /\ \A q \in LooseValues : q \in Node /\ Places(heap, q) = {}
  BY LooseFacts DEF TreeInv
<1>6. MadeExplicit(heap, h, child) /\ h \in Heap
  BY <1>3, <1>5, MakeExplicitFields DEF MadeExplicit
<1> HIDE DEF h, at
<1>7. EntrySet(h, heap', at, key, child) /\ heap' \in Heap
  <2>1. isTable(h, at) /\ child \in Ref
    BY <1>3, <1>6, NodeTyping DEF MadeExplicit, isTable
  <2> QED
    BY <1>1, <1>3, <1>6, <2>1, SetValueFields DEF EntrySet
<1>8. \A n \in Node : /\ heap'[n].items = heap[n].items
                      /\ \A k \in Key : heap'[n].entries[k] = heap[n].entries[k]
                      /\ heap'[n].type = heap[n].type
                      /\ heap'[n].source = "Value" <=> heap[n].source = "Value"
  <2>1. \A n \in Node : h[n].source = "Value" <=> heap[n].source = "Value"
    BY <1>5, <1>6, ExplicitSource
  <2> QED
    BY <1>3, <1>6, <1>7, <2>1 DEF MadeExplicit, EntrySet
<1>9. SameShape(heap, heap')
  BY <1>8 DEF SameShape, Children, Places
<1>10. \A S \in SUBSET Node : Reach(heap', S) = Reach(heap, S)
  BY <1>5, <1>7, <1>9, SameReach
<1>11. OnePlace(heap') /\ NoCycle(heap')
  BY <1>5, <1>7, <1>9, SameTree
<1>12. HeaderItems(heap')
  <2>1. HeaderItems(h)
    BY <1>5, <1>6, HeaderItemsKept
  <2> QED
    BY <1>6, <1>7, <2>1, HeaderItemsKept
<1>13. /\ Finished(heap', OpenNodes) = Finished(heap, OpenNodes)
       /\ Reach(heap', Finished(heap, OpenNodes)) = Sealed
       /\ \A q \in LooseValues : Places(heap', q) = {}
  BY <1>5, <1>8, <1>9, <1>10, FinishedKept, OpenAndSealed DEF SameShape
<1>14. child \in Reach(heap', {document}) \ Sealed
  <2>1. {at} \in SUBSET Node /\ {document} \in SUBSET Node /\ {at} \subseteq Reach(heap, {document})
    BY <1>3, <1>4
  <2>2. Reach(heap, {at}) \subseteq Reach(heap, {document})
    BY <1>5, <2>1, ReachWithin
  <2> QED
    BY <1>3, <1>10, <2>1, <2>2 DEF at
<1>15. /\ used <= used' /\ \A n \in document..used' : n \in document..used \/ n \in {}
       /\ {} \subseteq Reach(heap', {document}) /\ walk'.goal = "none"
       /\ \A S \in SUBSET Node : Reach(heap, S) \subseteq Reach(heap', S)
  BY <1>1, <1>5, <1>10 DEF NoWalk
<1>16. UNCHANGED <<document, frames, value, outcome, returned>> /\ currentTable' = child
  BY <1>1
<1> QED
  BY ONLY TreeInv, IndInv', <1>4, <1>11, <1>12, <1>13, <1>14, <1>15, <1>16, TreeGrown

\* A further element of an array of tables.
LEMMA ExtendArrayOfTablesTree == ASSUME TreeInv, IndInv', ExtendArrayOfTables PROVE TreeInv'
<1> DEFINE cell == NewTable("ExplicitTable")
           f == Create(cell)
           F == Finished(heap, OpenNodes)
<1>1. /\ Walking /\ walk.goal = "tableArray" /\ child # Null /\ used < MaxNodes
      /\ isArray(heap, child) /\ heap[child].source # "Value"
      /\ heap' = addValue(f, child, new) /\ used' = new
      /\ UNCHANGED <<document, frames, value, outcome, returned>>
      /\ currentTable' = new /\ walk' = NoWalk
  BY DEF ExtendArrayOfTables, Binding, EnterSection
<1>2. walk.pos <= Len(walk.keys) /\ IndInv
  BY DEF ExtendArrayOfTables, Binding, TreeInv, IndInv, TypeOK, Walk
<1>3. child \in Node /\ child \in Reach(heap, {walk.at}) /\ child \notin Sealed /\ child <= used
  BY <1>1, <1>2, ChildFacts, ChildType
<1>4. /\ WalkRoot = document /\ outcome = "parsing" /\ document \in Node /\ document \in LiveRoots
      /\ walk.at \in Node /\ walk.at \in Reach(heap, {document})
  BY <1>1, WalkFacts DEF Walking
<1>5. /\ heap \in Heap /\ used \in 0..MaxNodes /\ used \in Nat /\ CellsInUse(heap, used)
      /\ OnePlace(heap) /\ NoCycle(heap) /\ LooseIn(heap, used, LooseValues)
      /\ F \in SUBSET Node /\ \A n \in F : n <= used
      /\ LiveRoots \subseteq LooseValues
  BY LooseFacts, MaxNodesAssumption DEF TreeInv, LooseIn
<1>6. Blank(cell) /\ cell.type = "Table" /\ cell.source = "ExplicitTable"
  BY BlankCells DEF Source
<1>7. child \in Reach(heap, {document}) /\ child \notin Reach(heap, F)
  <2>1. {walk.at} \in SUBSET Node /\ {document} \in SUBSET Node
        /\ {walk.at} \subseteq Reach(heap, {document})
    BY <1>4
  <2>2. Reach(heap, {walk.at}) \subseteq Reach(heap, {document})
    BY <1>5, <2>1, ReachWithin
  <2> QED
    BY <1>3, <2>2, OpenAndSealed
<1> HIDE DEF cell
<1>8. /\ new = used + 1 /\ new \in Node /\ f \in Heap
      /\ f[new] = cell /\ \A n \in Node : n # new => f[n] = heap[n]
      /\ HeaderItems(f) /\ Finished(f, OpenNodes) = F
  <2> HIDE DEF F
  <2>1. f = Create(cell) /\ cell.source # "Value"
    BY <1>6
  <2> HIDE DEF f
  <2>2. /\ new = used + 1 /\ new \in Node /\ f \in Heap
        /\ f[new] = cell /\ \A n \in Node : n # new => f[n] = heap[n]
        /\ HeaderItems(f) /\ \A open : Finished(f, open) = Finished(heap, open)
    BY ONLY TreeInv, <1>1, <1>6, <2>1, NewIsLoose
  <2> QED
    BY <2>2 DEF F
<1> HIDE DEF f, F
<1>9. /\ child # new /\ f[child] = heap[child] /\ isArray(f, child) /\ isTable(f, new)
      /\ f[child].source # "Value" /\ f[new].source = "ExplicitTable"
  <2>1. child # new
    BY <1>3, <1>5, <1>8, NodeTyping
  <2>2. f[child] = heap[child]
    BY <1>3, <1>8, <2>1
  <2> QED
    BY <1>1, <1>6, <1>8, <2>1, <2>2 DEF isArray, isTable
<1>10. ItemAdded(f, heap', child, new)
  BY <1>1, <1>3, <1>8, <1>9, AddValueFields
<1>11. heap' \in Heap /\ Attached(f, heap', child, Len(f[child].items) + 1, new)
  BY <1>3, <1>8, <1>10, ItemAttached DEF ItemAdded
<1>12. Extended(heap, heap', new, document, LooseValues, F)
  <2>1. Filled(heap, used, cell, f) /\ document \in LooseValues
    BY <1>1, <1>4, <1>5, <1>6, <1>8 DEF Filled
  <2> QED
    BY ONLY <1>5, <1>7, <1>8, <1>11, <2>1, StoreNew
<1>13. HeaderItems(heap')
  BY <1>3, <1>8, <1>9, <1>10, HeaderItemsAdded
<1>14. Finished(heap', OpenNodes) = F
  <2>1. \A n \in Node : heap'[n].type = f[n].type /\ heap'[n].source = f[n].source
    BY <1>10 DEF ItemAdded
  <2>2. Finished(heap', OpenNodes) = Finished(f, OpenNodes)
    BY <2>1, FinishedKept
  <2> QED
    BY <1>8, <2>2
<1>15. /\ OnePlace(heap') /\ NoCycle(heap')
       /\ \A q \in LooseValues : Places(heap', q) = {}
       /\ \A S \in SUBSET Node : Reach(heap, S) \subseteq Reach(heap', S)
       /\ Reach(heap', F) = Sealed
       /\ new \in Reach(heap', {document}) \ Sealed
  BY <1>12, OpenAndSealed DEF Extended, F
<1>16. used <= used' /\ \A n \in document..used' : n \in document..used \/ n \in {new}
  <2>1. document \in Nat
    BY <1>4, NodeTyping
  <2> QED
    BY <1>1, <1>5, <1>8, <2>1
<1>17. /\ {new} \subseteq Reach(heap', {document}) /\ walk'.goal = "none"
       /\ currentTable' \in Reach(heap', {document}) \ Sealed
       /\ UNCHANGED <<document, frames, value, outcome, returned>>
  BY <1>1, <1>15 DEF NoWalk
<1>18. Finished(heap', OpenNodes) = Finished(heap, OpenNodes) /\ Reach(heap', Finished(heap, OpenNodes)) = Sealed
  BY <1>14, <1>15 DEF F
<1> QED
  BY ONLY TreeInv, IndInv', <1>4, <1>13, <1>15, <1>16, <1>17, <1>18, TreeGrown

\* A new array of tables with its first element: two values in one step.
LEMMA CreateNewArrayOfTablesTree == ASSUME TreeInv, IndInv', CreateNewArrayOfTables PROVE TreeInv'
<1> DEFINE array == NewArray("ExplicitTable")
           table == NewTable("ExplicitTable")
           h == setValue(Create(array), walk.at, key, new)
           f == [h EXCEPT ![new + 1] = table]
           F == Finished(heap, OpenNodes)
           m == new + 1
<1>1. /\ Walking /\ walk.goal = "tableArray" /\ child = Null /\ used + 2 <= MaxNodes
      /\ heap' = addValue(f, new, m) /\ used' = m
      /\ UNCHANGED <<document, frames, value, outcome, returned>>
      /\ currentTable' = m /\ walk' = NoWalk
  BY DEF CreateNewArrayOfTables, Binding, EnterSection
<1>2. walk.pos <= Len(walk.keys) /\ IndInv
  BY DEF CreateNewArrayOfTables, Binding, TreeInv, IndInv, TypeOK, Walk
<1>3. /\ Blank(array) /\ array.type = "Array" /\ array.source = "ExplicitTable"
      /\ Blank(table) /\ table.type = "Table" /\ table.source = "ExplicitTable"
  BY BlankCells DEF Source
<1>4. /\ WalkRoot = document /\ outcome = "parsing" /\ document \in Node /\ document \in LiveRoots
  BY <1>1, WalkFacts DEF Walking
<1>5. /\ heap \in Heap /\ used \in 0..MaxNodes /\ used \in Nat
      /\ LiveRoots \subseteq LooseValues /\ LooseIn(heap, used, LooseValues)
      /\ F \in SUBSET Node /\ \A n \in F : n <= used
      /\ used < MaxNodes /\ MaxNodes \in Nat
  BY <1>1, LooseFacts, MaxNodesAssumption DEF LooseIn
<1> HIDE DEF array, table, F
<1>6. /\ new = used + 1 /\ new \in Node
      /\ Extended(heap, h, new, document, LooseValues, F)
      /\ CellsInUse(h, new) /\ HeaderItems(h) /\ Finished(h, OpenNodes) = F
      /\ h[new].items = <<>> /\ h[new].type = "Array" /\ h[new].source = "ExplicitTable"
  <2>1. h = setValue(Create(array), walk.at, key, new) /\ array.source # "Value"
    BY <1>3
  <2> HIDE DEF f, h
  <2>2. /\ new = used + 1 /\ new \in Node
        /\ Extended(heap, h, new, WalkRoot, LooseValues, Finished(heap, OpenNodes))
        /\ CellsInUse(h, new) /\ HeaderItems(h)
        /\ Finished(h, OpenNodes) = Finished(heap, OpenNodes)
        /\ h[new].items = <<>> /\ h[new].type = array.type /\ h[new].source = array.source
    BY ONLY TreeInv, <1>1, <1>2, <1>3, <1>5, <2>1, EntryGrown
  <2> QED
    BY <1>3, <1>4, <2>2 DEF F
<1> HIDE DEF h
<1>7. /\ h \in Heap /\ OnePlace(h) /\ NoCycle(h) /\ LooseIn(h, new, LooseValues)
      /\ \A S \in SUBSET Node : Reach(heap, S) \subseteq Reach(h, S)
      /\ Reach(h, F) = Reach(heap, F)
      /\ new \in Reach(h, {document}) /\ new \notin Reach(h, F)
  <2>1. \A q \in LooseValues : q \in Node /\ q <= new
    BY <1>5, <1>6, NodeTyping DEF LooseIn
  <2> QED
    BY <1>6, <2>1 DEF Extended, LooseIn
<1>8. /\ m \in Node /\ m # new /\ f \in Heap /\ f[m] = table /\ \A n \in Node : n # m => f[n] = h[n]
      /\ new \in 0..MaxNodes /\ new < MaxNodes
  <2>1. m \in Node /\ m # new /\ new \in 0..MaxNodes /\ new < MaxNodes
    BY <1>1, <1>5, <1>6 DEF Node
  <2> HIDE DEF m
  <2>2. f = [h EXCEPT ![m] = table]
    BY DEF m
  <2> HIDE DEF f
  <2> QED
    BY <1>3, <1>7, <2>1, <2>2 DEF Heap, Blank
<1>9. Filled(h, new, table, f)
  BY <1>3, <1>8 DEF Filled
<1> HIDE DEF f
<1>10. HeaderItems(f) /\ Finished(f, OpenNodes) = F
  <2>1. /\ HeaderItems(h) => HeaderItems(f)
        /\ table.source # "Value" => \A open : Finished(f, open) = Finished(h, open)
        /\ SameShape(h, f) /\ Reach(f, {m}) = {m}
    <3>1. m = new + 1
      OBVIOUS
    <3> HIDE DEF m
    <3> QED
      BY ONLY <1>6, <1>7, <1>9, <3>1, FreshIsLoose
  <2> QED
    BY <1>3, <1>6, <2>1
<1>11. /\ isArray(f, new) /\ isTable(f, m)
       /\ f[new].source = "ExplicitTable" /\ f[m].source = "ExplicitTable"
  BY <1>3, <1>6, <1>8 DEF isArray, isTable
<1> HIDE DEF m
<1>12. ItemAdded(f, heap', new, m)
  BY <1>1, <1>6, <1>8, <1>11, AddValueFields
<1>13. heap' \in Heap /\ Attached(f, heap', new, Len(f[new].items) + 1, m)
  BY <1>6, <1>8, <1>12, ItemAttached DEF ItemAdded
<1>14. Extended(h, heap', m, document, LooseValues, F)
  <2>1. document \in LooseValues /\ m = new + 1 /\ \A n \in F : n <= new
    <3>1. \A n \in F : n \in Nat
      BY <1>5, NodeTyping
    <3> QED
      BY <1>4, <1>5, <1>6, <3>1 DEF m
  <2> QED
    BY ONLY <1>5, <1>6, <1>7, <1>9, <1>13, <2>1, StoreNew
<1>15. HeaderItems(heap')
  BY <1>6, <1>8, <1>10, <1>11, <1>12, HeaderItemsAdded
<1>16. Finished(heap', OpenNodes) = Finished(heap, OpenNodes)
  <2>1. \A n \in Node : heap'[n].type = f[n].type /\ heap'[n].source = f[n].source
    BY <1>12 DEF ItemAdded
  <2>2. Finished(heap', OpenNodes) = Finished(f, OpenNodes)
    BY <2>1, FinishedKept
  <2> QED
    BY <1>10, <2>2 DEF F
<1>17. /\ OnePlace(heap') /\ NoCycle(heap')
       /\ \A q \in LooseValues : Places(heap', q) = {}
       /\ Reach(heap', Finished(heap, OpenNodes)) = Sealed
       /\ m \in Reach(heap', {document}) \ Sealed
       /\ new \in Reach(heap', {document})
  <2>1. Reach(heap', F) = Sealed
    BY <1>7, <1>14, OpenAndSealed DEF Extended, F
  <2>2. {document} \in SUBSET Node
    BY <1>4
  <2> QED
    BY <1>7, <1>14, <2>1, <2>2 DEF Extended, F
<1>18. \A S \in SUBSET Node : Reach(heap, S) \subseteq Reach(heap', S)
  BY <1>7, <1>14 DEF Extended
<1>19. used <= used' /\ \A n \in document..used' : n \in document..used \/ n \in {new, m}
  <2>1. document \in Nat
    BY <1>4, NodeTyping
  <2>2. m = used + 2
    BY <1>5, <1>6 DEF m
  <2> QED
    BY <1>1, <1>5, <1>6, <2>1, <2>2
<1>20. /\ {new, m} \subseteq Reach(heap', {document}) /\ walk'.goal = "none"
       /\ currentTable' \in Reach(heap', {document}) \ Sealed
       /\ UNCHANGED <<document, frames, value, outcome, returned>>
  BY <1>1, <1>17 DEF NoWalk
<1> QED
  BY ONLY TreeInv, IndInv', <1>4, <1>15, <1>16, <1>17, <1>18, <1>19, <1>20, TreeGrown

----------------------------------------------------------------------------
\* The actions that begin a value or put it in its place.

\* A new document: nothing of the documents before is under way any more.
LEMMA BeginParseTree == ASSUME TreeInv, IndInv', BeginParse PROVE TreeInv'
<1> DEFINE cell == NewTable("ExplicitTable")
<1>1. /\ outcome # "parsing" /\ outcome' = "parsing" /\ used < MaxNodes
      /\ heap' = Create(cell) /\ used' = new /\ document' = new /\ currentTable' = new
      /\ UNCHANGED <<frames, value, walk, returned>>
  BY DEF BeginParse
<1>2. Blank(cell) /\ cell.source # "Value"
  BY BlankCells DEF Source
<1>3. frames = <<>> /\ value = Null /\ document = Null /\ walk.goal = "none"
  BY <1>1 DEF TreeInv, FramesFit, IndInv, ValueInv, WalkInv
<1>4. OpenNodes = {} /\ OpenNodes' = {} /\ new # Null
  BY <1>1, <1>3 DEF OpenNodes, new, Null, TreeInv, IndInv, TypeOK
<1> HIDE DEF cell
<1>5. /\ new = used + 1 /\ new \in Node /\ heap' \in Heap /\ new \notin LooseValues
      /\ OnePlace(heap') /\ NoCycle(heap') /\ HeaderItems(heap')
      /\ \A r \in LooseValues \cup {new} : Places(heap', r) = {}
      /\ \A S \in SUBSET Node : Reach(heap', S) = Reach(heap, S)
      /\ Reach(heap', {new}) = {new}
      /\ heap'[new] = cell /\ \A open : Finished(heap', open) = Finished(heap, open)
  BY ONLY TreeInv, <1>1, <1>2, NewIsLoose
<1>6. LiveRoots' = {new} /\ LooseValues' = returned \cup {new} /\ LooseValues = returned
  BY <1>1, <1>3, <1>4 DEF LiveRoots, LooseValues
<1>7. /\ used \in Nat /\ Finished(heap, OpenNodes) \in SUBSET Node
      /\ \A n \in Finished(heap, OpenNodes) : n <= used
  BY LooseFacts, MaxNodesAssumption
<1>8. Sealed' = Reach(heap', Finished(heap, OpenNodes))
  BY <1>4, <1>5, OpenAndSealed
<1>9. new \notin Sealed'
  <2>1. new \notin Finished(heap, OpenNodes)
    BY <1>5, <1>7
  <2>2. Places(heap', new) = {}
    BY <1>5
  <2> QED
    BY <1>5, <1>7, <1>8, <2>1, <2>2, LooseUnreached
<1>10. FramesFit'
  BY <1>1, <1>3 DEF FramesFit, isValueAssignment
<1>11. RootsApart'
  <2>1. \A n \in 1..used : n \in 1..used'
    BY <1>1, <1>5, <1>7
  <2> QED
    BY <1>1, <1>3, <1>4, <1>5, <1>6, <2>1 DEF TreeInv, RootsApart
<1>12. Loose'
  BY <1>5, <1>6 DEF Loose
<1>13. InPlace'
  BY <1>1, <1>3, <1>5, <1>9 DEF InPlace
<1>14. Held'
  <2>1. \A n \in new..new : n = new
    BY <1>5, <1>7
  <2> QED
    BY <1>1, <1>5, <1>6, <2>1 DEF Held
<1> QED
  BY <1>5, <1>10, <1>11, <1>12, <1>13, <1>14 DEF TreeInv

\* A value that begins is a loose one more, and at most itself complete.
LEMMA ValueBorn ==
    ASSUME TreeInv, IndInv', outcome = "parsing", walk.goal = "none", used < MaxNodes,
           NEW cell, Blank(cell), heap' = Create(cell), used' = new,
           UNCHANGED <<document, currentTable, walk, outcome, returned>>,
           LiveRoots' = LiveRoots \cup {new}, RootsApart', FramesFit',
           Sealed' \subseteq Sealed \cup {new}
    PROVE  TreeInv'
<1>1. /\ new = used + 1 /\ new \in Node /\ heap' \in Heap /\ new \notin LooseValues
      /\ OnePlace(heap') /\ NoCycle(heap') /\ HeaderItems(heap')
      /\ \A r \in LooseValues \cup {new} : Places(heap', r) = {}
      /\ \A S \in SUBSET Node : Reach(heap', S) = Reach(heap, S)
      /\ Reach(heap', {new}) = {new}
  BY ONLY TreeInv, used < MaxNodes, Blank(cell), heap' = Create(cell), NewIsLoose
<1>2. LooseValues' = LooseValues \cup {new}
  BY DEF LooseValues
<1>3. /\ document \in Node /\ document \in LooseValues /\ document # new
      /\ currentTable # new /\ used \in Nat /\ document \in Nat
      /\ LiveRoots \in SUBSET Node /\ heap \in Heap
  <2>1. document \in Node /\ document \in LooseValues /\ used \in Nat /\ document \in Nat
        /\ LiveRoots \in SUBSET Node /\ heap \in Heap
    <3>1. used \in Nat /\ document \in Ref /\ document # Null
      BY MaxNodesAssumption DEF TreeInv, IndInv, TypeOK, SectionInv
    <3>2. document \in LiveRoots
      BY <3>1 DEF LiveRoots
    <3> QED
      BY <3>1, <3>2, LooseFacts, NodeTyping
  <2>2. currentTable <= used /\ currentTable \in Nat
    <3>1. section \in DOMAIN sections /\ currentTable = sections[section] /\ sections \in Seq(Node)
      BY DEF TreeInv, IndInv, TypeOK, SectionInv, section
    <3> QED
      BY <3>1, NodeTyping DEF TreeInv, IndInv, SectionInv
  <2> QED
    BY <1>1, <2>1, <2>2
<1>4. Loose'
  BY <1>1, <1>2 DEF Loose
<1>5. InPlace'
  <2>1. {document} \in SUBSET Node
    BY <1>3
  <2> QED
    BY <1>1, <1>3, <2>1 DEF TreeInv, InPlace
<1>6. Held'
  <2>1. LiveRoots \cup {new} \in SUBSET Node
    BY <1>1, <1>3
  <2>2. Reach(heap, LiveRoots) \subseteq Reach(heap', LiveRoots') /\ new \in Reach(heap', LiveRoots')
    <3>1. LiveRoots \subseteq Reach(heap', LiveRoots') /\ new \in Reach(heap', LiveRoots')
      BY <1>1, <2>1, ReachIsLeast
    <3>2. Reach(heap', LiveRoots) \subseteq Reach(heap', LiveRoots')
      BY <1>1, <1>3, <2>1, <3>1, ReachWithin
    <3> QED
      BY <1>1, <1>3, <3>1, <3>2
  <2>3. \A n \in document..new : n \in document..used \/ n = new
    BY <1>1, <1>3
  <2>4. \A n \in document..used : n \in Reach(heap, LiveRoots)
    BY DEF TreeInv, Held
  <2> QED
    BY <2>2, <2>3, <2>4 DEF Held
<1> QED
  BY <1>1, <1>4, <1>5, <1>6 DEF TreeInv

\* A plain value is complete at once.
LEMMA ParseScalarTree == ASSUME TreeInv, IndInv', ParseScalar PROVE TreeInv'
<1> DEFINE cell == NewScalar
<1>1. /\ outcome = "parsing" /\ walk.goal = "none" /\ frames # <<>> /\ value = Null /\ used < MaxNodes
      /\ heap' = Create(cell) /\ used' = new /\ value' = new
      /\ UNCHANGED <<document, currentTable, frames, walk, outcome, returned>>
  BY DEF ParseScalar, NeedsValue, InValue
<1>2. Blank(cell) /\ cell.source = "Value"
  BY BlankCells
<1> HIDE DEF cell
<1>3. OpenNodes' = OpenNodes
  BY <1>1 DEF OpenNodes
<1>4. /\ new = used + 1 /\ new \in Node /\ heap' \in Heap /\ new \notin LooseValues
      /\ \A S \in SUBSET Node : Reach(heap', S) = Reach(heap, S)
      /\ Reach(heap', {new}) = {new}
      /\ Finished(heap', OpenNodes) = Finished(heap, OpenNodes) \cup {new}
  <2>1. used < MaxNodes /\ heap' = Create(cell)
    BY <1>1
  <2>2. /\ new = used + 1 /\ new \in Node /\ heap' \in Heap /\ new \notin LooseValues
        /\ \A S \in SUBSET Node : Reach(heap', S) = Reach(heap, S)
        /\ Reach(heap', {new}) = {new}
    BY ONLY TreeInv, <1>2, <2>1, NewIsLoose
  <2>3. cell.source = "Value" =>
           Finished(heap', OpenNodes) = Finished(heap, OpenNodes) \cup {new}
    BY ONLY TreeInv, <1>2, <2>1, NewIsLoose
  <2> QED
    BY <1>2, <2>2, <2>3
<1>5. new \notin OpenNodes /\ new # Null /\ new # document /\ new \notin returned
  BY <1>4, NodeTyping DEF LooseValues, LiveRoots, OpenNodes
<1>6. LiveRoots' = LiveRoots \cup {new}
  BY <1>1, <1>3, <1>5 DEF LiveRoots
<1>7. RootsApart'
  <2>1. \A n \in 1..used : n \in 1..used'
    BY <1>1, <1>4, LooseFacts, MaxNodesAssumption
  <2> QED
    BY <1>1, <1>3, <1>5, <2>1 DEF TreeInv, RootsApart
<1>8. FramesFit'
  BY <1>1 DEF TreeInv, FramesFit, isValueAssignment
<1>9. Sealed' \subseteq Sealed \cup {new}
  <2>1. Finished(heap, OpenNodes) \in SUBSET Node /\ {new} \in SUBSET Node
    BY <1>4, LooseFacts
  <2>2. Sealed' = Reach(heap', Finished(heap, OpenNodes) \cup {new})
    BY <1>3, <1>4, <1>5, OpenAndSealed
  <2>3. Sealed' = Reach(heap', Finished(heap, OpenNodes)) \cup Reach(heap', {new})
    BY <1>4, <2>1, <2>2, ReachJoin
  <2> QED
    BY <1>4, <2>1, <2>3, OpenAndSealed
<1> QED
  BY ONLY TreeInv, IndInv', <1>1, <1>2, <1>6, <1>7, <1>8, <1>9, ValueBorn

\* An array or inline table is open until its end is read.
LEMMA OpenValueTree ==
    ASSUME TreeInv, IndInv', NEW kind \in {"array", "inline"}, NEW cell, Blank(cell),
           cell.source = "Value", OpenValue(kind, cell)
    PROVE  TreeInv'
<1> DEFINE frame == [kind |-> kind, node |-> new, keys |-> <<>>]
<1>1. /\ outcome = "parsing" /\ walk.goal = "none" /\ frames # <<>> /\ value = Null /\ used < MaxNodes
      /\ heap' = Create(cell) /\ used' = new /\ frames' = Append(frames, frame)
      /\ UNCHANGED <<document, currentTable, value, walk, outcome, returned>>
  BY DEF OpenValue, NeedsValue, InValue
<1>2. /\ new = used + 1 /\ new \in Node /\ heap' \in Heap /\ new \notin LooseValues
      /\ \A S \in SUBSET Node : Reach(heap', S) = Reach(heap, S)
      /\ \A open : new \in open => Finished(heap', open) = Finished(heap, open)
  BY ONLY TreeInv, <1>1, Blank(cell), cell.source = "Value", NewIsLoose
<1>3. new # Null /\ new # document /\ new \notin returned /\ new \notin OpenNodes
  BY <1>2, NodeTyping DEF LooseValues, LiveRoots, OpenNodes
<1>4. frame \in Frame /\ frames \in Seq(Frame) /\ frame.node = new /\ frame.kind # "assign"
  BY <1>2, NodeTyping DEF Frame, FrameKind, TreeInv, IndInv, TypeOK
<1> HIDE DEF frame
<1>5. OpenNodes' = OpenNodes \cup {new}
  BY <1>1, <1>3, <1>4, NodesOfAppend, OpenAndSealed
<1>6. LiveRoots' = LiveRoots \cup {new}
  BY <1>1, <1>3, <1>5 DEF LiveRoots
<1>7. RootsApart'
  <2>1. \A n \in 1..used : n \in 1..used'
    BY <1>1, <1>2, LooseFacts, MaxNodesAssumption
  <2> QED
    BY <1>1, <1>3, <1>5, <2>1 DEF TreeInv, RootsApart
<1>8. FramesFit'
  <2>1. /\ DOMAIN frames' = DOMAIN frames \cup {Len(frames) + 1} /\ frames' # <<>>
        /\ Len(frames) + 1 \notin DOMAIN frames /\ Len(frames) + 1 # 1
        /\ frames'[Len(frames) + 1] = frame
        /\ \A i \in DOMAIN frames : frames'[i] = frames[i]
    <3>1. /\ DOMAIN frames' = 1..(Len(frames) + 1) /\ DOMAIN frames = 1..Len(frames)
          /\ Len(frames) \in Nat /\ Len(frames) # 0 /\ frames' # <<>>
      BY <1>1, <1>4
    <3> QED
      BY <1>1, <1>4, <3>1, AppendProperties
  <2>2. \A i \in DOMAIN frames' :
           /\ frames'[i].kind = "assign" <=> i = 1
           /\ frames'[i].node = Null <=> i = 1
    BY <1>3, <1>4, <2>1 DEF TreeInv, FramesFit
  <2>3. \A i \in DOMAIN frames : frames[i].node # new
    BY <1>3 DEF OpenNodes
  <2>4. \A i, j \in DOMAIN frames' :
           frames'[i].node = frames'[j].node /\ frames'[i].node # Null => i = j
    BY <1>4, <2>1, <2>3 DEF TreeInv, FramesFit
  <2>5. outcome' = "parsing" /\ frames' # <<>> /\ ~isValueAssignment'
    BY <1>1, <2>1 DEF isValueAssignment
  <2> QED
    BY <2>2, <2>4, <2>5 DEF FramesFit
<1>9. Sealed' \subseteq Sealed \cup {new}
  <2>1. new \in OpenNodes' /\ Finished(heap', OpenNodes') = Finished(heap, OpenNodes')
    BY <1>2, <1>5
  <2>2. Finished(heap, OpenNodes') \subseteq Finished(heap, OpenNodes)
    BY <1>5 DEF Finished
  <2>3. /\ Finished(heap, OpenNodes) \in SUBSET Node /\ Finished(heap, OpenNodes') \in SUBSET Node
        /\ heap \in Heap
    BY LooseFacts DEF Finished
  <2>4. Finished(heap, OpenNodes') \subseteq Reach(heap, Finished(heap, OpenNodes))
    BY <2>2, <2>3, ReachIsLeast
  <2>5. Reach(heap, Finished(heap, OpenNodes')) \subseteq Reach(heap, Finished(heap, OpenNodes))
    BY <2>3, <2>4, ReachWithin
  <2> QED
    BY <1>2, <2>1, <2>3, <2>5, OpenAndSealed
<1> QED
  BY ONLY TreeInv, IndInv', <1>1, Blank(cell), <1>6, <1>7, <1>8, <1>9, ValueBorn

\* The two kinds of value that begin open.
LEMMA OpenTree == ASSUME TreeInv, IndInv', OpenArray \/ OpenInlineTable PROVE TreeInv'
<1>1. /\ Blank(NewArray("Value")) /\ NewArray("Value").source = "Value"
      /\ Blank(NewTable("Value")) /\ NewTable("Value").source = "Value"
  BY BlankCells DEF Source
<1>2. CASE OpenArray
  BY <1>1, <1>2, OpenValueTree DEF OpenArray
<1>3. CASE OpenInlineTable
  BY <1>1, <1>3, OpenValueTree DEF OpenInlineTable
<1> QED
  BY <1>2, <1>3

\* What is said of a stored value concerns pointers only.
LEMMA AttachSame ==
    ASSUME NEW h, NEW f, NEW g, NEW p, NEW x, NEW v,
           Attached(h, f, p, x, v), SameShape(f, g)
    PROVE  Attached(h, g, p, x, v)
  BY DEF Attached, SameShape

\* The value that was read is stored at p, in the tree of another loose value
\* r: all there was stays in its tree, and nothing complete has changed.
LEMMA ValueSettled ==
    ASSUME TreeInv, IndInv', outcome = "parsing", value # Null, value' = Null,
           UNCHANGED <<used, document, currentTable, outcome, returned>>,
           walk'.goal = "none", OpenNodes' = OpenNodes, FramesFit', HeaderItems(heap'),
           \A n \in Node : /\ heap'[n].type = heap[n].type
                           /\ heap'[n].source = "Value" <=> heap[n].source = "Value",
           NEW r \in LiveRoots, r # value,
           NEW p \in Reach(heap, {r}), p \notin Sealed,
           NEW x, Attached(heap, heap', p, x, value)
    PROVE  TreeInv'
<1>1. /\ heap \in Heap /\ heap' \in Heap /\ OnePlace(heap) /\ NoCycle(heap)
      /\ LiveRoots \subseteq LooseValues /\ LooseValues \in SUBSET Node
      /\ Finished(heap, OpenNodes) \in SUBSET Node
  BY LooseFacts DEF TreeInv, IndInv, TypeOK
<1>2. AllLoose(heap, LooseValues)
  BY LooseFacts DEF AllLoose
<1>3. value \in LiveRoots /\ value \in LooseValues /\ r \in LooseValues
  BY <1>1 DEF LiveRoots
<1>4. /\ OnePlace(heap') /\ NoCycle(heap')
      /\ \A q \in LooseValues \ {value} : Places(heap', q) = {}
      /\ \A S \in SUBSET Node : Reach(heap, S) \subseteq Reach(heap', S)
      /\ \A S \in SUBSET Node : p \notin Reach(heap, S) => Reach(heap', S) = Reach(heap, S)
      /\ \A S \in SUBSET Node : r \in S => Reach(heap, S \cup {value}) \subseteq Reach(heap', S)
  BY ONLY <1>1, <1>2, <1>3, r # value, p \in Reach(heap, {r}),
     Attached(heap, heap', p, x, value), StoreLoose
<1>5. /\ document # value /\ value \notin OpenNodes /\ value \notin returned
      /\ document \in Node /\ {document} \in SUBSET Node
  BY NodeTyping DEF TreeInv, RootsApart, IndInv, TypeOK, SectionInv
<1>6. LiveRoots' = LiveRoots \ {value}
  BY <1>5 DEF LiveRoots, OpenNodes
<1>7. LooseValues' \subseteq LooseValues \ {value}
  BY <1>5, <1>6 DEF LooseValues
<1>8. Sealed' = Sealed
  <2>1. Finished(heap', OpenNodes) = Finished(heap, OpenNodes)
    BY FinishedKept
  <2>2. p \notin Reach(heap, Finished(heap, OpenNodes))
    BY OpenAndSealed
  <2>3. Reach(heap', Finished(heap, OpenNodes)) = Reach(heap, Finished(heap, OpenNodes))
    BY <1>1, <1>4, <2>2
  <2> QED
    BY <2>1, <2>3, OpenAndSealed
<1>9. RootsApart'
  BY DEF TreeInv, RootsApart
<1>10. Loose'
  BY <1>4, <1>7 DEF Loose
<1>11. InPlace'
  BY <1>4, <1>5, <1>8 DEF TreeInv, InPlace
<1>12. Held'
  <2>1. LiveRoots \ {value} \in SUBSET Node /\ r \in LiveRoots \ {value}
    BY <1>1
  <2>2. (LiveRoots \ {value}) \cup {value} = LiveRoots
    BY <1>3
  <2>3. Reach(heap, (LiveRoots \ {value}) \cup {value}) \subseteq Reach(heap', LiveRoots \ {value})
    BY <1>4, <2>1
  <2> QED
    BY <1>6, <2>2, <2>3 DEF TreeInv, Held
<1> QED
  BY <1>4, <1>9, <1>10, <1>11, <1>12 DEF TreeInv

\* The value becomes an item of the array that is being read.
LEMMA AddArrayItemTree == ASSUME TreeInv, IndInv', AddArrayItem PROVE TreeInv'
<1> DEFINE n == top.node
<1>1. /\ outcome = "parsing" /\ walk.goal = "none" /\ frames # <<>> /\ value # Null
      /\ top.kind = "array" /\ heap' = addValue(heap, n, value) /\ value' = Null
      /\ UNCHANGED <<used, document, currentTable, frames, walk, outcome, returned>>
  BY DEF AddArrayItem, HasValue, InValue
<1>2. n \in OpenNodes /\ isArray(heap, n) /\ heap[n].source = "Value"
  BY <1>1, TopFrame DEF TreeInv, IndInv, ValueInv, OpenNodes
<1>3. n \in LiveRoots /\ n \in Node /\ n \notin Sealed /\ n # value
  BY <1>1, <1>2, OpenNotSealed DEF TreeInv, RootsApart
<1>4. value \in Node /\ heap \in Heap
  BY <1>1, NodeTyping DEF TreeInv, IndInv, TypeOK
<1> HIDE DEF n
<1>5. ItemAdded(heap, heap', n, value)
  BY <1>1, <1>2, <1>3, <1>4, AddValueFields
<1>6. Attached(heap, heap', n, Len(heap[n].items) + 1, value)
  BY <1>3, <1>4, <1>5, ItemAttached
<1>7. HeaderItems(heap')
  BY <1>2, <1>3, <1>4, <1>5, HeaderItemsAdded DEF TreeInv
<1>8. \A m \in Node : /\ heap'[m].type = heap[m].type
                      /\ heap'[m].source = "Value" <=> heap[m].source = "Value"
  BY <1>5 DEF ItemAdded
<1>9. OpenNodes' = OpenNodes
  BY <1>1 DEF OpenNodes
<1>10. FramesFit'
  BY <1>1 DEF TreeInv, FramesFit, isValueAssignment
<1>11. n \in Reach(heap, {n})
  <2>1. {n} \in SUBSET Node
    BY <1>3
  <2> QED
    BY <1>4, <2>1, ReachIsLeast
<1>12. walk'.goal = "none"
  BY <1>1
<1> QED
  BY ONLY TreeInv, IndInv', <1>1, <1>3, <1>6, <1>7, <1>8, <1>9, <1>10, <1>11, <1>12, ValueSettled

\* The value becomes an entry of the inline table that is being read.
LEMMA AssignInlineEntryTree == ASSUME TreeInv, IndInv', AssignInlineEntry PROVE TreeInv'
<1> DEFINE at == walk.at
<1>1. /\ Walking /\ walk.goal = "inline" /\ walk.pos = Len(walk.keys) /\ child = Null
      /\ heap' = setValue(heap, at, key, value)
      /\ frames' = [frames EXCEPT ![Len(frames)].keys = <<>>]
      /\ value' = Null /\ walk' = NoWalk /\ outcome = "parsing"
      /\ UNCHANGED <<used, document, currentTable, outcome, returned>>
  BY DEF AssignInlineEntry, Binding, Walking
<1>2. walk.pos <= Len(walk.keys) /\ heap \in Heap /\ frames # <<>> /\ value # Null /\ value \in Node
  BY <1>1, NodeTyping DEF TreeInv, FramesFit, isValueAssignment, IndInv, TypeOK, Walk
<1>3. key \in Key /\ at \in Node /\ isTable(heap, at) /\ heap[at].entries[key] = Null
  BY <1>1, <1>2, ChildType DEF TreeInv
<1>4. /\ WalkRoot \in LiveRoots /\ WalkRoot = top.node
      /\ at \in Reach(heap, {WalkRoot}) /\ at \notin Sealed
  BY <1>1, WalkFacts
<1>5. WalkRoot # value
  <2>1. WalkRoot \in OpenNodes
    BY <1>2, <1>4, TopFrame DEF TreeInv, IndInv, OpenNodes, LiveRoots
  <2> QED
    BY <1>2, <2>1 DEF TreeInv, RootsApart
<1> HIDE DEF at
<1>6. EntrySet(heap, heap', at, key, value)
  BY <1>1, <1>2, <1>3, SetValueFields, NodeTyping
<1>7. Attached(heap, heap', at, key, value)
  BY <1>2, <1>3, <1>6, EntryAttached
<1>8. HeaderItems(heap')
  BY <1>2, <1>6, HeaderItemsKept DEF TreeInv
<1>9. \A m \in Node : /\ heap'[m].type = heap[m].type
                      /\ heap'[m].source = "Value" <=> heap[m].source = "Value"
  BY <1>6 DEF EntrySet
<1>10. /\ frames' # <<>> /\ DOMAIN frames' = DOMAIN frames
       /\ \A i \in DOMAIN frames : frames'[i].kind = frames[i].kind /\ frames'[i].node = frames[i].node
  <2>1. <<>> \in Seq(Key)
    OBVIOUS
  <2> QED
    BY <1>1, <1>2, <2>1, TopKeys DEF TreeInv, IndInv
<1>11. OpenNodes' = OpenNodes
  BY <1>10 DEF OpenNodes
<1>12. FramesFit'
  BY <1>1, <1>10 DEF TreeInv, FramesFit, isValueAssignment, NoWalk
<1>13. walk'.goal = "none"
  BY <1>1 DEF NoWalk
<1> QED
  BY ONLY TreeInv, IndInv', <1>1, <1>2, <1>4, <1>5, <1>7, <1>8, <1>9, <1>11, <1>12, <1>13, ValueSettled

\* The value goes to its place in the document, and the assignment is over.
LEMMA AssignValueTree == ASSUME TreeInv, IndInv', AssignValue PROVE TreeInv'
<1> DEFINE at == walk.at
           h == setValue(heap, at, key, value)
<1>1. /\ Walking /\ walk.goal = "assign" /\ walk.pos = Len(walk.keys) /\ child = Null
      /\ heap' = makeExplicit(h, at) /\ frames' = Pop /\ value' = Null /\ walk' = NoWalk
      /\ outcome = "parsing"
      /\ UNCHANGED <<used, document, currentTable, outcome, returned>>
  BY DEF AssignValue, Binding, Walking
<1>2. /\ walk.pos <= Len(walk.keys) /\ heap \in Heap /\ frames # <<>> /\ value # Null
      /\ value \in Node /\ top.kind = "assign"
  BY <1>1, NodeTyping DEF TreeInv, FramesFit, isValueAssignment, IndInv, TypeOK, Walk
<1>3. key \in Key /\ at \in Node /\ isTable(heap, at) /\ heap[at].entries[key] = Null
  BY <1>1, <1>2, ChildType DEF TreeInv
<1>4. /\ WalkRoot \in LiveRoots /\ WalkRoot = document
      /\ at \in Reach(heap, {WalkRoot}) /\ at \notin Sealed
  BY <1>1, WalkFacts
<1>5. WalkRoot # value
  BY <1>2, <1>4 DEF TreeInv, RootsApart
<1> HIDE DEF at
<1>6. EntrySet(heap, h, at, key, value)
  BY <1>2, <1>3, SetValueFields, NodeTyping
<1> HIDE DEF h
<1>7. h \in Heap /\ MadeExplicit(h, heap', at)
  BY <1>1, <1>3, <1>6, MakeExplicitFields DEF EntrySet
<1>8. Attached(heap, heap', at, key, value)
  <2>1. Attached(heap, h, at, key, value)
    BY <1>2, <1>3, <1>6, EntryAttached
  <2>2. SameShape(h, heap')
    BY <1>3, <1>7, ExplicitShape
  <2> QED
    BY ONLY <2>1, <2>2, AttachSame
<1>9. HeaderItems(heap')
  <2>1. HeaderItems(h)
    BY <1>2, <1>6, HeaderItemsKept DEF TreeInv
  <2> QED
    BY <1>7, <2>1, HeaderItemsKept
<1>10. \A m \in Node : /\ heap'[m].type = heap[m].type
                       /\ heap'[m].source = "Value" <=> heap[m].source = "Value"
  <2>1. \A m \in Node : heap'[m].source = "Value" <=> h[m].source = "Value"
    BY <1>7, ExplicitSource
  <2> QED
    BY <1>6, <1>7, <2>1 DEF EntrySet, MadeExplicit
<1>11. OpenNodes = {} /\ OpenNodes' = {} /\ frames' = <<>>
  <2>1. /\ Len(frames) \in DOMAIN frames /\ top = frames[Len(frames)] /\ frames \in Seq(Frame)
    BY <1>2, TopFrame DEF TreeInv, IndInv, TypeOK
  <2>2. Len(frames) = 1 /\ top.node = Null
    BY <1>2, <2>1 DEF TreeInv, FramesFit
  <2>3. \A i \in DOMAIN frames : i = 1
    BY <2>1, <2>2
  <2>4. frames' = <<>>
    BY <1>1, <2>1, <2>2 DEF Pop
  <2> QED
    BY <2>1, <2>2, <2>3, <2>4 DEF OpenNodes
<1>12. FramesFit'
  BY <1>1, <1>11 DEF FramesFit, isValueAssignment, NoWalk
<1>13. walk'.goal = "none" /\ OpenNodes' = OpenNodes
  BY <1>1, <1>11 DEF NoWalk
<1> QED
  BY ONLY TreeInv, IndInv', <1>1, <1>2, <1>4, <1>5, <1>8, <1>9, <1>10, <1>12, <1>13, ValueSettled

----------------------------------------------------------------------------
\* Every step preserves the invariant.

\* Nothing is stored in the heap a parser begins with.
LEMMA InitTree == Init => TreeInv
<1> SUFFICES ASSUME Init PROVE TreeInv
  OBVIOUS
<1>1. /\ heap = [n \in Node |-> FreeCell] /\ used = 0 /\ document = Null /\ frames = <<>>
      /\ value = Null /\ walk = NoWalk /\ outcome = "idle" /\ returned = {}
  BY DEF Init
<1>2. IndInv
  BY InitInv
<1>3. /\ heap \in Heap /\ \A n \in Node : heap[n].type = "Free" /\ heap[n].items = <<>>
      /\ \A n \in Node, k \in Key : heap[n].entries[k] = Null
  <2>1. \A n \in Node : n > used
    BY <1>1, NodeTyping
  <2> QED
    BY <1>2, <2>1 DEF IndInv, TypeOK, HeapInv, CellsInUse
<1>4. \A n \in Node : Children(heap, n) = {} /\ Places(heap, n) = {}
  BY <1>3, NodeTyping DEF Children, Places
<1>5. OnePlace(heap)
  BY <1>4 DEF OnePlace
<1>6. NoCycle(heap)
  <2>1. Closed(heap, {})
    BY DEF Closed
  <2>2. Reach(heap, {}) \subseteq {}
    BY <1>3, <2>1, ReachIsLeast
  <2> QED
    BY <1>4, <2>2 DEF NoCycle
<1>7. HeaderItems(heap)
  BY <1>3 DEF HeaderItems
<1>8. OpenNodes = {} /\ LooseValues = {}
  BY <1>1 DEF OpenNodes, LooseValues, LiveRoots
<1>9. FramesFit
  BY <1>1 DEF FramesFit, isValueAssignment, NoWalk
<1>10. RootsApart /\ Loose /\ InPlace /\ Held
  BY <1>1, <1>8 DEF RootsApart, Loose, InPlace, Held
<1> QED
  BY <1>2, <1>5, <1>6, <1>7, <1>9, <1>10 DEF TreeInv

\* The actions that end a parse with an error preserve the invariant.
LEMMA ConflictsTree ==
    ASSUME TreeInv, IndInv',
           \/ DescendConflict \/ CreateTableConflict
           \/ CreateArrayOfTablesConflict \/ AssignConflict \/ Abort
    PROVE  TreeInv'
<1>1. CASE Abort
  BY <1>1, ThrowTree DEF Abort
<1>2. CASE DescendConflict \/ CreateTableConflict \/ CreateArrayOfTablesConflict \/ AssignConflict
  <2>1. Conflict
    BY <1>2 DEF DescendConflict, CreateTableConflict, CreateArrayOfTablesConflict, AssignConflict
  <2> QED
    BY <2>1, ConflictTree
<1> QED
  BY <1>1, <1>2

\* Every step preserves the invariant.
LEMMA NextTree == TreeInv /\ Next => TreeInv'
<1> SUFFICES ASSUME TreeInv, Next PROVE TreeInv'
  OBVIOUS
<1>0. IndInv'
  BY NextInv DEF TreeInv
<1>1. CASE BeginParse \/ EndOfDocument \/ Abort
  BY <1>0, <1>1, BeginParseTree, EndOfDocumentTree, ConflictsTree
<1>2. ASSUME NEW path \in Path, BeginStatement(path) \/ BeginInlineEntry(path) PROVE TreeInv'
  BY <1>0, <1>2, BeginHeaderTree, BeginAssignmentTree, BeginInlineEntryTree DEF BeginStatement
<1>3. CASE ParseValue
  BY <1>0, <1>3, ParseScalarTree, OpenTree, CloseValueTree, AddArrayItemTree,
     BeginInlineWalkTree, BeginAssignWalkTree DEF ParseValue
<1>4. CASE Descend
  BY <1>0, <1>4, DescendToNewTableTree, DescendToTableTree, DescendIntoArrayTree,
     ConflictsTree DEF Descend
<1>5. CASE Bind
  BY <1>0, <1>5, CreateNewTableTree, CreateImpliedTableTree, CreateNewArrayOfTablesTree,
     ExtendArrayOfTablesTree, AssignValueTree, AssignInlineEntryTree, ConflictsTree DEF Bind
<1> QED
  BY <1>1, <1>2, <1>3, <1>4, <1>5 DEF Next

\* A stuttering step preserves the invariant.
LEMMA StutterTree == TreeInv /\ UNCHANGED vars => TreeInv'
<1> SUFFICES ASSUME TreeInv, UNCHANGED vars PROVE TreeInv'
  OBVIOUS
<1>1. IndInv'
  BY StutterInv DEF TreeInv
<1>2. UNCHANGED <<heap, used, document, currentTable, frames, value, walk, outcome, returned>>
  BY DEF vars
<1>3. OpenNodes' = OpenNodes
  BY <1>2 DEF OpenNodes
<1>4. FramesFit'
  BY <1>2 DEF TreeInv, FramesFit, isValueAssignment, top
<1>5. InPlace'
  <2>1. Sealed' = Sealed /\ WalkRoot' = WalkRoot
    BY <1>2, <1>3, OpenAndSealed DEF WalkRoot, top
  <2> QED
    BY <1>2, <2>1 DEF TreeInv, InPlace
<1> QED
  BY <1>1, <1>2, <1>3, <1>4, <1>5, SameRoots

----------------------------------------------------------------------------
\* The second inductive invariant holds in every reachable state.
THEOREM TreeInvariance == Spec => []TreeInv
<1>1. TreeInv /\ [Next]_vars => TreeInv'
  BY NextTree, StutterTree
<1> QED
  BY InitTree, <1>1, PTL DEF Spec

\* Every step of the parser stores something only where it takes effect.
THEOREM StoresTakeEffect == Spec => []NothingIgnored
<1>1. ASSUME IndInv PROVE NothingIgnored
  <2>1. Walking => isTable(heap, walk.at)
    BY <1>1 DEF IndInv, WalkInv, Walking
  <2>2. InValue /\ top.kind = "array" => heap[top.node].source = "Value" /\ isArray(heap, top.node)
    BY <1>1, TopFrame DEF IndInv, ValueInv, InValue
  <2>3. ASSUME AtStatement PROVE isTable(heap, currentTable)
    <3>1. section \in DOMAIN sections /\ currentTable = sections[section]
      BY <1>1, <2>3 DEF IndInv, TypeOK, SectionInv, AtStatement, section
    <3> QED
      BY <1>1, <3>1 DEF IndInv, SectionInv
  <2>4. \A n \in Node : isArray(heap, n) /\ heap[n].source # "Value" =>
           /\ heap[n].items # <<>>
           /\ \A i \in DOMAIN heap[n].items : isTable(heap, heap[n].items[i])
    BY <1>1 DEF IndInv, HeapInv, ArraysOfTables
  <2> QED
    BY <2>1, <2>2, <2>3, <2>4 DEF NothingIgnored
<1> QED
  BY Invariance, <1>1, PTL

\* The documents a parser builds are trees, whatever statements it reads: no
\* value is stored twice, none is below itself, and a root is stored nowhere
\* (Value.hpp:37-38).
THEOREM DocumentsAreTrees == Spec => []DocumentIsTree
<1>1. ASSUME TreeInv PROVE DocumentIsTree
  <2>1. \A n \in 1..used : n \in Node
    BY <1>1, LooseFacts, MaxNodesAssumption DEF Node
  <2>2. ASSUME NEW n \in Node PROVE Cardinality(Places(heap, n)) <= 1
    <3>1. CASE Places(heap, n) = {}
      <4>1. Cardinality(Places(heap, n)) = 0
        BY <3>1, FS_EmptySet
      <4> QED
        BY <4>1
    <3>2. CASE Places(heap, n) # {}
      <4>1. PICK a : a \in Places(heap, n)
        BY <3>2
      <4>2. Places(heap, n) = {a}
        BY <1>1, <4>1 DEF TreeInv, OnePlace
      <4>3. Cardinality({a}) = 1
        BY FS_Singleton
      <4> QED
        BY <4>2, <4>3
    <3> QED
      BY <3>1, <3>2
  <2>3. \A n \in Node : n \notin Reach(heap, Children(heap, n))
    BY <1>1 DEF TreeInv, NoCycle
  <2>4. \A r \in (returned \cup {document}) \ {Null} : Places(heap, r) = {}
    BY <1>1 DEF TreeInv, Loose, LooseValues, LiveRoots
  <2> QED
    BY <2>1, <2>2, <2>3, <2>4 DEF DocumentIsTree
<1> QED
  BY TreeInvariance, <1>1, PTL

\* Between two statements every value the parse has created is in the
\* document, and so is the table the next assignment goes to
\* (ParserData.cpp:85-93, 148-205).
THEOREM NothingGetsLost == Spec => []NothingLost
<1>1. ASSUME TreeInv PROVE NothingLost
  <2>1. SUFFICES ASSUME AtStatement
                 PROVE  OfThisParse \cup {currentTable} \subseteq Reach(heap, {document})
    BY DEF NothingLost
  <2>2. outcome = "parsing" /\ frames = <<>> /\ value = Null
    BY <1>1, <2>1 DEF AtStatement, TreeInv, FramesFit
  <2>3. LiveRoots = {document}
    <3>1. OpenNodes = {} /\ document # Null
      BY <1>1, <2>2 DEF OpenNodes, TreeInv, IndInv, SectionInv
    <3> QED
      BY <2>2, <3>1 DEF LiveRoots
  <2>4. document..used \subseteq Reach(heap, {document})
    BY <1>1, <2>2, <2>3 DEF TreeInv, Held
  <2>5. currentTable \in Reach(heap, {document})
    BY <1>1, <2>2 DEF TreeInv, InPlace
  <2> QED
    BY <2>4, <2>5 DEF OfThisParse
<1> QED
  BY TreeInvariance, <1>1, PTL

----------------------------------------------------------------------------
\* What a step may change.

\* The values out of reach of the parser: the complete ones, and those of the
\* documents it has returned.
OutOfReach == Sealed \cup Reach(heap, returned)

\* A step changes no value that is out of reach.
Sparing == \A n \in OutOfReach : heap'[n] = heap[n]

\* The heaps differ in the cells of M at most.
DifferIn(h, g, M) ==
    /\ h = [n \in Node |-> h[n]] /\ g = [n \in Node |-> g[n]]
    /\ \A n \in Node : n \notin M => g[n] = h[n]

\* The cells of M may be changed.
Changeable(M) == \A n \in M : n \notin OutOfReach

\* The mutators change one cell each.
LEMMA OneCellChanges ==
    ASSUME NEW h, NEW g, NEW M, DifferIn(h, g, M), NEW p, NEW k, NEW v
    PROVE  /\ DifferIn(h, setValue(g, p, k, v), M \cup {p})
           /\ DifferIn(h, addValue(g, p, v), M \cup {p})
           /\ DifferIn(h, makeExplicit(g, p), M \cup {p})
           /\ DifferIn(h, [g EXCEPT ![p] = v], M \cup {p})
<1>1. ASSUME NEW f, f = [n \in Node |-> f[n]], \A n \in Node : n # p => f[n] = g[n]
      PROVE  DifferIn(h, f, M \cup {p})
  BY <1>1 DEF DifferIn
<1>2. g = [n \in Node |-> g[n]]
  BY DEF DifferIn
<1>3. DifferIn(h, setValue(g, p, k, v), M \cup {p})
  <2> DEFINE f == setValue(g, p, k, v)
  <2>1. f = [n \in Node |-> f[n]] /\ \A n \in Node : n # p => f[n] = g[n]
    BY <1>2 DEF setValue
  <2> HIDE DEF f
  <2>2. DifferIn(h, f, M \cup {p})
    BY <1>1, <2>1
  <2> QED
    BY <2>2 DEF f
<1>4. DifferIn(h, addValue(g, p, v), M \cup {p})
  <2> DEFINE f == addValue(g, p, v)
  <2>1. f = [n \in Node |-> f[n]] /\ \A n \in Node : n # p => f[n] = g[n]
    BY <1>2 DEF addValue
  <2> HIDE DEF f
  <2>2. DifferIn(h, f, M \cup {p})
    BY <1>1, <2>1
  <2> QED
    BY <2>2 DEF f
<1>5. DifferIn(h, makeExplicit(g, p), M \cup {p})
  <2> DEFINE f == makeExplicit(g, p)
  <2>1. f = [n \in Node |-> f[n]] /\ \A n \in Node : n # p => f[n] = g[n]
    BY <1>2 DEF makeExplicit
  <2> HIDE DEF f
  <2>2. DifferIn(h, f, M \cup {p})
    BY <1>1, <2>1
  <2> QED
    BY <2>2 DEF f
<1>6. DifferIn(h, [g EXCEPT ![p] = v], M \cup {p})
  <2> DEFINE f == [g EXCEPT ![p] = v]
  <2>1. f = [n \in Node |-> f[n]] /\ \A n \in Node : n # p => f[n] = g[n]
    BY <1>2
  <2> HIDE DEF f
  <2>2. DifferIn(h, f, M \cup {p})
    BY <1>1, <2>1
  <2> QED
    BY <2>2 DEF f
<1> QED
  BY <1>3, <1>4, <1>5, <1>6

\* Only cells in use are out of reach, and none of the values in the trees the
\* parser builds, except for the complete ones.
LEMMA WithinReach ==
    ASSUME TreeInv
    PROVE  /\ OutOfReach \subseteq Node
           /\ \A n \in OutOfReach : n <= used
           /\ \A r \in LiveRoots : \A n : n \in Reach(heap, {r}) \ Sealed => n \notin OutOfReach
<1> DEFINE F == Finished(heap, OpenNodes)
<1>1. /\ heap \in Heap /\ F \in SUBSET Node /\ \A n \in F : n <= used
      /\ OnePlace(heap) /\ CellsInUse(heap, used) /\ Sealed = Reach(heap, F)
      /\ LooseValues \in SUBSET Node /\ \A r \in LooseValues : r <= used /\ Places(heap, r) = {}
      /\ LiveRoots \subseteq LooseValues
  BY LooseFacts, OpenAndSealed DEF TreeInv
<1> HIDE DEF F
<1>2. returned \in SUBSET Node /\ returned \subseteq LooseValues
  BY <1>1 DEF LooseValues
<1>3. ASSUME NEW S \in SUBSET Node, \A n \in S : n <= used
      PROVE  Reach(heap, S) \subseteq Node /\ \A n \in Reach(heap, S) : n <= used
  <2> DEFINE U == {n \in Node : n <= used}
  <2>1. Closed(heap, U)
    <3>1. ASSUME NEW p \in Node, NEW c \in Children(heap, p) PROVE c <= used /\ c \in Node
      BY <1>1, <3>1, ChildrenAreNodes DEF Children, CellsInUse
    <3> QED
      BY <3>1 DEF Closed
  <2>2. S \subseteq U
    BY <1>3
  <2> QED
    BY <1>1, <2>1, <2>2, ReachIsLeast
<1>4. ASSUME NEW r \in LiveRoots PROVE Reach(heap, {r}) \cap Reach(heap, returned) = {}
  <2>1. r \notin returned
    BY <1>2, <1>1 DEF TreeInv, RootsApart, LiveRoots
  <2>2. {r} \in SUBSET Node /\ {r} \cap returned = {}
        /\ \A q \in {r} \cup returned : Places(heap, q) = {}
    BY <1>1, <1>2, <2>1
  <2> QED
    BY <1>1, <1>2, <2>2, TreesApart
<1>5. /\ Sealed \subseteq Node /\ \A n \in Sealed : n <= used
      /\ Reach(heap, returned) \subseteq Node /\ \A n \in Reach(heap, returned) : n <= used
  BY <1>1, <1>2, <1>3
<1> QED
  BY <1>4, <1>5 DEF OutOfReach

\* Where a step may store something.
LEMMA PlacesWithinReach ==
    ASSUME TreeInv
    PROVE  /\ \A n \in Node : n > used => n \notin OutOfReach
           /\ Walking => walk.at \notin OutOfReach
           /\ Walking /\ walk.pos <= Len(walk.keys) /\ child # Null /\ heap[child].source # "Value"
                 => child \in Node /\ child \notin OutOfReach
           /\ InValue /\ top.kind = "array" => top.node \notin OutOfReach
<1>1. \A n \in Node : n > used => n \notin OutOfReach
  BY WithinReach, LooseFacts, NodeTyping, MaxNodesAssumption
<1>2. Walking => walk.at \notin OutOfReach
  BY WithinReach, WalkFacts
<1>3. ASSUME Walking, walk.pos <= Len(walk.keys), child # Null, heap[child].source # "Value"
      PROVE  child \in Node /\ child \notin OutOfReach
  <2>1. child \in Node /\ child \in Reach(heap, {walk.at}) /\ child \notin Sealed
    BY <1>3, ChildFacts
  <2>2. /\ {walk.at} \in SUBSET Node /\ {WalkRoot} \in SUBSET Node
        /\ {walk.at} \subseteq Reach(heap, {WalkRoot}) /\ heap \in Heap /\ WalkRoot \in LiveRoots
    BY <1>3, WalkFacts, LooseFacts
  <2>3. child \in Reach(heap, {WalkRoot})
    BY <2>1, <2>2, ReachWithin
  <2> QED
    BY <2>1, <2>2, <2>3, WithinReach
<1>4. ASSUME InValue, top.kind = "array" PROVE top.node \notin OutOfReach
  <2>1. top.node \in OpenNodes
    BY <1>4, TopFrame DEF TreeInv, IndInv, ValueInv, OpenNodes, InValue
  <2>2. top.node \in LiveRoots /\ top.node \in Node /\ top.node \notin Sealed
    BY <2>1, OpenNotSealed
  <2>3. {top.node} \in SUBSET Node /\ heap \in Heap
    BY <2>2, LooseFacts
  <2>4. top.node \in Reach(heap, {top.node})
    BY <2>3, ReachIsLeast
  <2> QED
    BY <2>2, <2>4, WithinReach
<1> QED
  BY <1>1, <1>2, <1>3, <1>4

\* A step that changes cells of M only spares the others.
LEMMA ChangedWithin ==
    ASSUME TreeInv, NEW M, DifferIn(heap, heap', M), Changeable(M)
    PROVE  Sparing
  BY WithinReach DEF Sparing, DifferIn, Changeable

\* A heap does not differ from itself.
LEMMA SameHeap == ASSUME TreeInv PROVE DifferIn(heap, heap, {})
<1>1. heap \in Heap
  BY LooseFacts
<1> QED
  BY <1>1 DEF Heap, DifferIn

\* The next free cell.
LEMMA FreshCell ==
    ASSUME TreeInv, used < MaxNodes
    PROVE  new \notin OutOfReach /\ \A c : DifferIn(heap, Create(c), {new})
<1>1. used \in 0..MaxNodes /\ used \in Nat
  BY LooseFacts, MaxNodesAssumption
<1>2. new \in Node /\ new > used
  BY <1>1, MaxNodesAssumption DEF new, Node
<1>3. ASSUME NEW c PROVE DifferIn(heap, Create(c), {new})
  <2>1. DifferIn(heap, [heap EXCEPT ![new] = c], {} \cup {new})
    BY ONLY TreeInv, SameHeap, OneCellChanges
  <2> QED
    BY <2>1 DEF Create
<1> QED
  BY <1>2, <1>3, PlacesWithinReach

\* The steps that create a value which is not stored yet.
LEMMA BornSparing ==
    ASSUME TreeInv, BeginParse \/ ParseScalar \/ OpenArray \/ OpenInlineTable
    PROVE  Sparing
<1>1. used < MaxNodes /\ \E c : heap' = Create(c)
  BY DEF BeginParse, ParseScalar, OpenArray, OpenInlineTable, OpenValue
<1>2. DifferIn(heap, heap', {new}) /\ Changeable({new})
  BY <1>1, FreshCell DEF Changeable
<1> QED
  BY ONLY TreeInv, <1>2, ChangedWithin

\* The steps that store a value which was there already.
LEMMA StoredSparing ==
    ASSUME TreeInv, AddArrayItem \/ AssignValue \/ AssignInlineEntry \/ CreateImpliedTable
    PROVE  Sparing
<1>1. DifferIn(heap, heap, {})
  BY SameHeap
<1>2. CASE AddArrayItem
  <2>1. InValue /\ top.kind = "array" /\ heap' = addValue(heap, top.node, value)
    BY <1>2 DEF AddArrayItem, HasValue
  <2>2. DifferIn(heap, addValue(heap, top.node, value), {} \cup {top.node})
    BY ONLY <1>1, OneCellChanges
  <2>3. Changeable({} \cup {top.node})
    BY <2>1, PlacesWithinReach DEF Changeable
  <2> QED
    BY ONLY TreeInv, <2>1, <2>2, <2>3, ChangedWithin
<1>3. CASE AssignValue \/ AssignInlineEntry
  <2> DEFINE h == setValue(heap, walk.at, key, value)
             M == {} \cup {walk.at}
             N == M \cup {walk.at}
  <2>1. Walking /\ (heap' = h \/ heap' = makeExplicit(h, walk.at))
    BY <1>3 DEF AssignValue, AssignInlineEntry, Binding
  <2>2. DifferIn(heap, h, M)
    BY ONLY <1>1, OneCellChanges
  <2>3. Changeable(M) /\ Changeable(N)
    BY <2>1, PlacesWithinReach DEF Changeable
  <2> HIDE DEF h, M
  <2>4. DifferIn(heap, makeExplicit(h, walk.at), N)
    BY ONLY <2>2, OneCellChanges
  <2> HIDE DEF N
  <2>5. CASE heap' = h
    BY ONLY TreeInv, <2>2, <2>3, <2>5, ChangedWithin
  <2>6. CASE heap' = makeExplicit(h, walk.at)
    BY ONLY TreeInv, <2>3, <2>4, <2>6, ChangedWithin
  <2> QED
    BY <2>1, <2>5, <2>6
<1>4. CASE CreateImpliedTable
  <2> DEFINE h == makeExplicit(heap, child)
             M == {} \cup {child}
             N == M \cup {walk.at}
  <2>1. /\ Walking /\ walk.pos <= Len(walk.keys) /\ child # Null /\ heap[child].source # "Value"
        /\ heap' = setValue(h, walk.at, key, child)
    BY <1>4 DEF CreateImpliedTable, Binding, TreeInv, IndInv, TypeOK, Walk
  <2>2. DifferIn(heap, h, M)
    BY ONLY <1>1, OneCellChanges
  <2>3. Changeable(N)
    BY <2>1, PlacesWithinReach DEF Changeable
  <2> HIDE DEF h, M
  <2>4. DifferIn(heap, setValue(h, walk.at, key, child), N)
    BY ONLY <2>2, OneCellChanges
  <2> HIDE DEF N
  <2> QED
    BY ONLY TreeInv, <2>1, <2>3, <2>4, ChangedWithin
<1> QED
  BY <1>2, <1>3, <1>4

\* The steps that create a value and store it.
LEMMA GrownSparing ==
    ASSUME TreeInv, \/ DescendToNewTable \/ CreateNewTable
                    \/ CreateNewArrayOfTables \/ ExtendArrayOfTables
    PROVE  Sparing
<1>1. CASE DescendToNewTable \/ CreateNewTable
  <2>1. Walking /\ used < MaxNodes /\ \E c : heap' = setValue(Create(c), walk.at, key, new)
    BY <1>1 DEF DescendToNewTable, Descending, CreateNewTable, Binding
  <2>2. PICK c : heap' = setValue(Create(c), walk.at, key, new)
    BY <2>1
  <2> DEFINE f == Create(c)
             M == {new} \cup {walk.at}
  <2>3. DifferIn(heap, f, {new}) /\ Changeable(M)
    BY <2>1, FreshCell, PlacesWithinReach DEF Changeable
  <2>4. heap' = setValue(f, walk.at, key, new)
    BY <2>2
  <2> HIDE DEF f
  <2>5. DifferIn(heap, setValue(f, walk.at, key, new), M)
    BY ONLY <2>3, OneCellChanges
  <2> HIDE DEF M
  <2> QED
    BY ONLY TreeInv, <2>3, <2>4, <2>5, ChangedWithin
<1>2. CASE ExtendArrayOfTables
  <2> DEFINE f == Create(NewTable("ExplicitTable"))
             M == {new} \cup {child}
  <2>1. /\ Walking /\ walk.pos <= Len(walk.keys) /\ used < MaxNodes
        /\ child # Null /\ heap[child].source # "Value" /\ heap' = addValue(f, child, new)
    BY <1>2 DEF ExtendArrayOfTables, Binding, TreeInv, IndInv, TypeOK, Walk
  <2>2. DifferIn(heap, f, {new}) /\ Changeable(M)
    BY <2>1, FreshCell, PlacesWithinReach DEF Changeable
  <2> HIDE DEF f
  <2>3. DifferIn(heap, addValue(f, child, new), M)
    BY ONLY <2>2, OneCellChanges
  <2> HIDE DEF M
  <2> QED
    BY ONLY TreeInv, <2>1, <2>2, <2>3, ChangedWithin
<1>3. CASE CreateNewArrayOfTables
  <2> DEFINE m == new + 1
             f == Create(NewArray("ExplicitTable"))
             h == setValue(f, walk.at, key, new)
             g == [h EXCEPT ![m] = NewTable("ExplicitTable")]
             M == {new} \cup {walk.at}
             N == M \cup {m}
             O == N \cup {new}
  <2>1. Walking /\ used + 2 <= MaxNodes /\ heap' = addValue(g, new, m)
    BY <1>3 DEF CreateNewArrayOfTables, Binding
  <2>2. used < MaxNodes /\ m \in Node /\ m > used
    BY <2>1, LooseFacts, MaxNodesAssumption DEF new, Node
  <2> HIDE DEF m
  <2>3. DifferIn(heap, f, {new}) /\ Changeable(O)
    BY <2>1, <2>2, FreshCell, PlacesWithinReach DEF Changeable
  <2> HIDE DEF f
  <2>4. DifferIn(heap, h, M)
    BY ONLY <2>3, OneCellChanges
  <2> HIDE DEF h, M
  <2>5. DifferIn(heap, g, N)
    BY ONLY <2>4, OneCellChanges
  <2> HIDE DEF g, N
  <2>6. DifferIn(heap, addValue(g, new, m), O)
    BY ONLY <2>5, OneCellChanges
  <2> HIDE DEF O
  <2> QED
    BY ONLY TreeInv, <2>1, <2>3, <2>6, ChangedWithin
<1> QED
  BY <1>1, <1>2, <1>3

\* No step changes a value that is out of reach.
LEMMA NextSparing == TreeInv /\ Next => Sparing
<1> SUFFICES ASSUME TreeInv, Next PROVE Sparing
  OBVIOUS
<1>1. ASSUME heap' = heap PROVE Sparing
  BY <1>1 DEF Sparing
<1>2. CASE BeginParse \/ EndOfDocument \/ Abort
  BY <1>1, <1>2, BornSparing DEF EndOfDocument, Abort, Throw
<1>3. ASSUME NEW path \in Path, BeginStatement(path) \/ BeginInlineEntry(path) PROVE Sparing
  BY <1>1, <1>3
     DEF BeginStatement, BeginTable, BeginArrayOfTables, BeginAssignment, BeginInlineEntry
<1>4. CASE ParseValue
  BY <1>1, <1>4, BornSparing, StoredSparing
     DEF ParseValue, CloseValue, BeginInlineWalk, BeginAssignWalk
<1>5. CASE Descend
  BY <1>1, <1>5, GrownSparing
     DEF Descend, DescendToTable, DescendIntoArray, DescendConflict, Conflict, Throw
<1>6. CASE Bind
  BY <1>1, <1>6, GrownSparing, StoredSparing
     DEF Bind, CreateTableConflict, CreateArrayOfTablesConflict, AssignConflict, Conflict, Throw
<1> QED
  BY <1>2, <1>3, <1>4, <1>5, <1>6 DEF Next

\* An array or inline table whose end was read is never changed again, for any
\* document (ParserData.cpp:155-157, 187-189, 220-222).
THEOREM CompleteValuesKept == Spec => CompleteValuesStay
<1>1. TreeInv /\ [Next]_vars => [\A n \in Sealed : heap'[n] = heap[n]]_vars
  BY NextSparing DEF Sparing, OutOfReach
<1> QED
  BY TreeInvariance, <1>1, PTL DEF Spec, CompleteValuesStay

\* Whatever a parser reads after it has returned a document, it changes no
\* value of that document (ParserData.cpp:27, 43-44).
THEOREM ReturnedDocumentsKept == Spec => ReturnedDocumentsStay
<1>1. TreeInv /\ [Next]_vars =>
         [Next => \A n \in Reach(heap, returned) : heap'[n] = heap[n]]_vars
  BY NextSparing DEF Sparing, OutOfReach
<1> QED
  BY TreeInvariance, <1>1, PTL DEF Spec, ReturnedDocumentsStay
=============================================================================
