----------------------------- MODULE DocumentUse -----------------------------
(***************************************************************************)
(* The program that uses the parser: between two parses it reads, copies   *)
(* and changes the documents it was given, with the operations of modules  *)
(* ValueTree and ValueAccess, and then parses the next one.  Parser and    *)
(* program share the heap; this module composes the actions of Document    *)
(* with those of the program.                                              *)
(*                                                                         *)
(* The program is free in what it calls and in which order, within what    *)
(* Value.hpp:35-36 asks of it: it never stores a value inside itself, nor  *)
(* at a second place, and it never stores a nullptr.                       *)
(***************************************************************************)
EXTENDS DocumentProperties, ValueAccess

CONSTANT MaxChanges     \* bound: how many changes and copies a program makes

ASSUME MaxChangesAssumption == MaxChanges \in Nat

VARIABLES
    held,       \* roots of the trees the program holds: copies and new values
    content,    \* the content of each scalar, named by where it was parsed
    loop,       \* a range-for over an array
    changes,    \* how many changes and copies the program has made
    names,      \* history: the keys of the current section
    listed,     \* history: the keys that name arrays of tables
    written     \* history: the values assigned in the last document, with their keys

program == <<held, content, loop, changes>>
history == <<names, listed, written>>
allVars == <<vars, program, history>>

\* One range-for: its iterator, the end it was given, the elements it has been
\* handed and, as a history, the elements the array had when it began.
NoLoop == [at |-> [value |-> Null, index |-> 0], last |-> [value |-> Null, index |-> 0],
           seen |-> <<>>, was |-> <<>>]

UseInit ==
    /\ Init
    /\ held = {}
    /\ content = [n \in Node |-> n]
    /\ loop = NoLoop
    /\ changes = 0
    /\ names = <<>>
    /\ listed = {}
    /\ written = {}

----------------------------------------------------------------------------
\* The parser at work.  The history notes the keys of the statements.

Noted ==
    /\ names' = IF outcome # "parsing" THEN <<>>
                ELSE IF sections' # sections THEN walk.keys ELSE names
    /\ listed' = IF outcome # "parsing" THEN {}
                 ELSE IF sections' # sections /\ walk.goal = "tableArray"
                   THEN listed \cup {walk.keys} ELSE listed
    /\ written' = IF outcome # "parsing" THEN {}
                  ELSE IF AssignValue
                    THEN written \cup {[keys |-> names \o walk.keys, node |-> value]}
                    ELSE written

Parse == Next /\ Noted /\ UNCHANGED program

----------------------------------------------------------------------------
\* The program at work.

Idle == outcome # "parsing"

\* The roots of the trees the program can reach, and their nodes.
Roots == returned \cup held
Known == Reach(heap, Roots)

\* The program changes or copies something: what it has read from the document
\* is history.
Changing ==
    /\ Idle
    /\ changes < MaxChanges
    /\ changes' = changes + 1
    /\ written' = {}
    /\ UNCHANGED <<document, currentTable, frames, value, walk, outcome, sections, birth,
                   names, listed>>

\* create*: a new value, not yet part of a tree.
CreateValue(cell) ==
    /\ Changing
    /\ used < MaxNodes
    /\ heap' = Create(cell)
    /\ used' = new
    /\ held' = held \cup {new}
    /\ UNCHANGED <<returned, content, loop>>

\* tableValue and arrayValue with a path that leads to no such value.
CreateFallback(n, text) ==
    \/ valueOfType(heap, n, text, "Table") = Null /\ CreateValue(NewTable("Value"))
    \/ valueOfType(heap, n, text, "Array") = Null /\ CreateValue(NewArray("Value"))

\* Only a tree of its own that does not hold the receiver may be stored in it.
MayStore(v, n) == v \in held /\ n \notin Reach(heap, {v})

StoreValue(n, k, v) ==
    /\ Changing
    /\ MayStore(v, n)
    /\ isTable(heap, n)
    /\ heap' = setValue(heap, n, k, v)
    /\ held' = held \ {v}
    /\ UNCHANGED <<used, returned, content, loop>>

AppendValue(n, v) ==
    /\ Changing
    /\ MayStore(v, n)
    /\ isArray(heap, n)
    /\ heap' = addValue(heap, n, v)
    /\ held' = IF heap' = heap THEN held ELSE held \ {v}
    /\ UNCHANGED <<used, returned, content, loop>>

\* makeExplicit, for a table.  (After it an array of ImplicitTable, which only a
\* program can make, would ignore what it holds already.)
MakeExplicit(n) ==
    /\ Changing
    /\ isTable(heap, n)
    /\ Explicit(heap[n].source) # heap[n].source
    /\ heap' = makeExplicit(heap, n)
    /\ UNCHANGED <<used, returned, held, content, loop>>

\* The copy of n becomes the next cell in use, and the copies of the values
\* below it follow in the order of the values.
CopyOf(n) ==
    LET nodes == Reach(heap, {n})
        Before(m) == {o \in nodes : o # n /\ (m = n \/ o < m)}
    IN  [m \in nodes |-> IF m = n THEN new ELSE new + 1 + Cardinality(Before(m))]

CloneValue(n) ==
    LET copy == CopyOf(n)
        nodes == DOMAIN copy
    IN  /\ Changing
        /\ used + Cardinality(nodes) <= MaxNodes
        /\ heap' = clone(heap, nodes, copy)
        /\ content' = [m \in Node |-> IF \E o \in nodes : copy[o] = m
                                        THEN content[CHOOSE o \in nodes : copy[o] = m]
                                        ELSE content[m]]
        /\ used' = used + Cardinality(nodes)
        /\ held' = held \cup {new}
        /\ UNCHANGED <<returned, loop>>

----------------------------------------------------------------------------
\* A range-for: begin and end are asked once, then operator!=, operator* and
\* operator++ take turns.  The body may do anything to the documents.

Reading == Idle /\ UNCHANGED <<vars, held, content, changes, history>>

BeginLoop(n) ==
    /\ Reading
    /\ loop = NoLoop
    /\ loop' = [at |-> begin(heap, n), last |-> end(heap, n), seen |-> <<>>,
                was |-> heap[n].items]

LoopStep ==
    /\ Reading
    /\ loop.at # loop.last
    /\ loop' = [loop EXCEPT !.seen = Append(@, Deref(heap, loop.at)),
                            !.at = Increment(heap, loop.at)]

EndLoop ==
    /\ Reading
    /\ loop # NoLoop
    /\ loop.at = loop.last
    /\ loop' = NoLoop

----------------------------------------------------------------------------
\* The texts the program asks for: those the key paths of documents make.
TextOf(keys) == [i \in DOMAIN keys |-> Parts[keys[i]][1]]
Text == {TextOf(path) : path \in Path}

Use ==
    \/ CreateValue(NewScalar)
    \/ \E n \in Known : \E text \in Text : CreateFallback(n, text)
    \/ \E n \in Known, v \in held :
          \/ \E k \in Key : StoreValue(n, k, v)
          \/ AppendValue(n, v)
    \/ \E n \in Known : MakeExplicit(n) \/ CloneValue(n) \/ BeginLoop(n)
    \/ LoopStep \/ EndLoop

UseNext == Parse \/ Use

UseSpec == UseInit /\ [][UseNext]_allVars

=============================================================================
