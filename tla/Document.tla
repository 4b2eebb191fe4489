------------------------------ MODULE Document ------------------------------
(***************************************************************************)
(* How the parser builds a document: the tree-building half of class       *)
(* ParserData (impl/ParserData.cpp), one statement of the document at a    *)
(* time.                                                                   *)
(*                                                                         *)
(* The tokens of a statement are abstracted to what the tree depends on:   *)
(* the path of keys it names and the shape of the value it assigns.  The   *)
(* environment chooses both, so every document over the given paths is a   *)
(* behaviour, accepted or not.  Any error the token level can raise        *)
(* (syntax, encoding, read error) is the action Abort.                     *)
(*                                                                         *)
(* A statement runs as in the code: the path is walked element by element  *)
(* (createIntermediateNameElements), creating the missing tables on the    *)
(* way, and only then the last key is bound.  The recursion of parseValue  *)
(* through arrays and inline tables is the stack `frames'.                 *)
(*                                                                         *)
(* One ParserData may parse any number of documents one after another;     *)
(* the documents it has returned belong to the caller and stay in the heap.*)
(***************************************************************************)
EXTENDS ValueTree

CONSTANTS
    Path,           \* the key paths statements may use, none of them empty
    MaxValueDepth   \* bound: how deep arrays and inline tables may nest

ASSUME PathAssumption == Path \subseteq Seq(Key) \ {<<>>}
ASSUME MaxValueDepthAssumption == MaxValueDepth \in Nat

VARIABLES
    heap,           \* all values ever created
    used,           \* number of cells of the heap in use
    document,       \* ParserData::_document
    currentTable,   \* ParserData::_currentTable
    frames,         \* activations of parse*Value waiting for a value
    value,          \* the value parseValue has just returned, or Null
    walk,           \* the activation of createIntermediateNameElements
    outcome,        \* "parsing", or how the last parse ended
    returned,       \* roots of the documents handed to the caller
    sections,       \* history: every table that became _currentTable, in order
    birth           \* history: in which of the sections a value was created

vars == <<heap, used, document, currentTable, frames, value, walk, outcome,
          returned, sections, birth>>

Goal == {"none", "table", "tableArray", "assign", "inline"}

\* One walk along a path of keys: what it is for, the table reached, the path,
\* the position in it and, for the history only, how many cells were in use
\* when it began.
Walk == [goal : Goal, at : Ref, keys : Seq(Key), pos : Nat, mark : 0..MaxNodes]
NoWalk == [goal |-> "none", at |-> Null, keys |-> <<>>, pos |-> 0, mark |-> 0]

\* "grammar": an error raised while reading tokens; "conflict": the statement
\* contradicts an earlier one; "inlineConflict": an entry of an inline table
\* contradicts an earlier entry; "logic": a std::logic_error.
Outcome == {"idle", "parsing", "ok", "grammar", "conflict", "inlineConflict", "logic"}

FrameKind == {"assign", "array", "inline"}
Frame == [kind : FrameKind, node : Ref, keys : Seq(Key)]

TypeOK ==
    /\ heap \in Heap
    /\ used \in 0..MaxNodes
    /\ document \in Ref
    /\ currentTable \in Ref
    /\ frames \in Seq(Frame)
    /\ value \in Ref
    /\ walk \in Walk
    /\ outcome \in Outcome
    /\ returned \subseteq Node
    /\ sections \in Seq(Node)
    /\ birth \in [Node -> Nat]

Init ==
    /\ heap = [n \in Node |-> FreeCell]
    /\ used = 0
    /\ document = Null
    /\ currentTable = Null
    /\ frames = <<>>
    /\ value = Null
    /\ walk = NoWalk
    /\ outcome = "idle"
    /\ returned = {}
    /\ sections = <<>>
    /\ birth = [n \in Node |-> 0]

----------------------------------------------------------------------------
\* The next cell a create* function returns.
new == used + 1

\* The heap with a new value, and the section it is created in.
Create(cell) == [heap EXCEPT ![new] = cell]
Born(section) == [birth EXCEPT ![new] = section]

\* The number of the current section.
section == Len(sections)

\* Where the parser stands in parseDocument and in parseValue.
Walking     == outcome = "parsing" /\ walk.goal # "none"
AtStatement == outcome = "parsing" /\ walk.goal = "none" /\ frames = <<>>
InValue     == outcome = "parsing" /\ walk.goal = "none" /\ frames # <<>>

top == frames[Len(frames)]
Pop == SubSeq(frames, 1, Len(frames) - 1)

\* parseKeyValueAssignment and parseInlineTableValue wait for one value after
\* their keys, parseArrayValue for any number of them.
NeedsValue  == InValue /\ value = Null /\ (top.kind = "inline" => top.keys # <<>>)
HasValue(kind) == InValue /\ value # Null /\ top.kind = kind

----------------------------------------------------------------------------
\* Begin and end of a parse: parseStream and parseDocument.

\* Mutant: the current table of the document before is kept.
BeginParse_KeepsTable ==
    /\ outcome # "parsing"
    /\ used < MaxNodes
    /\ heap' = Create(NewTable("ExplicitTable"))
    /\ used' = new
    /\ document' = new
    /\ currentTable' = IF currentTable = Null THEN new ELSE currentTable
    /\ outcome' = "parsing"
    /\ sections' = Append(sections, new)
    /\ birth' = Born(section + 1)
    /\ UNCHANGED <<frames, value, walk, returned>>

BeginParse ==
    /\ outcome # "parsing"
    /\ used < MaxNodes
    /\ heap' = Create(NewTable("ExplicitTable"))
    /\ used' = new
    /\ document' = new
    /\ currentTable' = new
    /\ outcome' = "parsing"
    /\ sections' = Append(sections, new)
    /\ birth' = Born(section + 1)
    /\ UNCHANGED <<frames, value, walk, returned>>

\* std::exchange(_document, {}) hands the tree to the caller; _currentTable
\* keeps pointing into it.
EndOfDocument ==
    /\ AtStatement
    /\ returned' = returned \cup {document}
    /\ document' = Null
    /\ outcome' = "ok"
    /\ UNCHANGED <<heap, used, currentTable, frames, value, walk, sections, birth>>

\* An exception unwinds the activations; the handlers of parseStream drop
\* the document and, again, leave _currentTable alone.
Throw(error) ==
    /\ document' = Null
    /\ frames' = <<>>
    /\ value' = Null
    /\ walk' = NoWalk
    /\ outcome' = error
    /\ UNCHANGED <<heap, used, currentTable, returned, sections, birth>>

Conflict == Throw(IF walk.goal = "inline" THEN "inlineConflict" ELSE "conflict")

Abort == outcome = "parsing" /\ ~Walking /\ Throw("grammar")

----------------------------------------------------------------------------
\* The statements of a document.

StartWalk(goal, at, keys) ==
    walk' = [goal |-> goal, at |-> at, keys |-> keys, pos |-> 1, mark |-> used]

BeginTable(path) ==
    /\ AtStatement
    /\ StartWalk("table", document, path)
    /\ UNCHANGED <<heap, used, document, currentTable, frames, value, outcome,
                   returned, sections, birth>>

BeginArrayOfTables(path) ==
    /\ AtStatement
    /\ StartWalk("tableArray", document, path)
    /\ UNCHANGED <<heap, used, document, currentTable, frames, value, outcome,
                   returned, sections, birth>>

BeginAssignment(path) ==
    /\ AtStatement
    /\ frames' = <<[kind |-> "assign", node |-> Null, keys |-> path]>>
    /\ UNCHANGED <<heap, used, document, currentTable, value, walk, outcome,
                   returned, sections, birth>>

----------------------------------------------------------------------------
\* parseValue.

\* Every type of value that is neither an array nor an inline table.
ParseScalar ==
    /\ NeedsValue
    /\ used < MaxNodes
    /\ heap' = Create(NewScalar)
    /\ birth' = Born(section)
    /\ used' = new
    /\ value' = new
    /\ UNCHANGED <<document, currentTable, frames, walk, outcome, returned, sections>>

\* parseArrayValue and parseInlineTableValue create their value first.
OpenValue(kind, cell) ==
    /\ NeedsValue
    /\ Len(frames) <= MaxValueDepth
    /\ used < MaxNodes
    /\ heap' = Create(cell)
    /\ birth' = Born(section)
    /\ used' = new
    /\ frames' = Append(frames, [kind |-> kind, node |-> new, keys |-> <<>>])
    /\ UNCHANGED <<document, currentTable, value, walk, outcome, returned, sections>>

OpenArray       == OpenValue("array", NewArray("Value"))
OpenInlineTable == OpenValue("inline", NewTable("Value"))

\* The end of the array or inline table is read: the activation returns it.
CloseValue ==
    /\ InValue
    /\ value = Null
    /\ top.kind \in {"array", "inline"}
    /\ top.keys = <<>>
    /\ value' = top.node
    /\ frames' = Pop
    /\ UNCHANGED <<heap, used, document, currentTable, walk, outcome, returned,
                   sections, birth>>

\* Mutant: the value is not given up.
AddArrayItem_KeepsValue ==
    /\ HasValue("array")
    /\ heap' = addValue(heap, top.node, value)
    /\ UNCHANGED <<used, document, currentTable, frames, value, walk, outcome, returned,
                   sections, birth>>

AddArrayItem ==
    /\ HasValue("array")
    /\ heap' = addValue(heap, top.node, value)
    /\ value' = Null
    /\ UNCHANGED <<used, document, currentTable, frames, walk, outcome, returned,
                   sections, birth>>

\* The keys of one entry of an inline table, up to the assignment operator.
BeginInlineEntry(path) ==
    /\ InValue
    /\ value = Null
    /\ top.kind = "inline"
    /\ top.keys = <<>>
    /\ frames' = [frames EXCEPT ![Len(frames)].keys = path]
    /\ UNCHANGED <<heap, used, document, currentTable, value, walk, outcome,
                   returned, sections, birth>>

\* The value is there: now the path to it is created.
BeginInlineWalk ==
    /\ HasValue("inline")
    /\ StartWalk("inline", top.node, top.keys)
    /\ UNCHANGED <<heap, used, document, currentTable, frames, value, outcome,
                   returned, sections, birth>>

BeginAssignWalk ==
    /\ HasValue("assign")
    /\ StartWalk("assign", currentTable, top.keys)
    /\ UNCHANGED <<heap, used, document, currentTable, frames, value, outcome,
                   returned, sections, birth>>

----------------------------------------------------------------------------
\* createIntermediateNameElements: one iteration of its loop per step.

key   == walk.keys[walk.pos]
child == valueFromKey(heap, walk.at, key)

Descending == Walking /\ walk.pos < Len(walk.keys)
isValueAssignment == walk.goal \in {"assign", "inline"}

StepTo(n) == walk' = [walk EXCEPT !.at = n, !.pos = @ + 1]

DescendToNewTable ==
    /\ Descending
    /\ child = Null
    /\ used < MaxNodes
    /\ LET source == IF isValueAssignment THEN "ImplicitValue" ELSE "ImplicitTable"
       IN  heap' = setValue(Create(NewTable(source)), walk.at, key, new)
    /\ birth' = Born(section)
    /\ used' = new
    /\ StepTo(new)
    /\ UNCHANGED <<document, currentTable, frames, value, outcome, returned, sections>>

\* Mutant: an assignment enters the tables of other sections, or a complete value.
DescendToTable_AnySection ==
    /\ Descending
    /\ child # Null
    /\ heap[child].source # "Value"
    /\ ~isArray(heap, child)
    /\ StepTo(child)
    /\ UNCHANGED <<heap, used, document, currentTable, frames, value, outcome,
                   returned, sections, birth>>

DescendToTable_IntoValue ==
    /\ Descending
    /\ child # Null
    /\ ~isArray(heap, child)
    /\ ~(isValueAssignment /\ heap[child].source \in {"ImplicitTable", "ExplicitTable"})
    /\ StepTo(child)
    /\ UNCHANGED <<heap, used, document, currentTable, frames, value, outcome,
                   returned, sections, birth>>

DescendToTable ==
    /\ Descending
    /\ child # Null
    /\ heap[child].source # "Value"
    /\ ~isArray(heap, child)
    /\ ~(isValueAssignment /\ heap[child].source \in {"ImplicitTable", "ExplicitTable"})
    /\ StepTo(child)
    /\ UNCHANGED <<heap, used, document, currentTable, frames, value, outcome,
                   returned, sections, birth>>

\* The last element of an array of tables.
lastItem == valueAt(heap, child, size(heap, child) - 1)

\* Mutant: the walk goes on at the array, not at its last element.
DescendIntoArray_Itself ==
    /\ Descending
    /\ child # Null
    /\ heap[child].source # "Value"
    /\ isArray(heap, child)
    /\ ~isValueAssignment
    /\ StepTo(child)
    /\ UNCHANGED <<heap, used, document, currentTable, frames, value, outcome,
                   returned, sections, birth>>

\* An array of tables that is empty or ends with something else than a table
\* would be a std::logic_error.
DescendIntoArray ==
    /\ Descending
    /\ child # Null
    /\ heap[child].source # "Value"
    /\ isArray(heap, child)
    /\ ~isValueAssignment
    /\ IF size(heap, child) = 0 \/ ~isTable(heap, lastItem)
         THEN Throw("logic")
         ELSE /\ StepTo(lastItem)
              /\ UNCHANGED <<heap, used, document, currentTable, frames, value,
                             outcome, returned, sections, birth>>

DescendConflict ==
    /\ Descending
    /\ child # Null
    /\ \/ heap[child].source = "Value"
       \/ isValueAssignment /\ isArray(heap, child)
       \/ isValueAssignment /\ heap[child].source \in {"ImplicitTable", "ExplicitTable"}
    /\ Conflict

----------------------------------------------------------------------------
\* The end of a statement: the last key of the path is bound.

Binding(goal) == Walking /\ walk.pos = Len(walk.keys) /\ walk.goal = goal

\* Mutant: _currentTable is forgotten.
EnterSection_NotCurrent(t) ==
    /\ UNCHANGED currentTable
    /\ sections' = Append(sections, t)
    /\ walk' = NoWalk

\* The header makes t the table the following assignments go to.
EnterSection(t) ==
    /\ currentTable' = t
    /\ sections' = Append(sections, t)
    /\ walk' = NoWalk

\* Mutant: the new table is not stored in its parent.
CreateNewTable_Detached ==
    /\ Binding("table")
    /\ child = Null
    /\ used < MaxNodes
    /\ heap' = Create(NewTable("ExplicitTable"))
    /\ birth' = Born(section + 1)
    /\ used' = new
    /\ EnterSection(new)
    /\ UNCHANGED <<document, frames, value, outcome, returned>>

CreateNewTable ==
    /\ Binding("table")
    /\ child = Null
    /\ used < MaxNodes
    /\ heap' = setValue(Create(NewTable("ExplicitTable")), walk.at, key, new)
    /\ birth' = Born(section + 1)
    /\ used' = new
    /\ EnterSection(new)
    /\ UNCHANGED <<document, frames, value, outcome, returned>>

\* Mutant: a header may repeat, or leaves its table implied.
CreateImpliedTable_Again ==
    /\ Binding("table")
    /\ child # Null
    /\ isTable(heap, child)
    /\ heap[child].source \notin {"Value", "ImplicitValue", "ExplicitValue"}
    /\ heap' = setValue(makeExplicit(heap, child), walk.at, key, child)
    /\ EnterSection(child)
    /\ UNCHANGED <<used, document, frames, value, outcome, returned, birth>>

CreateImpliedTable_StaysImplied ==
    /\ Binding("table")
    /\ child # Null
    /\ isTable(heap, child)
    /\ heap[child].source \notin {"Value", "ImplicitValue", "ExplicitValue", "ExplicitTable"}
    /\ heap' = setValue(heap, walk.at, key, child)
    /\ EnterSection(child)
    /\ UNCHANGED <<used, document, frames, value, outcome, returned, birth>>

\* A table that so far was only implied by the headers of its sub-tables.
CreateImpliedTable ==
    /\ Binding("table")
    /\ child # Null
    /\ isTable(heap, child)
    /\ heap[child].source \notin {"Value", "ImplicitValue", "ExplicitValue", "ExplicitTable"}
    /\ heap' = setValue(makeExplicit(heap, child), walk.at, key, child)
    /\ EnterSection(child)
    /\ UNCHANGED <<used, document, frames, value, outcome, returned, birth>>

CreateTableConflict ==
    /\ Binding("table")
    /\ child # Null
    /\ \/ ~isTable(heap, child)
       \/ heap[child].source \in {"Value", "ImplicitValue", "ExplicitValue", "ExplicitTable"}
    /\ Conflict

\* Mutant: the array gets no first element.
CreateNewArrayOfTables_Empty ==
    /\ Binding("tableArray")
    /\ child = Null
    /\ used < MaxNodes
    /\ heap' = setValue(Create(NewArray("ExplicitTable")), walk.at, key, new)
    /\ birth' = Born(section + 1)
    /\ used' = new
    /\ EnterSection(new)
    /\ UNCHANGED <<document, frames, value, outcome, returned>>

CreateNewArrayOfTables ==
    /\ Binding("tableArray")
    /\ child = Null
    /\ used + 2 <= MaxNodes
    /\ LET withArray == setValue(Create(NewArray("ExplicitTable")), walk.at, key, new)
           withTable == [withArray EXCEPT ![new + 1] = NewTable("ExplicitTable")]
       IN  heap' = addValue(withTable, new, new + 1)
    /\ birth' = [n \in Node |-> IF n \in {new, new + 1} THEN section + 1 ELSE birth[n]]
    /\ used' = new + 1
    /\ EnterSection(new + 1)
    /\ UNCHANGED <<document, frames, value, outcome, returned>>

ExtendArrayOfTables ==
    /\ Binding("tableArray")
    /\ child # Null
    /\ isArray(heap, child)
    /\ heap[child].source # "Value"
    /\ used < MaxNodes
    /\ heap' = addValue(Create(NewTable("ExplicitTable")), child, new)
    /\ birth' = Born(section + 1)
    /\ used' = new
    /\ EnterSection(new)
    /\ UNCHANGED <<document, frames, value, outcome, returned>>

CreateArrayOfTablesConflict ==
    /\ Binding("tableArray")
    /\ child # Null
    /\ ~isArray(heap, child) \/ heap[child].source = "Value"
    /\ Conflict

\* Mutant: an existing value is replaced.
AssignValue_Replacing ==
    /\ Binding("assign")
    /\ heap' = makeExplicit(setValue(heap, walk.at, key, value), walk.at)
    /\ frames' = Pop
    /\ value' = Null
    /\ walk' = NoWalk
    /\ UNCHANGED <<used, document, currentTable, outcome, returned, sections, birth>>

AssignValue ==
    /\ Binding("assign")
    /\ child = Null
    /\ heap' = makeExplicit(setValue(heap, walk.at, key, value), walk.at)
    /\ frames' = Pop
    /\ value' = Null
    /\ walk' = NoWalk
    /\ UNCHANGED <<used, document, currentTable, outcome, returned, sections, birth>>

\* parseInlineTableValue binds the entry without making its table explicit.
AssignInlineEntry ==
    /\ Binding("inline")
    /\ child = Null
    /\ heap' = setValue(heap, walk.at, key, value)
    /\ frames' = [frames EXCEPT ![Len(frames)].keys = <<>>]
    /\ value' = Null
    /\ walk' = NoWalk
    /\ UNCHANGED <<used, document, currentTable, outcome, returned, sections, birth>>

AssignConflict ==
    /\ Binding("assign") \/ Binding("inline")
    /\ child # Null
    /\ Conflict

----------------------------------------------------------------------------
BeginStatement(path) ==
    BeginTable(path) \/ BeginArrayOfTables(path) \/ BeginAssignment(path)

ParseValue ==
    \/ ParseScalar \/ OpenArray \/ OpenInlineTable \/ CloseValue \/ AddArrayItem
    \/ BeginInlineWalk \/ BeginAssignWalk

Descend ==
    \/ DescendToNewTable \/ DescendToTable \/ DescendIntoArray
    \/ DescendConflict

Bind ==
    \/ CreateNewTable \/ CreateImpliedTable \/ CreateTableConflict
    \/ CreateNewArrayOfTables \/ ExtendArrayOfTables \/ CreateArrayOfTablesConflict
    \/ AssignValue \/ AssignInlineEntry \/ AssignConflict

Next ==
    \/ BeginParse \/ EndOfDocument \/ Abort
    \/ \E path \in Path : BeginStatement(path) \/ BeginInlineEntry(path)
    \/ ParseValue
    \/ Descend
    \/ Bind

Spec == Init /\ [][Next]_vars

=============================================================================
