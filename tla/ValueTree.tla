----------------------------- MODULE ValueTree -----------------------------
(***************************************************************************)
(* The value tree of a TOML document: class Value (Value.hpp, Value.cpp).  *)
(*                                                                         *)
(* In the code a value is a heap object held by std::shared_ptr; a table   *)
(* stores a map from keys to such pointers and an array a vector of them.  *)
(* Here the heap is a function from node numbers to cells and a pointer is *)
(* a node number, with Null for nullptr.  The operators below are the      *)
(* member functions of Value: a mutator takes the heap and returns the     *)
(* changed heap.  They are total, as the noexcept functions of the code    *)
(* are: applied to a value of another type they return Null or leave the   *)
(* heap alone, silently.                                                   *)
(***************************************************************************)
EXTENDS Naturals, Sequences, FiniteSets

CONSTANTS
    Key,        \* the key texts a document may use
    MaxNodes    \* bound: number of values the program ever creates

ASSUME MaxNodesAssumption == MaxNodes \in Nat

Node == 1..MaxNodes
Null == 0
Ref  == Node \cup {Null}

\* Value::Source (ValueSource.hpp): which kind of statement made the value.
Source == {"Value", "ImplicitTable", "ExplicitTable",
           "ImplicitValue", "ExplicitValue"}

\* Tables made by the dotted keys of an assignment.
DottedSource == {"ImplicitValue", "ExplicitValue"}

\* The types ValueType distinguishes, as far as the tree is concerned; Free
\* is a cell of the heap no value occupies yet.
Type == {"Free", "Table", "Array", "Scalar"}

Cell == [type    : Type,
         source  : Source,
         entries : [Key -> Ref],
         items   : Seq(Node)]

Heap == [Node -> Cell]

----------------------------------------------------------------------------
\* The factory functions create* of class Value.

NewCell(type, source) ==
    [type |-> type, source |-> source,
     entries |-> [k \in Key |-> Null], items |-> <<>>]

FreeCell         == NewCell("Free", "Value")
NewTable(source) == NewCell("Table", source)
NewArray(source) == NewCell("Array", source)
NewScalar        == NewCell("Scalar", "Value")

----------------------------------------------------------------------------
\* Access.

isTable(heap, n) == heap[n].type = "Table"
isArray(heap, n) == heap[n].type = "Array"

valueFromKey(heap, n, key) ==
    IF isTable(heap, n) THEN heap[n].entries[key] ELSE Null

hasKey(heap, n, key) == valueFromKey(heap, n, key) # Null

size(heap, n) ==
    CASE isTable(heap, n) -> Cardinality({k \in Key : heap[n].entries[k] # Null})
      [] isArray(heap, n) -> Len(heap[n].items)
      [] OTHER            -> 0

\* Value::value(std::size_t): the index is zero-based.
valueAt(heap, n, index) ==
    IF isArray(heap, n) /\ index < Len(heap[n].items)
      THEN heap[n].items[index + 1]
      ELSE Null

----------------------------------------------------------------------------
\* Modification.

\* insert_or_assign: an existing entry would be replaced.
setValue(heap, n, key, v) ==
    IF isTable(heap, n) THEN [heap EXCEPT ![n].entries[key] = v] ELSE heap

\* An array of tables accepts tables only.
addValue(heap, n, v) ==
    IF isArray(heap, n) /\ (heap[n].source = "ExplicitTable" => isTable(heap, v))
      THEN [heap EXCEPT ![n].items = Append(@, v)]
      ELSE heap

Explicit(source) ==
    CASE source = "ImplicitTable" -> "ExplicitTable"
      [] source = "ImplicitValue" -> "ExplicitValue"
      [] OTHER                    -> source

makeExplicit(heap, n) == [heap EXCEPT ![n].source = Explicit(@)]

=============================================================================
