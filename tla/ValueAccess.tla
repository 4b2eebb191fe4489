----------------------------- MODULE ValueAccess -----------------------------
(***************************************************************************)
(* What a program does with a document it got from the parser: the rest of *)
(* class Value (Value.cpp), that is the access by key paths, the copies,   *)
(* the conversion to JSON and QVariant, and class ValueIterator.           *)
(*                                                                         *)
(* A key path is the text key.key.key.  Of a text only the parts between   *)
(* its dots matter, so a text is the sequence of these parts; Parts gives  *)
(* the text of each key.  A key of one part has no dot.  The content of a  *)
(* scalar is opaque: a function from nodes names it.                       *)
(***************************************************************************)
EXTENDS ValueTree

CONSTANT Parts      \* from keys to their texts

ASSUME PartsAssumption ==
    /\ DOMAIN Parts = Key
    /\ \A k \in Key : Parts[k] \in Seq({Parts[k][i] : i \in DOMAIN Parts[k]}) \ {<<>>}
    /\ \A k, l \in Key : Parts[k] = Parts[l] => k = l

----------------------------------------------------------------------------
\* Access by key paths.

DotFree(k) == Len(Parts[k]) = 1

\* ptr->find: the value of the key with a text.
valueOfText(heap, n, text) ==
    LET found == {k \in Key : Parts[k] = text /\ hasKey(heap, n, k)}
    IN  IF found = {} THEN Null ELSE valueFromKey(heap, n, CHOOSE k \in found : TRUE)

\* Mutant: the text is looked up as it is before it is split.
valueAtPath_WholeFirst(heap, n, text) ==
    LET At[i \in 0..Len(text)] ==
          IF i = 0 THEN n
          ELSE IF At[i - 1] = Null THEN Null
          ELSE valueOfText(heap, At[i - 1], <<text[i]>>)
    IN  IF valueOfText(heap, n, text) # Null THEN valueOfText(heap, n, text) ELSE At[Len(text)]

\* Value::value(keyPath): one table per part of the text.  A text without a
\* dot is the base case, so a key with a dot is found by no text.
valueAtPath(heap, n, text) ==
    LET At[i \in 0..Len(text)] ==
          IF i = 0 THEN n
          ELSE IF At[i - 1] = Null THEN Null
          ELSE valueOfText(heap, At[i - 1], <<text[i]>>)
    IN  At[Len(text)]

hasValue(heap, n, text) == valueAtPath(heap, n, text) # Null

tableKeys(heap, n) == {k \in Key : hasKey(heap, n, k)}

\* tableValue and arrayValue: a value of another type, like a missing one, is
\* replaced by a new empty value that is not part of the tree; Null stands for
\* it here.
valueOfType(heap, n, text, type) ==
    LET found == valueAtPath(heap, n, text)
    IN  IF found # Null /\ heap[found].type = type THEN found ELSE Null

----------------------------------------------------------------------------
\* Copies and conversions: both go through the tree below a value.

\* The elements a copy of an array takes over: clone adds them with addValue.
KeptItems(heap, n) ==
    LET items == heap[n].items
        Kept[i \in 0..Len(items)] ==
          IF i = 0 THEN <<>>
          ELSE IF heap[n].source = "ExplicitTable" => isTable(heap, items[i])
            THEN Append(Kept[i - 1], items[i])
            ELSE Kept[i - 1]
    IN  Kept[Len(items)]

\* Mutant: the elements of an array are shared with the copy.
clone_SharesItems(heap, nodes, copy) ==
    LET Copied(v) == IF v = Null THEN Null ELSE copy[v]
    IN  [m \in Node |->
           IF \E n \in nodes : copy[n] = m
             THEN LET n == CHOOSE n \in nodes : copy[n] = m
                  IN  [heap[n] EXCEPT !.entries = [k \in Key |-> Copied(@[k])]]
             ELSE heap[m]]

\* Mutant: a copy is a value like any other.
clone_NewSource(heap, nodes, copy) ==
    LET Copied(v) == IF v = Null THEN Null ELSE copy[v]
    IN  [m \in Node |->
           IF \E n \in nodes : copy[n] = m
             THEN LET n == CHOOSE n \in nodes : copy[n] = m
                  IN  [heap[n] EXCEPT !.entries = [k \in Key |-> Copied(@[k])],
                                      !.items = [i \in DOMAIN KeptItems(heap, n) |->
                                                   copy[KeptItems(heap, n)[i]]],
                                      !.source = "Value"]
             ELSE heap[m]]

\* Value::clone of the tree with the given nodes, into the cells copy[n].
clone(heap, nodes, copy) ==
    LET Copied(v) == IF v = Null THEN Null ELSE copy[v]
    IN  [m \in Node |->
           IF \E n \in nodes : copy[n] = m
             THEN LET n == CHOOSE n \in nodes : copy[n] = m
                  IN  [heap[n] EXCEPT !.entries = [k \in Key |-> Copied(@[k])],
                                      !.items = [i \in DOMAIN KeptItems(heap, n) |->
                                                   copy[KeptItems(heap, n)[i]]]]
             ELSE heap[m]]

\* toJson and toVariant: the document as nested data.
toJson(heap, content, root) ==
    LET Json[n \in Node] ==
          CASE isTable(heap, n) ->
                 [type |-> "Table",
                  entries |-> [k \in tableKeys(heap, n) |-> Json[heap[n].entries[k]]]]
            [] isArray(heap, n) ->
                 [type |-> "Array",
                  items |-> [i \in DOMAIN heap[n].items |-> Json[heap[n].items[i]]]]
            [] OTHER -> [type |-> "Scalar", content |-> content[n]]
    IN  Json[root]

----------------------------------------------------------------------------
\* ValueIterator: a value and a position, with Null for the empty iterator.

Iterator == [value : Ref, index : Nat]

begin(heap, n) == [value |-> IF isArray(heap, n) THEN n ELSE Null, index |-> 0]
end(heap, n) ==
    IF isArray(heap, n) THEN [value |-> n, index |-> size(heap, n)] ELSE begin(heap, n)

OnElement(heap, it) ==
    it.value # Null /\ isArray(heap, it.value) /\ it.index < size(heap, it.value)

\* operator* and operator->.
Deref(heap, it) == IF OnElement(heap, it) THEN valueAt(heap, it.value, it.index) ELSE Null

\* Mutant: the last element is taken for the end.
Increment_StopsEarly(heap, it) ==
    IF OnElement(heap, it) /\ it.index + 1 < size(heap, it.value)
      THEN [it EXCEPT !.index = @ + 1] ELSE it

\* operator++: an iterator at the end of the array stays there.
Increment(heap, it) == IF OnElement(heap, it) THEN [it EXCEPT !.index = @ + 1] ELSE it

=============================================================================
