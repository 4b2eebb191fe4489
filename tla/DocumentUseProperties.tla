------------------------ MODULE DocumentUseProperties ------------------------
(***************************************************************************)
(* What a program may rely on while it uses the documents the parser has   *)
(* returned (module DocumentUse).                                          *)
(***************************************************************************)
EXTENDS DocumentUse

----------------------------------------------------------------------------
\* Documents, copies and new values are separate trees, and so is the document
\* being parsed: what the program or the parser does to one of them does nothing
\* to the others.  A copy shares nothing with its original, a document nothing
\* with the one before, and the value that stands for a missing table is
\* "unconnected" (Value.cpp:410-425, 428-445; Value.hpp:190, 197, 239).
TreesAreSeparate ==
    \A r, s \in Roots \cup ({document} \ {Null}) :
        r # s => Reach(heap, {r}) \cap Reach(heap, {s}) = {}

\* A new tree the program gets by a copy says the same as the original, has the
\* sources of the original, and the original is not changed by it
\* (Value.cpp:428-445).
Cloned(n) == CloneValue(n) /\ held' # held

SameSources(n) ==
    LET copy == CopyOf(n)
    IN  \A m \in DOMAIN copy : heap'[copy[m]].source = heap[m].source

CopiesAreFaithful ==
    [][\A n \in Known : Cloned(n) =>
          /\ toJson(heap', content', new) = toJson(heap, content, n)
          /\ SameSources(n)
          /\ \A m \in Reach(heap, {n}) : heap'[m] = heap[m]]_allVars

\* Every value of a document is found by the key path it was written with,
\* dotted keys and headers included, and by no other value's path: unless one
\* of its keys contains a dot or an array of tables is on the way, where the
\* path leads to nothing (Value.cpp:55-71).
Prefixes(keys) == {SubSeq(keys, 1, n) : n \in 1..Len(keys)}

ByPath(w) ==
    /\ \A i \in DOMAIN w.keys : DotFree(w.keys[i])
    /\ Prefixes(w.keys) \cap listed = {}

WrittenIsFound ==
    outcome = "ok" =>
        \A w \in written : \A root \in returned : w.node \in Reach(heap, {root}) =>
            \A text \in {TextOf(w.keys)} \cup Text :
                valueAtPath(heap, root, text) = w.node
                    <=> ByPath(w) /\ text = TextOf(w.keys)

\* A loop over an array gets exactly the elements the array had when the loop
\* began, one after the other, and then ends, even when its body adds to the
\* array or copies it: no element is a nullptr, none is missed
\* (ValueIterator.cpp:20-61, Value.cpp:448-461).
LoopSeesTheArray ==
    /\ loop.seen = SubSeq(loop.was, 1, loop.at.index)
    /\ loop.at = loop.last => loop.seen = loop.was

=============================================================================
