---------------------------- MODULE DocumentTree ----------------------------
(***************************************************************************)
(* The second inductive invariant of Document: why the values of a         *)
(* document form a tree, why none is lost, and why a finished value or a   *)
(* returned document is out of reach of the parser.                        *)
(*                                                                         *)
(* The argument is about loose values, the ones that are stored nowhere:   *)
(* the roots of documents, the values parse*Value is filling, and the      *)
(* value that was read last.  The parser only ever stores a loose value,   *)
(* and only below another one; the trees below two loose values never      *)
(* meet.  TLC checks TreeInv on the instances of MCDocument; module        *)
(* DocumentProofs proves it for all of them.                               *)
(***************************************************************************)
EXTENDS DocumentInvariant

----------------------------------------------------------------------------
\* The loose values of the parse that is running, and all of them.
LiveRoots == ({document, value} \cup OpenNodes) \ {Null}
LooseValues == LiveRoots \cup returned

\* No value is stored at two places and none is below itself.
OnePlace(h) == \A n \in Node : \A a, b \in Places(h, n) : a = b
NoCycle(h)  == \A n \in Node : n \notin Reach(h, Children(h, n))

\* The elements of an array of tables are tables that headers have made.
HeaderItems(h) ==
    \A n \in Node : isArray(h, n) /\ h[n].source # "Value" =>
        \A i \in DOMAIN h[n].items : h[h[n].items[i]].source # "Value"

\* The outermost activation is that of the assignment, the others fill an
\* array or an inline table each; a value is under way only inside of one.
FramesFit ==
    /\ \A i \in DOMAIN frames :
          /\ frames[i].kind = "assign" <=> i = 1
          /\ frames[i].node = Null <=> i = 1
    /\ \A i, j \in DOMAIN frames :
          frames[i].node = frames[j].node /\ frames[i].node # Null => i = j
    /\ frames = <<>> => value = Null
    /\ outcome # "parsing" => value = Null /\ document = Null
    /\ isValueAssignment => value # Null /\ frames # <<>> /\ top.kind = walk.goal

\* A loose value is loose for one reason only.
RootsApart ==
    /\ returned \subseteq 1..used
    /\ document \notin returned \cup OpenNodes
    /\ value # Null => value \notin returned \cup OpenNodes \cup {document}
    /\ returned \cap OpenNodes = {}

Loose == \A r \in LooseValues : Places(heap, r) = {}

\* Where the parser is about to store something is in the tree that is being
\* built, and not in a value that is complete.
WalkRoot == IF walk.goal = "inline" THEN top.node ELSE document

InPlace ==
    outcome = "parsing" =>
        /\ document \notin Sealed
        /\ currentTable \in Reach(heap, {document}) \ Sealed
        /\ walk.goal # "none" => walk.at \in Reach(heap, {WalkRoot}) \ Sealed

\* Every value of the document being parsed is below a loose one.
Held == outcome = "parsing" => document..used \subseteq Reach(heap, LiveRoots)

TreeInv ==
    /\ IndInv
    /\ OnePlace(heap)
    /\ NoCycle(heap)
    /\ HeaderItems(heap)
    /\ FramesFit
    /\ RootsApart
    /\ Loose
    /\ InPlace
    /\ Held

=============================================================================
