----------------------------- MODULE MCDocument -----------------------------
(***************************************************************************)
(* Instances of Document for TLC: two keys, all paths up to a length.      *)
(***************************************************************************)
EXTENDS DocumentTree, DocumentRefinement, TLC

CONSTANTS MaxPath   \* bound: number of keys in a path

MCPath == UNION {[1..n -> Key] : n \in 1..MaxPath}

\* The same with fewer of the long ones.  Key names of different levels have
\* nothing to do with each other, so little is lost.
MCThinPath == {p \in MCPath : Len(p) > 2 => p[1] = p[2]}

\* The smallest such set: every path repeats one key.
MCRepeatedPath == {p \in MCPath : \A i \in DOMAIN p : p[i] = p[1]}

\* The keys are interchangeable.
KeySymmetry == Permutations(Key)

\* One document only: the root of the first is node 1.
FirstDocument == document \in {Null, 1} /\ (outcome = "parsing" => document = 1)

=============================================================================
