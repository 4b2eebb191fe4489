----------------------------- MODULE TableRules -----------------------------
(***************************************************************************)
(* What a parser of TOML owes its user about tables: which statements may  *)
(* follow which, and what document they describe.                          *)
(*                                                                         *)
(* A document is seen as the set of absolute paths it defines, each with   *)
(* the way it was defined.  A path is a sequence of keys; after a key that *)
(* names an array of tables comes the number of an element, as a sequence  *)
(* of its own.  Values are opaque: what is inside an array or an inline    *)
(* table is no part of this view, and nothing can be defined below a value. *)
(*                                                                         *)
(* Every statement is judged as a whole, against the document before it:   *)
(* it either takes effect completely or ends the parse with a conflict.    *)
(***************************************************************************)
EXTENDS Naturals, Sequences, FiniteSets

CONSTANTS Statement     \* records [goal, keys]: the headers and assignments

VARIABLES
    doc,        \* from the paths defined so far to how they were defined
    section,    \* the path of the table assignments go to
    pending,    \* the statement being judged, or None
    result      \* as in Document

vars == <<doc, section, pending, result>>

None == [goal |-> "none", keys |-> <<>>]

Empty == [path \in {} |-> "table"]

Init == doc = Empty /\ section = <<>> /\ pending = None /\ result = "idle"

----------------------------------------------------------------------------
Front(seq) == SubSeq(seq, 1, Len(seq) - 1)
Last(seq) == seq[Len(seq)]

DefinedAs(d, path, kinds) == path \in DOMAIN d /\ d[path] \in kinds

\* The number of elements of the array of tables at a path.
Elements(d, path) ==
    Cardinality({p \in DOMAIN d : Len(p) = Len(path) + 1 /\ Front(p) = path})

\* A header names tables from the root; the name of an array of tables stands
\* for its last element.
Resolve(d, keys) ==
    LET At[n \in 0..Len(keys)] ==
          IF n = 0 THEN <<>>
          ELSE LET path == Append(At[n - 1], keys[n])
               IN  IF DefinedAs(d, path, {"tables"})
                     THEN Append(path, <<Elements(d, path)>>)
                     ELSE path
    IN  At[Len(keys)]

\* The table that gets the last key of a statement.
Parent(d, base, s) ==
    IF s.goal = "assign" THEN base \o Front(s.keys) ELSE Resolve(d, Front(s.keys))

\* The tables needed on the way from the table at `from' to the one at `path'.
Beyond(from, path) == {SubSeq(path, 1, n) : n \in (Len(from) + 1)..Len(path)}

OnTheWay(base, s, parent) ==
    Beyond(IF s.goal = "assign" THEN base ELSE <<>>, parent)

Target(s, parent) == Append(parent, Last(s.keys))

\* How a table on the way, and the target itself, may be defined already.
MayPass(goal) ==
    IF goal = "assign" THEN {"dotted"} ELSE {"table", "implied", "dotted", "tables"}

MayExistAs(goal) ==
    CASE goal = "assign"     -> {}
      [] goal = "table"      -> {"implied"}
      [] goal = "tableArray" -> {"tables"}

Allowed(d, base, s) ==
    LET parent == Parent(d, base, s)
    IN  /\ \A p \in OnTheWay(base, s, parent) \cap DOMAIN d : d[p] \in MayPass(s.goal)
        /\ Target(s, parent) \in DOMAIN d => d[Target(s, parent)] \in MayExistAs(s.goal)

----------------------------------------------------------------------------
\* d with the missing paths of a set defined as a kind.
With(paths, kind, d) ==
    [p \in DOMAIN d \cup paths |-> IF p \in DOMAIN d THEN d[p] ELSE kind]

Without(d, path) == [p \in DOMAIN d \ {path} |-> d[p]]

\* The document and the section after an allowed statement.
AfterAssign(d, base, s) ==
    LET parent == Parent(d, base, s)
    IN  [doc |-> With({Target(s, parent)}, "value",
                   With(OnTheWay(base, s, parent), "dotted", d)),
         section |-> base]

AfterTable(d, base, s) ==
    LET parent == Parent(d, base, s)
        target == Target(s, parent)
    IN  [doc |-> With({target}, "table",
                   With(OnTheWay(base, s, parent), "implied", Without(d, target))),
         section |-> target]

AfterElement(d, base, s) ==
    LET parent == Parent(d, base, s)
        target == Target(s, parent)
        element == Append(target, <<Elements(d, target) + 1>>)
    IN  [doc |-> With({element}, "table", With({target}, "tables",
                   With(OnTheWay(base, s, parent), "implied", d))),
         section |-> element]

After(d, base, s) ==
    CASE s.goal = "assign"     -> AfterAssign(d, base, s)
      [] s.goal = "table"      -> AfterTable(d, base, s)
      [] s.goal = "tableArray" -> AfterElement(d, base, s)

----------------------------------------------------------------------------
Begin ==
    /\ result # "parsing"
    /\ result' = "parsing"
    /\ doc' = With({<<>>}, "table", Empty)
    /\ section' = <<>>
    /\ UNCHANGED pending

Announce(s) ==
    /\ result = "parsing"
    /\ pending = None
    /\ pending' = s
    /\ UNCHANGED <<doc, section, result>>

Accept ==
    /\ result = "parsing"
    /\ pending # None
    /\ pending' = None
    /\ UNCHANGED result
    /\ Allowed(doc, section, pending)
    /\ [doc |-> doc', section |-> section'] = After(doc, section, pending)

\* A statement that is not allowed, and only such a statement, is a conflict.
Conflict ==
    /\ result = "parsing"
    /\ pending # None
    /\ result' = "conflict"
    /\ ~Allowed(doc, section, pending)
    /\ doc' = Empty /\ section' = <<>> /\ pending' = None

\* Conflicts inside a value, and everything that is no question of tables.
Fail ==
    /\ result = "parsing"
    /\ result' \in {"grammar", "inlineConflict"}
    /\ doc' = Empty /\ section' = <<>> /\ pending' = None

\* The document is delivered.
End ==
    /\ result = "parsing"
    /\ result' = "ok"
    /\ pending = None
    /\ doc' = Empty /\ section' = <<>>
    /\ UNCHANGED pending

Next ==
    \/ Begin \/ End \/ Fail \/ Conflict \/ Accept
    \/ \E s \in Statement : Announce(s)

Spec == Init /\ [][Next]_vars

=============================================================================
