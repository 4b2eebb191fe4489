------------------------- MODULE ParserDataProperties -------------------------
(***************************************************************************)
(* What the whole of the parser promises: the document it returns is the   *)
(* one that was written.                                                   *)
(***************************************************************************)
EXTENDS ParserDataInvariant, WrittenDocuments

Ended == outcome \notin {"idle", "parsing"}

\* The values of a tree by their paths.
RECURSIVE NodesBelow(_, _)
NodesBelow(path, n) ==
    LET names == {k \in KeyText : heap[n].entries[k] # Doc!Null}
    IN  {<<path, n>>}
          \cup UNION {NodesBelow(Append(path, k), heap[n].entries[k]) : k \in names}
          \cup UNION {NodesBelow(Append(path, <<i>>), heap[n].items[i]) : i \in DOMAIN heap[n].items}

Root == CHOOSE n \in returned : TRUE

Meaning(n) ==
    CASE heap[n].type = "Table" -> <<"table">>
      [] heap[n].type = "Array" -> <<"array">>
      [] OTHER                  -> contents[n]

\* Whatever its layout and the spelling of its keys and values, a document is read
\* as the values that were written, at their paths; it is rejected if and only if it
\* contradicts itself, nests too deep, or spells what is no value (ParserData.cpp:41-529).
ReadAs(written) ==
    /\ outcome = written.fault.outcome
    /\ outcome = "ok" =>
         {<<p[1], Meaning(p[2])>> : p \in NodesBelow(<<>>, Root)}
           = {<<path, written.parts[path].means>> : path \in DOMAIN written.parts}

ReadsWhatIsWritten == Ended => On(Writing(document.written), ReadAs)

\* Every value and every table is located where it was written, which for a value
\* that has keys is where they begin; a table that was not written itself is inside
\* the statement that made it necessary; and an error is inside the statement or
\* entry, or at the scalar or bracket, that is wrong (Value::locationRange,
\* Error::location).
Between(l, text, from, upto) == l.index \in from..upto /\ l = LocationOf(text, l.index)

LocatedAs(written) ==
    /\ outcome = "ok" =>
         \A p \in NodesBelow(<<>>, Root) :
             LET part == written.parts[p[1]]
             IN  /\ p[1] \in DOMAIN written.parts
                 /\ Between(ranges[p[2]].begin, written.text, part.from, part.upto)
                 /\ Between(ranges[p[2]].end, written.text, ranges[p[2]].begin.index, part.end)
    /\ outcome # "ok" =>
         Between(errorAt, written.text, written.fault.from, written.fault.upto)

LocatedWhereWritten == Ended => On(Writing(document.written), LocatedAs)

===============================================================================
