--------------------------- MODULE WrittenDocuments ---------------------------
(***************************************************************************)
(* Reference, not code: documents are written here, from statements to     *)
(* characters, and it is noted what each part means and where it is.       *)
(*                                                                         *)
(* A key is its text and one of its spellings, a scalar its content and    *)
(* one of its spellings.  What stands between the words of a document is   *)
(* its layout.  The rules for tables (TableRules) say which statement is   *)
(* in conflict with the ones before.                                       *)
(***************************************************************************)
EXTENDS Integers, Sequences, SequencesExt, FiniteSetsExt, Characters

CONSTANTS
    Layouts,            \* by name: the characters in a line, after a statement, in an array
    DeepestNesting      \* how deep arrays and inline tables may be nested

Tables == INSTANCE TableRules WITH
    Statement <- {}, doc <- <<>>, section <- <<>>, pending <- <<>>, result <- "idle"

-------------------------------------------------------------------------------
(* Documents                                                               *)

K(text, spelled) == [text |-> text, spelled |-> spelled]
Plain(text) == K(text, text)

\* A content is its type and value; NoContent is the one of a scalar that is spelled
\* as a value but is none, as 2001-13-01T00:00:00.
NoContent == <<>>
Scalar(content, spelled) == [kind |-> "scalar", content |-> content, spelled |-> spelled]
ArrayOf(items) == [kind |-> "array", items |-> items]
TableOf(entries) == [kind |-> "table", entries |-> entries]
Entry(keys, value) == [keys |-> keys, value |-> value]

Assign(keys, value) == [goal |-> "assign", keys |-> keys, value |-> value]
Header(goal, keys) == [goal |-> goal, keys |-> keys]

\* Words no document has, of which the one behind the first n characters is wrong.
Wrong(words, n) == [goal |-> "wrong", words |-> words, n |-> n]

Texts(keys) == [i \in DOMAIN keys |-> keys[i].text]

Means(value) == IF value.kind = "scalar" THEN value.content ELSE <<value.kind>>

-------------------------------------------------------------------------------
(* What is written so far: the characters, the parts by their paths, and    *)
(* the first fault.  A part begins at one of the characters from..upto, and *)
(* ends at `end' at the latest.                                            *)

NoFault == [outcome |-> "ok", from |-> 0, upto |-> 0]

Blank(layout) ==
    [text |-> <<>>, layout |-> Layouts[layout], fault |-> NoFault, section |-> <<>>,
     doc |-> [path \in {<<>>} |-> "table"],
     parts |-> [path \in {<<>>} |-> [means |-> <<"table">>, from |-> 0, upto |-> 0, end |-> 0]]]

Here(w) == Len(w.text)
Put(w, chars) == [w EXCEPT !.text = @ \o chars]

Fault(w, outcome, from, upto) ==
    IF w.fault # NoFault THEN w
    ELSE [w EXCEPT !.fault = [outcome |-> outcome, from |-> from, upto |-> upto]]

\* An operator applied to a writing, which TLC evaluates once and not for every use.
On(w, Op(_)) == CHOOSE r \in {Op(v) : v \in {w}} : TRUE

\* What an operator makes of a writing for 1, 2, ..., n.
WriteAll(w, n, Op(_, _)) ==
    FoldLeft(LAMBDA v, i : On(v, LAMBDA u : Op(u, i)), w, [i \in 1..n |-> i])

\* A part replaces an earlier one at the same path.
Note(w, path, part) ==
    On(w, LAMBDA v :
        [v EXCEPT !.parts = [p \in DOMAIN @ \cup {path} |-> IF p = path THEN part ELSE v.parts[p]]])

\* Tables that are not written themselves, between two characters; the ones that
\* are there already stay.
Imply(w, paths, from) ==
    LET Part(v) == [means |-> <<"table">>, from |-> from, upto |-> Here(v), end |-> Here(v)]
    IN  On(w, LAMBDA v :
            [v EXCEPT !.parts = [p \in DOMAIN @ \cup paths |->
                                    IF p \in DOMAIN v.parts THEN v.parts[p] ELSE Part(v)]])

Key(w, keys, i) ==
    Put(IF i = 1 THEN w ELSE Put(w, w.layout.gap \o <<Dot>> \o w.layout.gap), keys[i].spelled)

WriteKeys(w, keys) == WriteAll(w, Len(keys), LAMBDA v, i : Key(v, keys, i))

-------------------------------------------------------------------------------
(* Values                                                                  *)

RECURSIVE WriteValue(_, _, _, _)

\* Keys, the assignment operator, and the value: a part that begins with its keys.
WriteAssignment(w, path, entry, depth) ==
    LET target == path \o Texts(entry.keys)
        Noted(v) == Note(v, target, [means |-> Means(entry.value), from |-> Here(w),
                                     upto |-> Here(w), end |-> Here(v)])
        operator == Put(WriteKeys(w, entry.keys), w.layout.gap \o <<Equals>> \o w.layout.gap)
        written == On(operator, LAMBDA v : WriteValue(v, target, entry.value, depth))
    IN  Imply(On(written, Noted), {SubSeq(target, 1, n) : n \in Len(path)..(Len(target) - 1)}, Here(w))

Behind(w, i, chars) == IF i = 1 THEN w ELSE Put(w, <<Comma>> \o chars)

WriteItem(w, path, items, i, depth) ==
    LET before == Behind(w, i, w.layout.inside)
        target == Append(path, <<i>>)
        Noted(v) == Note(v, target, [means |-> Means(items[i]), from |-> Here(before),
                                     upto |-> Here(before), end |-> Here(v)])
    IN  On(On(before, LAMBDA v : WriteValue(v, target, items[i], depth)), Noted)

\* Two entries clash if one would have to be inside the other.
Clash(entries, i) ==
    \E j \in 1..(i - 1) :
        LET first == Texts(entries[j].keys)
            second == Texts(entries[i].keys)
        IN  IsPrefix(first, second) \/ IsPrefix(second, first)

WriteEntry(w, path, entries, i, depth) ==
    LET before == Behind(w, i, w.layout.gap)
        Judged(v) == IF Clash(entries, i) THEN Fault(v, "inlineConflict", Here(before), Here(v)) ELSE v
    IN  On(On(before, LAMBDA v : WriteAssignment(v, path, entries[i], depth)), Judged)

\* One level deeper than allowed is an error at the character behind the bracket.
Open(w, bracket, depth) ==
    LET opened == Put(w, <<bracket>>)
    IN  IF depth > DeepestNesting THEN Fault(opened, "grammar", Here(opened), Here(opened)) ELSE opened

WriteValue(w, path, value, depth) ==
    CASE value.kind = "scalar" ->
            Put(IF value.content = NoContent THEN Fault(w, "grammar", Here(w), Here(w)) ELSE w, value.spelled)
      [] value.kind = "array" ->
            Put(WriteAll(Put(Open(w, OpenBracket, depth + 1), w.layout.inside), Len(value.items),
                         LAMBDA v, i : WriteItem(v, path, value.items, i, depth + 1)),
                w.layout.inside \o <<CloseBracket>>)
      [] value.kind = "table" ->
            Put(WriteAll(Put(Open(w, OpenBrace, depth + 1), w.layout.gap), Len(value.entries),
                         LAMBDA v, i : WriteEntry(v, path, value.entries, i, depth + 1)),
                w.layout.gap \o <<CloseBrace>>)

-------------------------------------------------------------------------------
(* Statements                                                              *)

\* A header: its table, and the array of tables if this is its first element, are
\* where the keys are.
WriteHeader(w, s, after) ==
    LET brackets == IF s.goal = "table" THEN 1 ELSE 2
        opened == Put(w, [i \in 1..brackets |-> OpenBracket] \o w.layout.gap)
        written == WriteKeys(opened, s.keys)
        part == [means |-> <<"table">>, from |-> Here(opened), upto |-> Here(opened), end |-> Here(written)]
        closed == Put(written, w.layout.gap \o [i \in 1..brackets |-> CloseBracket])
        array == Front(after.section)
        noted == IF s.goal = "table" \/ array \in DOMAIN w.parts
                   THEN closed ELSE Note(closed, array, [part EXCEPT !.means = <<"array">>])
    IN  Imply(Note(noted, after.section, part), DOMAIN after.doc, Here(w))

WriteWrong(w, s) == Put(Fault(w, "grammar", Here(w) + s.n, Here(w) + s.n), s.words)

WriteRight(w, s) ==
    LET judged == [goal |-> s.goal, keys |-> Texts(s.keys)]
        Written(after) ==
            IF s.goal = "assign" THEN WriteAssignment(w, w.section, s, 0) ELSE WriteHeader(w, s, after)
        Judged(v, after) ==
            IF Tables!Allowed(w.doc, w.section, judged)
              THEN [v EXCEPT !.doc = after.doc, !.section = after.section]
              ELSE Fault(v, "conflict", Here(w), Here(v))
        Ended(after) == On(Written(after), LAMBDA v : Judged(v, after))
    IN  Put(On(Tables!After(w.doc, w.section, judged), Ended), w.layout.after)

WriteStatement(w, s) == IF s.goal = "wrong" THEN WriteWrong(w, s) ELSE WriteRight(w, s)

\* A document is a layout and statements.
Writing(written) ==
    LET Closed(w) == [w EXCEPT !.parts[<<>>].end = Here(w)]
    IN  On(WriteAll(Blank(written.layout), Len(written.statements),
                    LAMBDA w, i : WriteStatement(w, written.statements[i])), Closed)

\* The location of a character, counted in the text.
LocationOf(text, index) ==
    LET lineFeeds == {i \in 1..index : text[i] = LF}
    IN  [index |-> index, line |-> Cardinality(lineFeeds) + 1,
         column |-> index - (IF lineFeeds = {} THEN 0 ELSE Max(lineFeeds)) + 1]

===============================================================================
