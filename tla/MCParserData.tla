----------------------------- MODULE MCParserData -----------------------------
(***************************************************************************)
(* Documents for TLC, in three families: statements in every order, values *)
(* in all their spellings, and values inside of values.  Each is written   *)
(* in several layouts.                                                     *)
(***************************************************************************)
EXTENDS ParserDataProperties, CharReaderProperties, AsciiTexts

\* "tight": nothing but the words; "wide": white space; "commented": comments behind
\* statements and inside of arrays, and line breaks of two characters.
LayoutsWritten ==
    [tight |-> [gap |-> <<>>, after |-> <<LF>>, inside |-> <<>>],
     wide |-> [gap |-> <<Space>>, after |-> <<Tab, LF, LF, Space>>, inside |-> <<LF, Space>>],
     commented |-> [gap |-> <<Tab>>,
                    after |-> <<Space, Hash, Space, OpenBracket, CloseBracket, Quote, CR, LF>>,
                    inside |-> <<Hash, CloseBracket, Comma, OpenBracket, CR, LF>>]]

a == Plain(Code("a"))
b == Plain(Code("b"))
quoted == K(Code("a"), Code("\"\\u0061\""))
dotted == K(Code("a.b"), Code("'a.b'"))
number == Plain(Code("-1"))

Keys == {a, b, dotted, number}

Integer(n, spelled) == Scalar(<<"Integer", <<n>>>>, Code(spelled))
One == Integer(1, "1")
String(chars, spelled) == Scalar(<<"String", chars>>, Code(spelled))

\* Statements in every order.
Names == {<<a>>, <<quoted, b>>, <<dotted>>}

Statements ==
    {Header(goal, name) : goal \in {"table", "tableArray"}, name \in Names}
      \cup {Assign(name, One) : name \in Names}
      \cup {Assign(<<a>>, TableOf(<<Entry(<<b>>, One)>>))}

InOrder == BoundedSeq(Statements, 3)

\* Scalars of all types, and what is nearly one.
Scalars ==
    {One, Integer(-10, "-1_0"), Integer(31, "0x1F"), Integer(-128, "-128"), Integer(5, "0b1_01"), Integer(8, "0o10"),
     Scalar(NoContent, Code("01")), Scalar(NoContent, Code("-00")),
     Scalar(<<"Float", Code("-1.5e3")>>, Code("-1.5e3")), Scalar(<<"Float", NaN>>, Code("+nan")),
     Scalar(NoContent, Code("03.5")),
     Scalar(<<"Boolean", <<1>>>>, Code("true")), Scalar(<<"Boolean", <<0>>>>, Code("false")),
     Scalar(<<"Date", <<2000, 2, 29>>>>, Code("2000-02-29")),
     Scalar(<<"Time", <<7, 32, 0, 250>>>>, Code("07:32:00.25")), Scalar(NoContent, Code("24:00:00")),
     Scalar(<<"DateTime", <<2000, 2, 29, 7, 32, 5, 0>>>>, Code("2000-02-29 07:32:05")),
     Scalar(<<"DateTime", <<2000, 2, 29, 7, 32, 5, 0, -90>>>>, Code("2000-02-29T07:32:05-01:30")),
     Scalar(NoContent, Code("1900-02-29T07:32:05Z")),
     String(<<>>, "''"), String(Code("a\"#"), "'a\"#'"), String(<<LF, Quote, 233>>, "\"\\n\\\"\\u00e9\""),
     String(Code("]} #"), "\"]} #\""),
     Scalar(<<"String", <<233, 8364, 128512>>>>, <<Quote, 233, 8364, 128512, Quote>>),
     Scalar(<<"String", Code("a") \o <<LF>> \o Code("b'")>>,
            Code("'''") \o <<LF>> \o Code("a") \o <<LF>> \o Code("b''''")),
     Scalar(<<"String", Code("\"a b")>>, Code("\"\"\"\"a \\") \o <<LF, LF, Space>> \o Code("b\"\"\""))}

Alone ==
    {<<Assign(<<a>>, v), Assign(<<b>>, One)>> : v \in Scalars}
      \cup {<<Assign(<<a>>, ArrayOf(<<v, v>>))>> : v \in Scalars}

\* Values inside of values.
Small == {One, ArrayOf(<<>>), TableOf(<<>>), ArrayOf(<<One>>), TableOf(<<Entry(<<b>>, One)>>)}

EntryKeys == {<<a>>, <<quoted>>, <<a, b>>, <<dotted>>, <<number>>, <<a, b, a>>}

Inline ==
    {TableOf(<<Entry(k, v), Entry(l, One)>>) : k, l \in EntryKeys, v \in Small}

Lists ==
    {ArrayOf(<<v, w>>) : v, w \in Small \cup {ArrayOf(<<TableOf(<<>>)>>), TableOf(<<Entry(<<a>>, ArrayOf(<<>>))>>)}}

Nested ==
    {<<Assign(<<a, b>>, v), Assign(<<a, number>>, v)>> : v \in Lists}
      \cup {<<Header("tableArray", <<a>>), Assign(<<b>>, v)>> : v \in Inline}

\* Tokens where the parser does not expect them.
WrongWords ==
    {Wrong(Code("a=1 b=2"), 4), Wrong(Code("=1"), 0), Wrong(Code("a.=1"), 2), Wrong(Code("a b=1"), 2),
     Wrong(Code("a=]"), 2), Wrong(Code("a=[1 2]"), 5), Wrong(Code("a={b=1 c=1}"), 7), Wrong(Code("a={b=1]"), 6),
     Wrong(Code("a={'''b'''=1}"), 3), Wrong(Code("a={b b=1}"), 5), Wrong(Code("[a b]"), 3), Wrong(Code("[]") \o <<LF>>, 1),
     Wrong(Code("[a]b=1"), 3), Wrong(Code("[[a].b"), 3), Wrong(Code("[[a]]#") \o <<LF>> \o Code(".=1"), 7),
     Wrong(Code("a=[1") \o <<LF>>, 5), Wrong(Code("a={b=1"), 6)}

Misspelled == {<<Assign(<<b, number>>, One), w>> : w \in WrongWords}

As(layouts, encodings, statements) ==
    {[encoding |-> e, written |-> [layout |-> l, statements |-> s],
      units |-> Encoded(e, Writing([layout |-> l, statements |-> s]).text)] :
        e \in encodings, l \in layouts, s \in statements}

AllWritten ==
    UNION {As({"tight"}, {"UTF-16"}, InOrder),
           As({"tight", "wide", "commented"}, {"UTF-8", "UTF-16"}, Alone),
           As({"wide"}, {"UTF-16"}, Nested),
           As({"tight", "commented"}, {"UTF-16"}, Misspelled)}

KeysWritten == {k.text : k \in Keys}

===============================================================================
