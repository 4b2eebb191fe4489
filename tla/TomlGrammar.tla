---------------------------- MODULE TomlGrammar ----------------------------
(***************************************************************************)
(* The grammar of TOML 1.0 and 1.1 over the lexemes of module Syntax, the  *)
(* reference that the parser is compared with.  It follows the ABNF of the *)
(* TOML specification, which the documentation promises to implement, and  *)
(* knows nothing of tokens and contexts.                                   *)
(*                                                                         *)
(* A document is recognised lexeme by lexeme.  What has been read is       *)
(* represented by the set of its possible continuations, each a sequence   *)
(* of symbols that are still to come.                                      *)
(***************************************************************************)
EXTENDS Sequences

\* The symbols with productions in each version; every other symbol is a lexeme.
Productions == [version \in {"1.0", "1.1"} |->
    [Toml       |-> {<<"Expression", "Lines">>},
     Lines      |-> {<<>>, <<"newline", "Expression", "Lines">>},
     Expression |-> {<<"Ws">>, <<"Ws", "KeyValue", "Ws">>, <<"Ws", "Table", "Ws">>},
     Table      |-> {<<"[", "Ws", "Key", "Ws", "]">>,
                     <<"[", "[", "Ws", "Key", "Ws", "]", "]">>},
     KeyValue   |-> {<<"Key", "Ws", "=", "Ws", "Value">>},
     Key        |-> {<<"SimpleKey", "DottedKey">>},
     DottedKey  |-> {<<>>, <<"Ws", ".", "Ws", "SimpleKey", "DottedKey">>},
     SimpleKey  |-> {<<"word">>, <<"integer">>, <<"literal">>, <<"string">>},
     Value      |-> {<<"string">>, <<"text">>, <<"literal">>, <<"integer">>,
                     <<"integer", ".", "integer">>,
                     <<"[", "Items", "]">>,
                     IF version = "1.1" THEN <<"{", "Entries", "}">>
                                        ELSE <<"{", "EntriesOf10", "}">>},
     Items      |-> {<<"WsLines">>, <<"WsLines", "Value", "WsLines">>,
                     <<"WsLines", "Value", "WsLines", ",", "Items">>},
     Entries    |-> {<<"WsLines">>, <<"WsLines", "KeyValue", "WsLines">>,
                     <<"WsLines", "KeyValue", "WsLines", ",", "Entries">>},
     EntriesOf10 |-> {<<"Ws">>, <<"FirstEntries">>},
     FirstEntries |-> {<<"Ws", "KeyValue", "Ws">>,
                       <<"Ws", "KeyValue", "Ws", ",", "FirstEntries">>},
     Ws         |-> {<<>>, <<"space">>},
     WsLines    |-> {<<>>, <<"space", "WsLines">>, <<"newline", "WsLines">>}]]

\* The continuations that rest stands for, up to their first lexeme.
Expansions[version \in {"1.0", "1.1"}, rest \in Seq(STRING)] ==
    IF rest = <<>> \/ Head(rest) \notin DOMAIN Productions[version] THEN {rest}
    ELSE UNION {Expansions[version, body \o Tail(rest)] :
                body \in Productions[version][Head(rest)]}

Start == {<<"Toml">>}

Expanded(version, viable) == UNION {Expansions[version, v] : v \in viable}

\* The continuations left when l is read.
Advance(version, viable, l) ==
    {Tail(rest) : rest \in {r \in Expanded(version, viable) : r # <<>> /\ Head(r) = l}}

\* What has been read is a whole document.
Complete(version, viable) == <<>> \in Expanded(version, viable)

=============================================================================
