------------------------- MODULE TokenizerProperties -------------------------
(***************************************************************************)
(* What class Tokenizer and the conversion of values promise, compared      *)
(* with the tokens of TOML.                                                 *)
(***************************************************************************)
EXTENDS TokenizerInvariant, Conversion

TT == INSTANCE TomlTokens

Delimiters == {Space, Tab, LF, CR, Comma, Hash, CloseBrace, CloseBracket}
KeyDelimiters == {Space, Tab, Dot, Equals, CloseBracket}
StringTypes == {"SingleLineString", "MultiLineString"}

version == tokenizer.specification

\* The source of a token.
Source(i) == SubSeq(seen, tokens[i].begin.index + 1, tokens[i].end.index)

\* What the parser makes of a token.
Result(i) == IF types[i] \in ValueTypes THEN parseValue(types[i], tokens[i].text)
                                        ELSE Converted(tokens[i].text)

\* The token just delivered: every token is the newest one in some state.
Newest == {i \in Delivered : run.at = "created" /\ i = Len(types)}

\* Known disagreements, see README: what follows a date in the last place is
\* lost; underscores in a year or an hour are accepted, and a dot without
\* digits behind the seconds; a local date need not exist; an integer too
\* large is zero.  What follows a Z is left to the parser.
LosesTime(i) == types[i] = "LocalDate" /\ Len(tokens[i].text) > 10
IsTolerated(i) ==
    /\ types[i] \in DateTypes
    /\ \/ Underscore \in ToSet(Source(i))
       \/ \E j \in DOMAIN Source(i) :
             Source(i)[j] = Dot /\ (j = Len(Source(i)) \/ Source(i)[j + 1] \notin DecimalDigit)
NoSuchDate(i) == types[i] = "LocalDate" /\ Result(i).value = NullDate
TooLarge(i) == types[i] \in IntegerTypes /\ Result(i).value = <<0>> /\ (Source(i) \notin {<<Zero>>, <<Plus, Zero>>, <<Minus, Zero>>})

Disagreement(i) == LosesTime(i) \/ IsTolerated(i) \/ NoSuchDate(i) \/ TooLarge(i)

\* Every token delivered is a token of TOML, it means what TOML says, and a value
\* is separated from what follows.
DeliversToml ==
    \A i \in Newest :
        /\ ~Result(i).failed /\ ~Disagreement(i) =>
              TT!Meaning(types[i], version, Source(i)) = TT!Toml(Result(i).value)
        /\ i > 1 /\ types[i - 1] \in ValueTypes \ StringTypes =>
              Source(i)[1] \in Delimiters \/ Last(Source(i - 1)) \in {Space, Letter.Z, Letter.z}

\* The same without exceptions, as the documentation promises with "fully supports
\* TOML 1.0".
DeliversOnlyToml ==
    \A i \in Newest :
        ~Result(i).failed => TT!Meaning(types[i], version, Source(i)) = TT!Toml(Result(i).value)

-------------------------------------------------------------------------------
(* Nothing is rejected that is a token of TOML.                            *)

RECURSIVE CharactersFrom(_)
CharactersFrom(n) ==
    LET read == ReadOrThrow(document, n)
    IN  IF n = Len(document.units) \/ read.failed THEN <<>>
        ELSE <<read.char>> \o CharactersFrom(n + read.size)

\* The source from the first character of the token on.
Rest == LET all == CharactersFrom(0) IN SubSeq(all, startLocation.index + 1, Len(all))

\* A token that could stand here; a multi-line string is no key.
TypesHere ==
    {"Whitespace", "NewLine", "Comment", "NameSeperator", "Assignment", "BareKey"}
      \cup IF tokenizer.context = "Structure"
             THEN {"SingleLineString", "TableNameBegin", "TableNameEnd", "ArrayNameBegin", "ArrayNameEnd"}
             ELSE ValueTypes \cup {"ArrayBegin", "ArrayEnd", "TableBegin", "TableEnd", "TableSeperator"}

\* What has to follow the first n characters of rest.  Nothing but values, the
\* brackets behind them and white space can end a document (README: but the
\* code wants a new line behind a table name, too).
IsFollowed(type, rest, n) ==
    LET next == IF n < Len(rest) THEN rest[n + 1] ELSE -1
    IN  CASE type \in {"Whitespace", "NewLine", "ArrayEnd", "TableEnd"} -> TRUE
          [] type = "Comment"       -> next \in {-1, LF, CR}
          [] type = "BareKey"       -> next \in KeyDelimiters
          [] type \in StringTypes   -> next # rest[1]
          [] type \in {"TableNameBegin", "TableNameEnd"} -> next \notin {-1, rest[1]}
          [] type = "LocalDate"     -> /\ next \in Delimiters \cup {-1}
                                       /\ next = Space /\ n + 1 < Len(rest) => rest[n + 2] \in Delimiters
                                       /\ rest[n] = Space => next \notin DecimalDigit
          [] type \in ValueTypes    -> next \in Delimiters \cup {-1}
          [] OTHER                  -> next # -1

\* In a value, a bare key is read as a value as long as it looks like one.
LooksLikeValue(s) ==
    LET word == IF s[1] = Minus THEN Tail(s) ELSE s
    IN  (word # <<>> /\ word[1] \in DecimalDigit) \/ s \in FloatSpecials \cup BooleanValues

IsTokenHere(type, rest, n) ==
    /\ IsFollowed(type, rest, n)
    /\ TT!Meaning(type, version, SubSeq(rest, 1, n)).is
    /\ ~(type = "BareKey" /\ tokenizer.context = "Value" /\ LooksLikeValue(SubSeq(rest, 1, n)))

\* A limit has been exceeded.
LimitExceeded ==
    \/ run.at = "created"
    \/ run.at \in {"bareKey", "word"} /\ tokenSize > cBareKeyCharacterLimit
    \/ run.at = "content" /\ tokenSize > cStringCharacterLimit
    \/ run.at \in DigitLoops /\ tokenSize > cIntOrFloatCharacterLimit
    \/ run.at = "secondFraction" /\ run.count = 11

\* See README: a time without seconds cannot end a document.
EndsWithMinutes == run.at = "minute" /\ ~hasChar

RejectsNoToml ==
    /\ place = "syntax" /\ ~LimitExceeded /\ ~EndsWithMinutes =>
          LET rest == Rest
          IN  \A type \in TypesHere, n \in DOMAIN rest : ~IsTokenHere(type, rest, n)
    /\ \A i \in Newest : Result(i).failed => ~TT!Meaning(types[i], version, Source(i)).is

-------------------------------------------------------------------------------
\* The loops of the tokenizer end: it reads every document to its end or to an
\* error.
ReadsToTheEnd == <>(place \in {"end", "encoding", "syntax"})

FairTokenizerSpec == TokenizerSpec /\ WF_allVars(TokenizerNext)

===============================================================================
