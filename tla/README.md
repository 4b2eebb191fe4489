# Verification of erbsland-qt-toml

TLA+ models of the TOML parser *erbsland-qt-toml*, the configurations that check them with TLC, and
proofs checked with TLAPS. `PROJECT.json` is the machine-readable index: components, runs, mutants,
the lines of source behind every definition, findings, hazards and theorems.

Sources are named relative to `src/src/erbsland/qt/toml/`.

## 1. The system

The library is a sequential, single-threaded parser. Its difficulty is not concurrency but the number
of places that have to agree without telling each other: a tokenizer one character ahead of its
tokens, a parser one token behind the tokenizer, a tree whose nodes remember how they came about
because later statements depend on it, and one object that is used for one document after another.

| Component | Source | State | Operations |
|---|---|---|---|
| Input streams | `InputStream`, `impl/TextStreamInputStream`, `StringInputStream`, `DataInputStream`, `FileInputStream` | position in the data | `atEnd`, `readOrThrow` (decode one character) |
| Character reader | `impl/CharReader` | `_char`, `_hasChar`, `_token`, `_location`, `_startLocation` | `readNextChar`, `skipChar`, `consumeChar`, `skipNewLine`, `takeToken`, ... |
| Tokenizer | `impl/Tokenizer`, `Token`, `TokenType` | `_tokenContext`, `_valueNestingCount`, string mode and sign | `startWithStream`, `read`, `stop` |
| Recursive descent | `impl/ParserData` | `_token`, the call stack | `parseDocument`, `parseTableName`, `parseValue`, ... |
| Document building | `impl/ParserData` | `_document`, `_currentTable` | `createTable`, `createArrayOfTables`, `createIntermediateNameElements`, `assignValue` |
| Value tree | `Value`, `ValueIterator` | type, source, entries or items, location range of each value | `create*`, `setValue`, `addValue`, `makeExplicit`, `clone`, key paths, typed access, iteration |
| Parser interface and errors | `Parser`, `Error`, `impl/ParserData::parseStream` | `_lastError`, `_document`, the stream | eight parse functions, `lastError` |
| Conversion of values | `impl/ParserData::parseIntegerValue` to `convertTime` | none | text of a token to a value |
| Locations | `Location`, `LocationRange` | index, line, column | `increment`, comparison |
| Conversion to JSON, QVariant and text; names of enumerations | `Value.cpp`, `*Type.cpp` | none | recursion through tables and arrays, formatting |

How they interact: class `Parser` creates a stream and calls `ParserData::parseStream`. That starts
the tokenizer with the stream, creates the root table and reads token by token; the tokenizer pulls
characters through the character reader, the reader pulls them out of the stream. All calls go down;
nothing calls back. What comes up is a token, or an exception that leaves through all of them:
`parseStream` stores it, cleans up and rethrows, and the `noexcept` functions of `Parser` turn it
into a null pointer.

What is hard here, and what makes each component correct:

- *Streams and reader*: the characters delivered are the ones encoded; corrupted data is rejected
  where it is corrupted; the end is neither missed nor found early although it is told from a null
  character by asking a stream that is one character ahead; every character belongs to one token.
- *Tokenizer and descent*: the tokenizer decides by its own count of brackets whether it reads a name
  or a value, the parser by its call stack. They must agree for every document, rejected ones
  included. The tokenizer's limit on nesting is the only bound on the parser's recursion. Together
  they must accept TOML, all of it, and nothing else.
- *Document building*: whether a header or a dotted key is allowed depends on how earlier statements
  made the tables in its way. No table may be defined twice, nothing overwritten, no value lost, no
  complete value changed; what is built must be what the rules of TOML describe.
- *Value tree*: `setValue` replaces and `addValue` ignores silently; the checks are all upstream. Values
  are shared pointers, so a copy that is not a copy, or a document the parser still knows, shows only
  when one of the two is changed. A key path must find what was written and nothing else.
- *The whole*: the document returned is the one that was written, in every layout and spelling; it is
  rejected if and only if it is wrong; and values and errors are located where they are.
- *Parser interface*: no call may leave something behind for the next one, documents already returned
  included, and `lastError` must be the reason for a null pointer.

There is no concurrency, no persistence and no timeout, so there is nothing to say about
interleavings of threads, crashes or retries. What comes nearest is one object used again after a
failure, and that is modelled in `Document`, `Syntax` and `ParserSession`.

## 2. The modules

| Module | Models |
|---|---|
| `ValueTree` | class `Value` as a heap of cells: operators that take and return the heap |
| `Document` | the tree-building half of `ParserData`, EXTENDS `ValueTree` |
| `DocumentProperties` | its properties |
| `DocumentInvariant`, `DocumentTree` | its two inductive invariants: what walks and headers rely on, and why the values are a tree |
| `TableRules` | *reference, not code*: the rules of TOML for tables, as an abstract specification over absolute paths |
| `DocumentRefinement` | the refinement mapping from `Document` to `TableRules` |
| `ValueAccess` | the rest of class `Value` and `ValueIterator`: key paths, copies, conversion, iteration, EXTENDS `ValueTree` |
| `DocumentUse` | composes `Document` with a program that uses, copies and changes the documents between parses |
| `DocumentUseProperties` | what such a program may rely on |
| `DocumentUseInvariant` | its inductive invariant: why a program that changes its documents does not disturb the parser |
| `DocumentProofs` | proofs about `Document` from the one and from the other |
| `DocumentUseProofs` | proofs about `DocumentUse` |
| `KeyPathProofs` | the proof that key paths find what was written, EXTENDS `DocumentUseProofs` |
| `Syntax` | the tokenizer's contexts and the recursive descent of `ParserData`, token by token |
| `SyntaxProperties` | agreement of the two; the inductive invariant |
| `TomlGrammar` | *reference, not code*: the grammar of TOML 1.0 and 1.1 as a set of viable continuations |
| `SyntaxAgainstToml` | composes `Syntax` with `TomlGrammar`, which reads the same document |
| `SyntaxProofs` | proofs about `Syntax` |
| `Decoding` | the decoders of UTF-8 and UTF-16, as operators |
| `Characters` | the characters of TOML by code point |
| `CharReader` | class `CharReader` on top of `Decoding`, for any tokenizer |
| `CharReaderProperties` | a second, independent definition of the encodings; the properties; the inductive invariant |
| `CharReaderProofs` | proofs about `CharReader` |
| `Tokenizer` | class `Tokenizer` character by character, EXTENDS `CharReader` |
| `Conversion` | `ParserData::parseValue` for scalars, as operators on the text of a token |
| `TomlTokens` | *reference, not code*: which sequences of characters are a token of TOML, and what it means |
| `TokenizerInvariant` | what `Tokenizer` owes to `CharReader` and to its limits, and its inductive invariant |
| `TokenizerProofs` | proofs about `Tokenizer` |
| `TokenizerProperties` | composes `Tokenizer` and `Conversion`, and compares them with `TomlTokens` |
| `ParserData` | the whole of `ParserData` from characters to values: composes `Tokenizer`, `Conversion`, `Syntax` and `Document`, and adds the texts of keys, contents, ranges and error locations |
| `ParserDataInvariant` | what its parts rely on in each other; its inductive invariant |
| `ParserDataProofs` | proofs about `ParserData`: the theorems about the parts hold for the whole |
| `WrittenDocuments` | *reference, not code*: writes a document from statements to characters, noting what each part means and where it is |
| `ParserDataProperties` | compares `ParserData` with `WrittenDocuments` |
| `ParserSession` | class `Parser`: one call after another, and how each of them fails |
| `ParserSessionProofs` | proofs about `ParserSession` |
| `MCDocument`, `MCDocumentUse`, `MCSyntax`, `MCCharReader`, `MCTokenizer`, `MCParserData`, `AsciiTexts` | the constants for TLC |

Operators named `Action_Variant` (`AssignValue_Replacing`, `Start_KeepsNesting`, ...) are deliberately
faulty variants of the definition they precede. No specification uses them; `PROJECT.json` lists which
property is violated when one of them takes the place of the original. That shows that the property
says something about the code.

### Value tree and document

A value is a cell of a heap, `Null` is a null pointer. `heap`, `document`, `currentTable` are what they
are called in the code; `frames` is the recursion of `parseValue`; `walk` is the activation of
`createIntermediateNameElements`, which makes one step for one key, because the tables it creates on
the way stay when a later key turns out to be in conflict. Statements are abstracted to their path of
keys and the shape of their value; both are chosen by the environment. Any error of the token level is
`Abort`. The type of a scalar is left out: the tree does not depend on it. `sections`, `birth` and
`returned` are histories that only the properties read.

`TableRules` judges a statement as a whole and knows neither nodes nor source tags, only the absolute
paths defined so far and how. The refinement mapping hides the tables an unfinished walk has created;
they become visible when the statement takes effect, and a rejected statement ends the parse.

### Use of documents

Parser and program share one heap. While `outcome` is not `parsing` the program may call anything, in
any order and on any value it can reach from a document or from what it has created (`Roots`): create
values, store and append them, `makeExplicit`, `clone`, the fallbacks of `tableValue` and `arrayValue`,
and one loop whose steps are interleaved with all of this. What `Value.hpp:35-38` leaves to the user is
its guard `MayStore`: a value goes to one place only and never into itself. Then the next parse begins.
A text of a key path is the sequence of the parts between its dots, so that a key with a dot in it is
one with two parts. The content of a scalar is named by the node it was parsed to. `names`, `listed`
and `written` are histories of the keys the parser was given.

Of the typed getters, `valueOfType` has the rule they share: the value, if there is one of that type
at the path, otherwise the default.

### Tokens and recursive descent

A *lexeme* is what the tokenizer reads in one go. The environment chooses one lexeme after another
as the reader moves on, so that all documents over the offered lexemes are behaviours. `context` and
`nesting` are the tokenizer's, `token` and the stack `calls` the parser's; a place in `calls` is
named for the token the function waits for there. The actions `Read...` are the branches of
`Tokenizer::read`; the other ones take a token. Errors inside a lexeme are left out.

`TomlGrammar` is told every lexeme and keeps the set of continuations the grammar allows. A document
is TOML when the set has a complete one, and cannot become TOML any more when the set is empty.

### Characters

`Decoding` translates the two `readOrThrow` functions bit by bit; `CharReaderProperties` defines the
same encodings the other way around, from a character to its units, and by the table of forms of
RFC 3629. In `CharReader` the tokenizer is left open: any function of it reads a token as a number of
characters skipped or consumed, never a control character but line feeds, and a carriage return only
with a line feed; instead of a character others may be written (`SkipCharAndWrite`, `WriteToToken`),
but never more than were passed. `Tokenizer` is proved to be such a tokenizer (`ReaderSpec`), so the
properties proved for `CharReader` are properties of the program.

### Tokens

In `Tokenizer` one action is what happens from one look at the character ahead to the next. `run.at`
is the point in the code that is reached, named for what is read there; `tokenizer` has the members
of the class; `run.count`, `run.unicode` and `run.digit` are local variables (`endStringCount` and
loop counters, `unicode`, `lastConsumedWasDigit`). A point in `Expecting` is one behind
`expectMoreData`: when the stream has ended there, the only step is `PrematureEnd`. Several of the
code's tests ask the stream itself (`streamAtEnd`) and so are true while one character is still ahead;
the model keeps that difference. A token that has been created is handed out by `ReturnToken`, which
changes the context and counts the nesting as `Tokenizer::read` does. Since nothing in here depends on
the parser, it is left out: tokens are read up to the end or an error in whatever order they come.

`Conversion` does what the parser does with the text of a token. The functions of Qt it calls
(`toLongLong`, `QDate::fromString`, `indexOf`, `mid`) are modelled as far as it depends on them; a
float keeps its text. `TomlTokens` defines each kind of token as a condition on a complete sequence of
characters, without reading ahead, and its value by place values and tables. `DeliversToml` compares the
two for each token delivered. `RejectsNoToml` says for each error that no token of TOML begins where
the tokenizer stands that could be followed by what comes next; what may follow (`IsFollowed`) is what
any TOML document could have there.

### The whole parser

`ParserData` runs the actions of the other modules together. Between two tokens the tokenizer advances
character by character; a token is then taken by one action of `Syntax` and, in the same step, by the
action of `Document` that is the same code; then the steps of `Document` that need no token run to
their end (`Build`). So the environment of each module is the other one instead of a free choice, and
a run of the whole is at the same time a run of each. `Syn` and `Doc` are instances with the variables
of this module substituted; the nesting and the context of `Syntax` are the tokenizer's.

What only the whole has is modelled here: `keys`, the keys of the name being read; `locals`, for every
activation that waits for a value where that begins; `contents` and `ranges` of values; `errorAt`. The
document is parsed once; several parses in a row are the subject of `Document`, `Syntax`,
`DocumentUse` and `ParserSession`.

`WrittenDocuments` goes the other way. It takes a document as statements (headers and assignments with
nested values) and a layout, writes the characters, and notes for every path what is there, where it
begins and where it ends, using `TableRules` to decide which statements contradict the ones before. It
knows no token and no tree. `ReadsWhatIsWritten` and `LocatedWhereWritten` compare it with what the
parser made of the characters.

### Calls

In `ParserSession` a parse is just its end: a document, a syntax error, an encoding error, or an
exception of a stream implemented by the user. A value of the model that stands for a document or a
stream is the number of the call it belongs to; that is what the properties tell apart. Calls are not
nested: a parser that is used from inside its own stream is outside of what the library supports.

## 3. What is checked

| Run | Instance | Shows |
|---|---|---|
| `tables` | 2 keys, 6 values, paths up to 3 keys, no nested values, one document | headers and dotted keys: tables are defined once, dotted keys stay in their section, nothing is overwritten, and the tree is the one of `TableRules` |
| `values` | 2 keys, 6 values, nesting up to 2, one document | arrays and inline tables: a tree, nothing lost or ignored, complete values stay; the inductive invariant of the proofs |
| `use` | 2 keys, one of them with a dot, 5 values, nesting 1, paths up to 2 keys, 2 changes or copies, any number of documents | key paths; copies and documents share nothing; loops; returned documents are never touched by the parser |
| `toml` | all lexemes, documents of up to 12 lexemes, nesting limit 2, any number of documents, both versions | tokenizer and parser against the grammar; agreement of contexts and depth; the inductive invariant of the proofs; termination |
| `reader` | 17,446 documents: all of up to 3 bytes out of 24 border values, 4- and 5-byte ones around the 4-byte forms, all texts of up to 5 of `NUL LF CR A`, all of up to 3 UTF-16 units out of 11 | decoding, errors, end, locations, tokens; the inductive invariant of the proofs |
| `tokens` | 12,009 documents, each in both versions: numbers, prefixed numbers, words, dates and times, strings, escapes, keys, comments, headers, and what differs from one by a character | tokens and values against the definition of TOML; limits; `Tokenizer` implements `CharReader`; every document is read to its end |
| `documents` | 1,686 documents, each in both versions: all sequences of up to 3 of 10 statements; 26 scalars in all types, alone and in arrays, in 3 layouts and both encodings; arrays and inline tables inside of each other; 17 wrong tokens in 2 layouts | the whole parser returns what was written, rejects what is wrong, and locates values and errors; tokenizer and descent agree at every token |
| `calls` | 4 calls of the 8 functions | what is left behind; `lastError`; termination of the program |
| `header`, `strict`, `datetime`, `lasterror` | small | disagreements with the documentation, see section 5 |

Why the bounds are enough:

- *Two keys*: a statement compares one key with those present at one level; a key that is present and
  one that is not are all it can tell apart. The keys are interchangeable, so symmetry is sound; no
  liveness property is checked with it.
- *Six values*: enough for an array of tables with two elements, below a table, with a table made by a
  dotted key in it. Paths of three keys have a first, an inner and a last one. `MCThinPath` and
  `MCRepeatedPath` leave out paths that differ only in names on different levels.
- *Twelve lexemes*: an inline table in an array with a dotted key has eleven. The limit on nesting is
  2 instead of the one in the code, so that documents below, at and above it fit.
- *Bytes*: both ends of every range the decoder or RFC 3629 distinguishes.
- *Documents of `tokens`*: all words of up to four characters where the characters are interchangeable
  (numbers of `0 1 _ . e -`, quotes, backslashes and line ends, punctuation); where a token is longer, one
  of each form and all that are one character away from it or cut off. Every token is tried at the end of
  the document and before another character. The limits are 5 characters for keys and strings, 8 for
  numbers, the width of an integer is 8 bits, so that tokens below, at and above them are short. The
  limit on numbers is at least 4 (`LimitsAssumption`), since `-inf` is a number.
- *Five values and two changes of `use`*: a document with a table and a value and a copy of it, or an array
  of two elements that a loop is in while one more is added; the document before fits besides it.
- *Documents of `documents`*: three statements are a definition, one that depends on it, and one that
  shows the effect. Each scalar occurs in every kind of surroundings once, since the tokens themselves
  are the subject of `tokens`. The limit on nesting is 2, so that documents below, at and above it occur.
  Keys that the tokenizer reads as something else (see section 5) are left out, except `-1`.
- *Four calls*: a failure, a failure of another kind, a success and one more.

Fairness is assumed in `SyntaxAgainstToml`, weak fairness of the steps of a parse, in
`TokenizerProperties`, weak fairness of the steps of the tokenizer, and in `ParserData`, of the steps of
the whole (no property uses that one yet). A parse runs in one thread without
waiting for anything, so nothing but the code could keep it from its next step.
There is none on `Start`: nobody has to parse another document. Under it every parse ends.

Deadlock is not checked where a program really stops: when a bound is reached, at the end of a
document in `CharReader` and `Tokenizer`, after `std::terminate`, and at the end of a parse in `ParserData`.

## 4. What is proved

The proofs hold for all values of the constants: any keys, paths, number of values and depth, any
limit on nesting and any input, any documents, any number of calls. They rest only on the named
assumptions of the modules (`PathAssumption`, `NestingLimitAssumption`, `DocumentsAssumption`,
`SpecificationsAssumption`, `BoundAssumption`, ...), which say no more than what kind of thing a constant is.

| Module | Theorems | The inductive invariant |
|---|---|---|
| `DocumentProofs`, from `IndInv` | `Invariance`, `TypeCorrect`, `LogicErrorFree`, `TablesDefinedOnce`, `DottedKeysConfined`, `OnlyEverAdded` | *An array of tables has a last element that is a table*; every explicit table made current is one of `sections`, once; *a table made by a dotted key hangs below the table of the section that made it* (`DottedTablesLinked`), so that a walk with a source tag of dotted keys never leaves its section |
| `DocumentProofs`, from `TreeInv` | `TreeInvariance`, `DocumentsAreTrees`, `NothingGetsLost`, `StoresTakeEffect`, `CompleteValuesKept`, `ReturnedDocumentsKept` | *No value is stored at two places, none is below itself, and a loose one is loose for one reason only*: it is the document, a document returned, a value being filled, or the value read last. The parser stores only loose values, and only below the document or the innermost value being filled, in what no complete value contains (`InPlace`); so the trees below two loose values never meet, and what is complete or returned is out of reach |
| `DocumentUseProofs` | `UseInvariance`, `TreesStaySeparate`, `LoopsSeeArrays`, `ParserUndisturbed`, `DocumentsOfTheProgramKept`, `CopiesSayTheSame` | *The parser's invariant holds for the heap as the parser sees it*, where each value of an earlier time is an empty table (`View`); nothing from an earlier time refers to the parse that is running, and its values refer to nothing earlier; the roots of the program's trees are stored nowhere; the elements a loop began with are still where they were (`LoopInPlace`) |
| `KeyPathProofs` | `WrittenInvariance`, `KeyPathsFind` | *What was written is where its keys lead, through tables only, or below an element of an array if they pass an array of tables* (`Named`); this holds for the table of the section and for the walk that is under way too, and the keys noted as arrays of tables are exactly those that lead to one (`NotedAreArrays`, `ArraysAreNoted`) |
| `SyntaxProofs` | `SyntaxInvariance`, `SyntaxTypeCorrect`, `ContextsAgree`, `RecursionBounded`, `LimitReached` | The properties speak of moments without a token in between. The invariant also says what the tokenizer has already counted and the parser has not taken yet (`NestingAhead`, `ContextAhead`), token by token |
| `CharReaderProofs` | `ReaderInvariance`, `ReadingInvariance`, `LocationsRight`, `TokensWithoutGap`, `EndIsEnd`, `CharactersOfTheDocument`, `RejectedWhereCorrupt` | `hasChar => ~atEnd` connects the character ahead with the stream; each token ends where the next begins; the line is the number of line feeds passed. For decoding (`ReadInv`): *what is passed and what is ahead is what the units read encode*, and a null character at the very end is the only one that is read and never ahead |
| `TokenizerProofs` | `TokenizerInvariance`, `LimitsHold`, `ImplementsReader`, `TokenizerTiles`, `TokenizerDecodes` | *At each of the points of the tokenizer's functions* (`TokenInv`): how many characters of the token were passed and not written, how long the token is at most, and which types it can still become. The limits are tested at some points only; what a token can grow by between them is the content of the invariant |
| `ParserDataProofs` | `ParserInvariance`, `TokenizerFollows`, `ImplementsTokenizer`, `TokensOfTheParser`, `CharactersOfTheParser`, `ImplementsDocument`, `CharactersBecomeTrees`, `TreesOnlyGrow` | *What each part assumes of its environment holds of the other parts* (`ParserInv`): the invariants of `Tokenizer` and `Syntax`, a token is there when the parser takes one, and a name that ends has keys, so that the walks of `Document` are never given an empty path |
| `ParserSessionProofs` | `SessionInvariance`, `DocumentsNotMixedUp`, `NothingHeld`, `LastErrorIsLatest`, `TerminationNeedsStream` | Which exceptions can be in flight at which place, and that a file that cannot be opened has not been noted in `lastError`; a stream or document is left behind only by an exception no handler catches |

Each proof has one lemma for each action and one step for each part of the invariant the action can
disturb; the theorem combines them with the temporal rule for invariants.

For decoding the proofs go both ways between code and definition. A character that `readOrThrow` returns
from a document that is strict encodes to the units it was read from (`Utf8RoundTrip`, `Utf16RoundTrip`), so
each character read adds its units to the encoding of those before; that the concatenation of one more
sequence is one sequence longer is shown by well-founded induction, since `FlattenSeq` is recursive.
And whatever fits a form of the table is decoded (`WellFormedUtf8`, `WellFormedUtf16`), so what is
rejected fits none. `DocumentsAssumption` says that units are bytes or code units of 16 bits, which is what
`readByte` and `QString::at` return.

`ImplementsReader`, `TokenizerDecodes` and `CharactersOfTheParser` have the hypothesis
`WritesCharacters`: a tokenizer may write any character of Unicode.
The runs give `Writable` only the characters that their documents need. `TokenizerTiles` has no hypothesis. `TokenInv` was checked with TLC on the instance of `tokens`
(437,356 states) before it was proved; no run lists it.

`ParserDataProofs` carries the theorems about the parts over to the whole. A step of `ParserData` advances
the tokenizer by a character or hands over a token; or it takes a token by an action of `Syntax`, maybe with
one of `Document`; or it goes on with the tree. For each of them the module shows that it is a step or
a stutter of `Tokenizer`, of `Syntax` and of `Document`; the free choices of their environments are replaced
by what the other parts do. The token handed over is where this could fail: `Syntax` chooses lexemes and
what the tokenizer makes of them, `ParserData` takes the type, the text and the context of a real token, and
`TokenInv` says which types there can be in which context. The theorems that speak of `Document`
have the hypothesis that all texts are keys, `Seq(Nat) \subseteq KeyText`, since the model admits a key only
if it is in `KeyText`; the runs give only the keys that their documents contain. The others have no
hypothesis. `ParserInv` was checked with TLC on the instance of `documents` (339,538 states) before it was
proved; no run lists it. `TreesOnlyGrow` states for the whole the three action properties that
`OnlyEverAdded`, `CompleteValuesKept` and `ReturnedDocumentsKept` state for `Document`.

`TypeCorrect`, `SyntaxTypeCorrect` and `LimitReached` state parts of the invariants that no run lists by
themselves; the runs check the invariants.

The second half of `DocumentProofs` is about reachability, `Reach`, which is computed by a recursive function on sets
of nodes. The first lemmas about it show that this function exists and that `Reach(h, S)` is the least set that
contains `S` and is closed under `Children`; all else follows from that: how it changes when a loose
value is stored (`AttachReach` and the lemmas around it), that a search from one loose value never comes
to another, and that a change of the heap outside of a tree leaves the tree as it was. No induction over
paths is needed, because every claim about a path is a claim about a closed set.

`DocumentUseProofs` cannot simply take over the invariants of `Document`: they do not hold for what a
program has changed. It may append a table no header has made to an array of tables, or change an inline
table that was complete. But the parser never looks at the values of earlier parses. So the module
instantiates `DocumentProofs` for the heap in which they are hidden, as documents that were returned, shows
that each step of the parser is the same step on that heap (`ParserSteps`), and gets the invariant of the
parser from the instance. What the program relies on (`HeapFits`: one place for each value, no cycles, tables
in arrays of tables) is then put together from both halves of the heap (`JoinedHeap`). The steps of the
program keep `HeapFits` under what `Value.hpp:35-36` asks of it, that a value is not stored inside
itself or at two places; `MayStore` says so. For a copy it is shown that `CopyOf` gives each value
of the tree one of the next free cells, and all of them are used; that the copies refer to each other as the
originals do (`Twins`); that therefore they are a tree again; and, by going from the values at the bottom
upwards (`LowestValue`), that the recursion of `toJson` ends and says the same of both. `UseInv` was checked
with TLC on the instance of `use` (1,050,073 states) before it was proved; no run lists it. In
`ParserUndisturbed` the properties of the parser are stated once more, now with a program that
changes documents between the parses.

`WrittenIsFound` compares two walks: the one of the parser, which made a value, and the one of `Value::value`
for a key path, which splits a text at its dots. `KeyPathProofs` puts a third thing between them, the keys that
lead from a table to a value through tables alone (`Leads`). The parser only adds to the heap (`Grows`),
so what keys lead to they lead to ever after; and since a value has one place only, going backwards from it gives
one path of keys at most (`LeadsNowhereElse`), and none if it is in an array. That the recursion of the access
by key paths goes where the keys lead (`PathFound`, `PathLeads`) needs that different keys have different
texts and that none has no parts at all (`PartsAssumption`), as `QString::split` ensures. Once a program has changed
a document the claim is no longer made: what was written is history then (`Changing`).
`WrittenInv` was checked with TLC on the instance of `use`
with one change (645,304 states) before it was proved; no run lists it.

Only model-checked, not proved: `ImplementsTableRules`, whose mapping is recursive; the comparison with
the grammar; the tokenizer against the definition of tokens, which is recursive; the whole parser against the documents written,
likewise; `Terminates` and `ReadsToTheEnd`, liveness properties.

## 5. Disagreements with the documentation

- **Header in the last line** (`header`): `readStructure` requires another character after the bracket
  that closes a header (`impl/Tokenizer.cpp:149-156`). A document that ends with `[table]`, without a
  new line, is rejected, although the parser is prepared for it (`impl/ParserData.cpp:116`).
- **Overlong UTF-8** (`strict`): forms of three and four bytes for characters that need less are
  decoded (`impl/TextStreamInputStream.cpp:38-45`); only those of two bytes are rejected.
- **Date-time in the last place** (`datetime`): when the stream ends behind the minutes or the seconds
  of a date-time, `readDate` returns a date (`impl/Tokenizer.cpp:629-636`), and its conversion ignores
  what follows the date. The document is accepted without the time.
- **`lastError` after a file cannot be opened** (`lasterror`): the constructor of the stream throws
  before `parseStream` can note the error (`Parser.cpp:62`), so `lastError` is an older one.

Met while modelling, and left out of the properties by name, without a run of their own:

- A high surrogate with something else than a low one behind it is combined with it to some character
  (`impl/StringInputStream.cpp:49-57`; `IsUnpaired`).
- A null character as the last one of a document is taken for the end (`impl/CharReader.cpp:44` and
  `62`; `DeliversWhatIsRead`).
- An error of a stream that is no encoding error is reported as one (`impl/CharReader.cpp:41-43`).
- An inline table with an integer directly before the equals sign, `{1=2}`, is a syntax error
  (`impl/Tokenizer.cpp:476`), because keys of inline tables are read as values and an integer has to end
  like one; `impl/Token.cpp:47` says that keys can look like integers. With a blank in between it is
  accepted (`SyntaxAgainstToml`).
- Underscores in what turns out to be a year or an hour are accepted, `19_79-05-27`, and so is a dot
  without digits behind the seconds, `07:32:00.,` (`impl/Tokenizer.cpp:464`, `560-579`; `IsTolerated`).
- A local date that does not exist becomes a null date without an error (`impl/ParserData.cpp:278`;
  `NoSuchDate`), an integer that does not fit becomes zero (`266-271`; `TooLarge`).
- A time without seconds, allowed in TOML 1.1, is rejected at the end of a document
  (`impl/Tokenizer.cpp:653`; `EndsWithMinutes`).
- Behind the `Z` of a date-time the end of the value is not tested (`impl/Tokenizer.cpp:584-586`); the
  parser rejects what follows. The blank behind a date is part of its token (`616`).
- A key of an inline table that begins like a value is read as one (`LooksLikeValue`), and loses its
  underscores if that is an integer (`impl/CharReader.cpp:147-152`).

Met in the locations, the interface of `Value` and the whole parser:

- The range of a value ends where its last token *begins* ("not prefect", `impl/ParserData.cpp:411`, also
  `90` and `462`); for a scalar in an array it is empty. `README.md:5` and `preface.rst:8` speak of the start
  and end locations of each table and value. `LocatedWhereWritten` asks only that the end is inside.
- What `parseArrayValue` and `parseInlineTableValue` set as their own range, with the correct end, is
  always replaced by their caller (`impl/ParserData.cpp:424`, `487`).
- A table that a path makes necessary is located at the token read last, which is the end of the
  header or the value behind the path (`impl/ParserData.cpp:244`).
- `Location::operator<=` and `>=` are never true (`Location.hpp:96-108`). Nothing in the library uses them.
- `clone` drops, without notice, elements that are no tables from an array that a program has created
  with `ImplicitTable`, filled, and then made explicit (`Value.cpp:92` and `437`). `MakeExplicit` is restricted to
  tables, as the parser never makes such an array.
- `Value.hpp:324` announces a `QVariantHash`, `toVariant` gives a `QVariantMap` (`Value.cpp:271`); the example
  of `locations.rst:24` iterates over `toTable()` of an array.
- A key with a dot is found by no key path (`WrittenIsFound`), as `reference/parser.rst:143` says.

## 6. Not modelled, and the plan

1. *Done*: document building against the rules for tables; tokens and descent against the grammar;
   decoding and the character reader; the tokenizer and the conversion of values against the definition
   of tokens; calls of the parser; the use of documents; the composition of all parts of `ParserData`.
2. *Proofs done*: the invariants of document building, descent, character reader and calls, and that a
   document is a tree in which nothing is lost and nothing finished is changed.
   Also that the characters read are those of the document and only corrupted data is rejected
   (`CharReaderProofs`); the limits of the tokenizer, and that it implements `CharReader` (`TokenizerProofs`);
   that the whole implements `Tokenizer` and `Document` and keeps the invariant of `Syntax` (`ParserDataProofs`);
   that a program which changes its documents disturbs neither the parser nor its other documents, and
   that copies are faithful (`DocumentUseProofs`); that key paths find what was written (`KeyPathProofs`).
   *Proofs still to do*: that in `ParserData` the stacks of descent and tree always agree, so that no guard of
   `Document` keeps a token from being taken.
3. *Models still possible*: several parses in `ParserData`, with the errors of user streams in it, so that
   `ParserSession` becomes part of the composition too.

Left out for good: formatting of messages, of scalars in JSON and `QVariant`, and the names of
enumerations, which have no state; comparison and extension of locations, which the parser does not use; the forwarding headers; reading of bytes by Qt, which is modelled only as far as the streams
use it; the conversion of floats to binary by Qt.
