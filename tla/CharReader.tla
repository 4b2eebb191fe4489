------------------------------ MODULE CharReader ------------------------------
(***************************************************************************)
(* Class CharReader: it reads the characters of a stream one ahead,        *)
(* collects the text of a token and keeps track of the location.           *)
(*                                                                         *)
(* The tokenizer that drives it is left open, but for what all of its      *)
(* functions have in common: a token has at least one character, each      *)
(* character is skipped or consumed, but no control character except line  *)
(* feeds, alone or after a carriage return; and what is written to the     *)
(* token instead never makes it longer than its source.  Module Tokenizer  *)
(* is that tokenizer.                                                      *)
(***************************************************************************)
EXTENDS Integers, Sequences, Decoding, Characters

CONSTANTS
    Documents,      \* the documents that can be read
    Writable        \* the characters written for others: escaped ones, quotes, a space

ASSUME DocumentsAssumption == \A d \in Documents : IsDocument(d)

ASSUME WritableAssumption == Writable \subseteq Nat

VARIABLES
    document,       \* the document behind _stream
    position,       \* the number of units read from the stream
    char,           \* _char
    hasChar,        \* _hasChar
    token,          \* _token
    location,       \* _location
    startLocation,  \* _startLocation
    place,          \* where the tokenizer stands, or how it has stopped
    tokens,         \* history: the tokens delivered
    seen            \* history: the characters skipped or consumed

vars == <<document, position, char, hasChar, token, location, startLocation, place, tokens, seen>>

\* "between": Tokenizer::read is called next; "inside": inside a token;
\* "newLine": after a carriage return; "end": the end of the document has been
\* reported; "encoding", "syntax": an Error has been thrown.
Place == {"between", "inside", "newLine", "end", "encoding", "syntax"}

Location == [index : Nat, line : Nat, column : Nat]

\* A token delivered: its text and its LocationRange.
Token == [text : Seq(Nat), begin : Location, end : Location]

FirstLocation == [index |-> 0, line |-> 1, column |-> 1]

\* Mutant: the first column of a line is not one.
increment_KeepsColumn(l, isNewLine) ==
    [index |-> l.index + 1,
     line |-> IF isNewLine THEN l.line + 1 ELSE l.line,
     column |-> l.column + 1]

\* Location::increment
increment(l, isNewLine) ==
    [index |-> l.index + 1,
     line |-> IF isNewLine THEN l.line + 1 ELSE l.line,
     column |-> IF isNewLine THEN 1 ELSE l.column + 1]

\* resetWithInputStream
Init ==
    /\ document \in Documents
    /\ position = 0
    /\ char = NUL
    /\ hasChar = FALSE
    /\ token = <<>>
    /\ location = FirstLocation
    /\ startLocation = FirstLocation
    /\ place = "between"
    /\ tokens = <<>>
    /\ seen = <<>>

-------------------------------------------------------------------------------
\* readOrThrow and what both of its callers do with the result.
ReadNext(next) ==
    LET read == ReadOrThrow(document, position)
    IN  IF read.failed
          THEN place' = "encoding" /\ UNCHANGED <<char, position, hasChar>>
          ELSE /\ char' = read.char
               /\ position' = position + read.size
               /\ hasChar' = ~(read.char = NUL /\ position' = Len(document.units))
               /\ place' = next

\* Mutant: a carriage return begins a line, too.
skipChar_AnyNewLine(next) ==
    /\ ReadNext(next)
    /\ seen' = Append(seen, char)
    /\ location' = increment(location, char \in {LF, CR})

\* skipChar and, but for the token, consumeChar.
skipChar(next) ==
    /\ ReadNext(next)
    /\ seen' = Append(seen, char)
    /\ location' = increment(location, char = LF)

atEnd == char = NUL /\ position = Len(document.units)

isControlCharacter == char \in 0..8 \/ char \in 10..31 \/ char = 127

\* A character the tokenizer accepts inside some token.
Accepted == char = LF \/ ~isControlCharacter

\* Mutant: the next token starts where this did.
takeToken_KeepsStart ==
    /\ tokens' = Append(tokens, [text |-> token, begin |-> startLocation, end |-> location])
    /\ token' = <<>>
    /\ UNCHANGED startLocation

takeToken ==
    /\ tokens' = Append(tokens, [text |-> token, begin |-> startLocation, end |-> location])
    /\ token' = <<>>
    /\ startLocation' = location

\* Mutant: the end of the stream is the end, also with a character ahead.
ReadEndOfDocument_StreamEnd ==
    /\ place = "between"
    /\ position = Len(document.units)
    /\ takeToken
    /\ place' = "end"
    /\ UNCHANGED <<document, position, char, hasChar, location, seen>>

ReadEndOfDocument ==
    /\ place = "between"
    /\ atEnd
    /\ takeToken
    /\ place' = "end"
    /\ UNCHANGED <<document, position, char, hasChar, location, seen>>

\* readNextChar
BeginToken ==
    /\ place = "between"
    /\ ~atEnd
    /\ IF hasChar THEN place' = "inside" /\ UNCHANGED <<char, position, hasChar>>
                  ELSE ReadNext("inside")
    /\ UNCHANGED <<document, token, location, startLocation, tokens, seen>>

SkipChar ==
    /\ place = "inside"
    /\ Accepted
    /\ skipChar("inside")
    /\ UNCHANGED <<document, token, startLocation, tokens>>

ConsumeChar ==
    /\ place = "inside"
    /\ Accepted
    /\ token' = Append(token, char)
    /\ skipChar("inside")
    /\ UNCHANGED <<document, startLocation, tokens>>

SkipCharAndWrite ==
    /\ place = "inside"
    /\ Accepted
    /\ skipChar("inside")
    /\ IF place' = "encoding" THEN UNCHANGED token
       ELSE \E c \in Writable : token' = Append(token, c)
    /\ UNCHANGED <<document, startLocation, tokens>>

WriteToToken ==
    /\ place = "inside"
    /\ Len(token) < location.index - startLocation.index
    /\ \E c \in Writable : token' = Append(token, c)
    /\ UNCHANGED <<document, position, char, hasChar, location, startLocation, place, tokens, seen>>

\* skipNewLine and consumeNewLine, up to the line feed.
SkipCarriageReturn ==
    /\ place = "inside"
    /\ char = CR
    /\ skipChar("newLine")
    /\ UNCHANGED <<document, token, startLocation, tokens>>

SkipLineFeed ==
    /\ place = "newLine"
    /\ char = LF
    /\ skipChar("inside")
    /\ UNCHANGED <<document, token, startLocation, tokens>>

ConsumeLineFeed ==
    /\ place = "newLine"
    /\ char = LF
    /\ token' = Append(token, char)
    /\ skipChar("inside")
    /\ UNCHANGED <<document, startLocation, tokens>>

\* Some token ends here.
CreateToken ==
    /\ place = "inside"
    /\ location # startLocation
    /\ takeToken
    /\ place' = "between"
    /\ UNCHANGED <<document, position, char, hasChar, location, seen>>

\* The tokenizer, or the parser between two tokens, throws a syntax error.
Reject ==
    /\ place \in {"between", "inside", "newLine"}
    /\ place' = "syntax"
    /\ UNCHANGED <<document, position, char, hasChar, token, location, startLocation, tokens, seen>>

Next ==
    \/ ReadEndOfDocument \/ BeginToken \/ CreateToken
    \/ SkipChar \/ ConsumeChar \/ SkipCharAndWrite \/ WriteToToken
    \/ SkipCarriageReturn \/ SkipLineFeed \/ ConsumeLineFeed
    \/ Reject

Spec == Init /\ [][Next]_vars

===============================================================================
