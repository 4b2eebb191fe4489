---------------------------- MODULE ParserSession ----------------------------
(***************************************************************************)
(* One Parser object called again and again: class Parser (Parser.cpp),    *)
(* and how an exception travels from an input stream through CharReader    *)
(* and ParserData::parseStream to the caller.                              *)
(*                                                                         *)
(* What is parsed is left out: a parse ends in a document, in a syntax     *)
(* error, or in an exception of the input stream.  The streams of the      *)
(* library throw nothing but encoding errors; a stream implemented by the  *)
(* user (InputStream::Type::Custom) may throw anything.                    *)
(***************************************************************************)
EXTENDS Naturals

CONSTANTS MaxCalls      \* bound: number of calls

ASSUME MaxCallsAssumption == MaxCalls \in Nat

None == 0
CallNumber == 1..MaxCalls

\* Parser::parseString, parseData, parseFile and parseStream, and for each the
\* function that throws.
Input == {"string", "data", "file", "stream"}
Function == [input : Input, orThrow : BOOLEAN]

\* An exception in flight: an Error of a type, another std::exception, or
\* something else a stream of the user throws.  An Error remembers the call it
\* is about.
ErrorType == {"Syntax", "Encoding", "IO"}
Error == [kind : {"Error"}, type : ErrorType, call : CallNumber]
Other == [kind : {"std", "foreign"}]
Exception == Error \cup Other
NoError == [kind |-> "none"]

\* What a call has returned, or the exception it has thrown.  The error behind
\* a null pointer is kept for the properties only.
Answer == [kind : {"document"}, call : CallNumber] \cup [kind : {"null"}, error : Error]
          \cup Exception \cup {NoError}

VARIABLES
    calls,      \* number of calls made so far
    function,   \* the function called last
    place,      \* where it stands
    exception,  \* the exception in flight, or NoError
    stream,     \* CharReader::_stream, as the number of the call it belongs to
    document,   \* ParserData::_document, likewise
    lastError,  \* ParserData::_lastError
    answers     \* history: the answer to every call

vars == <<calls, function, place, exception, stream, document, lastError, answers>>

\* "outside": no call is being made; "opening": the stream is created;
\* "parsing", "handling": in parseStream and its handlers; "leaving": the
\* exception is in class Parser; "terminated": by std::terminate.
Place == {"outside", "opening", "parsing", "handling", "leaving", "terminated"}

TypeOK ==
    /\ calls \in 0..MaxCalls
    /\ function \in Function
    /\ place \in Place
    /\ exception \in Exception \cup {NoError}
    /\ stream \in CallNumber \cup {None}
    /\ document \in CallNumber \cup {None}
    /\ lastError \in Error \cup {NoError}
    /\ answers \in [CallNumber -> Answer]

Init ==
    /\ calls = 0
    /\ function \in Function
    /\ place = "outside"
    /\ exception = NoError
    /\ stream = None
    /\ document = None
    /\ lastError = NoError
    /\ answers = [c \in CallNumber |-> NoError]

----------------------------------------------------------------------------
NewError(type) == [kind |-> "Error", type |-> type, call |-> calls]

Raise(e, where) == exception' = e /\ place' = where

AnswerWith(a) ==
    /\ answers' = [answers EXCEPT ![calls] = a]
    /\ exception' = NoError
    /\ place' = "outside"

Call(f) ==
    /\ place = "outside"
    /\ calls < MaxCalls
    /\ calls' = calls + 1
    /\ function' = f
    /\ place' = "opening"
    /\ UNCHANGED <<exception, stream, document, lastError, answers>>

\* Mutant: the exception is no Error.
OpenFails_NoError ==
    /\ place = "opening"
    /\ function.input = "file"
    /\ Raise([kind |-> "std"], "leaving")
    /\ UNCHANGED <<calls, function, stream, document, lastError, answers>>

\* The constructor of FileInputStream: only a file can fail to open.
OpenFails ==
    /\ place = "opening"
    /\ function.input = "file"
    /\ Raise(NewError("IO"), "leaving")
    /\ UNCHANGED <<calls, function, stream, document, lastError, answers>>

\* Mutant: a document that is still there is continued.
StartParse_KeepsDocument ==
    /\ place = "opening"
    /\ stream' = calls
    /\ document' = IF document = None THEN calls ELSE document
    /\ place' = "parsing"
    /\ UNCHANGED <<calls, function, exception, lastError, answers>>

\* startWithStream, and the root table parseDocument creates.
StartParse ==
    /\ place = "opening"
    /\ stream' = calls
    /\ document' = calls
    /\ place' = "parsing"
    /\ UNCHANGED <<calls, function, exception, lastError, answers>>

SyntaxFails ==
    /\ place = "parsing"
    /\ Raise(NewError("Syntax"), "handling")
    /\ UNCHANGED <<calls, function, stream, document, lastError, answers>>

\* CharReader turns every Error of the stream into an encoding error.
ReadFails ==
    /\ place = "parsing"
    /\ Raise(NewError("Encoding"), "handling")
    /\ UNCHANGED <<calls, function, stream, document, lastError, answers>>

StreamThrows(e) ==
    /\ place = "parsing"
    /\ function.input = "stream"
    /\ Raise(e, "handling")
    /\ UNCHANGED <<calls, function, stream, document, lastError, answers>>

\* Mutant: the document is given up before it is returned.
ReturnDocument_MovedOut ==
    /\ place = "parsing"
    /\ document' = None
    /\ AnswerWith([kind |-> "document", call |-> document'])
    /\ stream' = None
    /\ UNCHANGED <<calls, function, lastError>>

ReturnDocument ==
    /\ place = "parsing"
    /\ AnswerWith([kind |-> "document", call |-> document])
    /\ stream' = None
    /\ document' = None
    /\ UNCHANGED <<calls, function, lastError>>

\* Mutants: only the first error is stored; only an Error is cleaned up after.
HandleException_FirstError ==
    /\ place = "handling"
    /\ place' = "leaving"
    /\ lastError' = IF exception.kind = "Error" /\ lastError = NoError THEN exception ELSE lastError
    /\ IF exception.kind \in {"Error", "std"}
         THEN stream' = None /\ document' = None
         ELSE UNCHANGED <<stream, document>>
    /\ UNCHANGED <<calls, function, exception, answers>>

HandleException_ErrorsOnly ==
    /\ place = "handling"
    /\ place' = "leaving"
    /\ lastError' = IF exception.kind = "Error" THEN exception ELSE lastError
    /\ IF exception.kind = "Error"
         THEN stream' = None /\ document' = None
         ELSE UNCHANGED <<stream, document>>
    /\ UNCHANGED <<calls, function, exception, answers>>

\* The handlers of parseStream; what is no std::exception passes them.
HandleException ==
    /\ place = "handling"
    /\ place' = "leaving"
    /\ lastError' = IF exception.kind = "Error" THEN exception ELSE lastError
    /\ IF exception.kind \in {"Error", "std"}
         THEN stream' = None /\ document' = None
         ELSE UNCHANGED <<stream, document>>
    /\ UNCHANGED <<calls, function, exception, answers>>

Rethrow ==
    /\ place = "leaving"
    /\ function.orThrow
    /\ AnswerWith(exception)
    /\ UNCHANGED <<calls, function, stream, document, lastError>>

\* The noexcept functions turn an Error into a null pointer.
ReturnNull ==
    /\ place = "leaving"
    /\ ~function.orThrow
    /\ exception.kind = "Error"
    /\ AnswerWith([kind |-> "null", error |-> exception])
    /\ UNCHANGED <<calls, function, stream, document, lastError>>

Terminate ==
    /\ place = "leaving"
    /\ ~function.orThrow
    /\ exception.kind # "Error"
    /\ place' = "terminated"
    /\ UNCHANGED <<calls, function, exception, stream, document, lastError, answers>>

Next ==
    \/ \E f \in Function : Call(f)
    \/ OpenFails \/ StartParse
    \/ SyntaxFails \/ ReadFails \/ \E e \in Other : StreamThrows(e)
    \/ ReturnDocument \/ HandleException
    \/ Rethrow \/ ReturnNull \/ Terminate

Spec == Init /\ [][Next]_vars

----------------------------------------------------------------------------
\* The error a call has failed with, or NoError.
Failure(c) ==
    IF answers[c].kind = "null" THEN answers[c].error
    ELSE IF answers[c].kind = "Error" THEN answers[c]
    ELSE NoError

\* A document belongs to the call that returns it, also when a call before
\* has left its own unfinished document behind.
DocumentOfOwnCall ==
    \A c \in CallNumber : answers[c].kind = "document" => answers[c].call = c

\* Between two calls the parser holds neither a stream nor a document, unless
\* the stream of that very call has thrown what is no std::exception.
HoldsNothing ==
    place = "outside" =>
        \A held \in {stream, document} \ {None} : answers[held].kind = "foreign"

\* The error remembered is that of the latest call whose parse has failed, on
\* whatever way the error reached the caller.
ParseFailures == {c \in CallNumber : Failure(c) # NoError /\ Failure(c).type # "IO"}

LatestFailureIs(error) ==
    \/ ParseFailures = {} /\ error = NoError
    \/ \E c \in ParseFailures : error = Failure(c) /\ \A d \in ParseFailures : d <= c

LastErrorOfLatestFailure == place = "outside" => LatestFailureIs(lastError)

\* A noexcept function terminates the program only if a stream of the user
\* throws something else than an Error.
TerminatesOnlyForStreams ==
    place = "terminated" => function.input = "stream" /\ exception \in Other

\* Whenever a noexcept function returns a null pointer, lastError is the
\* reason (Parser.hpp:89-91, 97-99, 109-110, 119-120).
LastErrorExplainsNull ==
    place = "outside" /\ calls # 0 /\ answers[calls].kind = "null" =>
        lastError = answers[calls].error

----------------------------------------------------------------------------
\* The inductive invariant: what is held, thrown and remembered at each place.

\* Only calls that have ended have an answer.
AnswersInOrder ==
    /\ \A c \in CallNumber : c > calls => answers[c] = NoError
    /\ place # "outside" => calls # 0 /\ answers[calls] = NoError

\* Where an exception can be in flight, and which.
ExceptionFits ==
    /\ place \in {"outside", "opening", "parsing"} <=> exception = NoError
    /\ place = "handling" /\ exception.kind = "Error" => exception.type # "IO"
    /\ exception \in Other => function.input = "stream"

LeftBehind(held) ==
    \/ held = None
    \/ answers[held].kind = "foreign"
    \/ held = calls /\ place \in {"leaving", "terminated"} /\ exception.kind = "foreign"

HeldFits ==
    IF place \in {"parsing", "handling"}
      THEN stream = calls /\ document = calls
      ELSE LeftBehind(stream) /\ LeftBehind(document)

LastErrorFits ==
    IF place \in {"leaving", "terminated"} /\ exception.kind = "Error" /\ exception.type # "IO"
      THEN lastError = exception
      ELSE LatestFailureIs(lastError)

IndInv ==
    /\ TypeOK
    /\ AnswersInOrder
    /\ ExceptionFits
    /\ HeldFits
    /\ LastErrorFits
    /\ DocumentOfOwnCall
    /\ TerminatesOnlyForStreams

=============================================================================
