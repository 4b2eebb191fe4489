------------------------- MODULE ParserSessionProofs -------------------------
(***************************************************************************)
(* Proofs about module ParserSession, for any number of calls.             *)
(***************************************************************************)
EXTENDS ParserSession, TLAPS

USE DEF CallNumber, None

\* Kinds of exceptions and errors.
LEMMA Kinds ==
    /\ NoError \notin Exception
    /\ \A e \in Error : e.kind = "Error" /\ e.type \in ErrorType /\ e # NoError
    /\ \A e \in Other : e.kind \in {"std", "foreign"} /\ e # NoError
    /\ \A e \in Exception : e.kind = "Error" <=> e \in Error
  BY DEF Exception, Error, Other, NoError, ErrorType

----------------------------------------------------------------------------
\* The parser that has not been called satisfies the invariant.
LEMMA InitInvariant == Init => IndInv
<1> SUFFICES ASSUME Init PROVE IndInv
  OBVIOUS
<1>1. TypeOK
  BY MaxCallsAssumption DEF Init, TypeOK, Place, Answer
<1>2. AnswersInOrder
  BY DEF Init, AnswersInOrder
<1>3. ExceptionFits
  BY DEF Init, ExceptionFits, NoError, Other
<1>4. HeldFits
  BY DEF Init, HeldFits, LeftBehind
<1>5. LastErrorFits
  <2>1. ParseFailures = {}
    BY DEF Init, ParseFailures, Failure, NoError
  <2> QED
    BY <2>1 DEF Init, LastErrorFits, LatestFailureIs
<1>6. DocumentOfOwnCall /\ TerminatesOnlyForStreams
  BY DEF Init, DocumentOfOwnCall, TerminatesOnlyForStreams, NoError
<1> QED
  BY <1>1, <1>2, <1>3, <1>4, <1>5, <1>6 DEF IndInv

\* What a step that answers no call keeps.
LEMMA FailuresKept ==
    ASSUME UNCHANGED answers
    PROVE  /\ ParseFailures' = ParseFailures
           /\ \A c \in CallNumber : Failure(c)' = Failure(c)
  BY DEF ParseFailures, Failure

LEMMA LatestKept ==
    ASSUME UNCHANGED <<answers, lastError>>
    PROVE  LatestFailureIs(lastError)' <=> LatestFailureIs(lastError)
  BY FailuresKept DEF LatestFailureIs, ParseFailures

----------------------------------------------------------------------------
\* A call is made.
LEMMA CallStep == ASSUME IndInv, NEW f \in Function, Call(f) PROVE IndInv'
<1> USE DEF IndInv, Call
<1>1. TypeOK'
  BY MaxCallsAssumption DEF TypeOK, Place
<1>2. AnswersInOrder' /\ ExceptionFits' /\ DocumentOfOwnCall' /\ TerminatesOnlyForStreams'
  BY MaxCallsAssumption, Kinds
  DEF TypeOK, AnswersInOrder, ExceptionFits, DocumentOfOwnCall, TerminatesOnlyForStreams, Exception
<1>3. HeldFits'
  BY DEF HeldFits, LeftBehind
<1>4. LastErrorFits'
  BY LatestKept DEF LastErrorFits
<1> QED
  BY <1>1, <1>2, <1>3, <1>4

\* A file cannot be opened: nothing is held or remembered for the call.
LEMMA OpenFailsStep == ASSUME IndInv, OpenFails PROVE IndInv'
<1> USE DEF IndInv, OpenFails, Raise, NewError
<1>1. TypeOK'
  BY DEF TypeOK, Place, AnswersInOrder, Exception, Error, ErrorType
<1>2. exception' \in Error /\ exception'.type = "IO"
  BY <1>1 DEF TypeOK, AnswersInOrder, Error, ErrorType
<1>3. AnswersInOrder' /\ ExceptionFits' /\ DocumentOfOwnCall' /\ TerminatesOnlyForStreams'
  BY <1>2, Kinds DEF AnswersInOrder, ExceptionFits, DocumentOfOwnCall, TerminatesOnlyForStreams
<1>4. HeldFits'
  BY DEF HeldFits, LeftBehind
<1>5. LastErrorFits'
  BY <1>2, LatestKept DEF LastErrorFits
<1> QED
  BY <1>1, <1>3, <1>4, <1>5

\* The parse starts with a stream and a document of its own.
LEMMA StartParseStep == ASSUME IndInv, StartParse PROVE IndInv'
<1> USE DEF IndInv, StartParse
<1>1. TypeOK'
  BY MaxCallsAssumption DEF TypeOK, Place, AnswersInOrder
<1>2. AnswersInOrder' /\ ExceptionFits' /\ DocumentOfOwnCall' /\ TerminatesOnlyForStreams'
  BY Kinds DEF AnswersInOrder, ExceptionFits, DocumentOfOwnCall, TerminatesOnlyForStreams
<1>3. HeldFits'
  BY DEF HeldFits
<1>4. LastErrorFits'
  BY LatestKept DEF LastErrorFits
<1> QED
  BY <1>1, <1>2, <1>3, <1>4

\* An exception leaves the tokenizer, the parser or the stream.
LEMMA RaiseStep ==
    ASSUME IndInv, place = "parsing", NEW e \in Exception,
           exception' = e, place' = "handling",
           e \in Error => e.type # "IO",
           e \in Other => function.input = "stream",
           UNCHANGED <<calls, function, stream, document, lastError, answers>>
    PROVE  IndInv'
<1> USE DEF IndInv
<1>1. TypeOK'
  BY DEF TypeOK, Place
<1>2. AnswersInOrder' /\ ExceptionFits' /\ DocumentOfOwnCall' /\ TerminatesOnlyForStreams'
  BY Kinds DEF AnswersInOrder, ExceptionFits, DocumentOfOwnCall, TerminatesOnlyForStreams
<1>3. HeldFits'
  BY DEF HeldFits
<1>4. LastErrorFits'
  BY LatestKept DEF LastErrorFits
<1> QED
  BY <1>1, <1>2, <1>3, <1>4

\* The handlers remember an Error, and clean up after a std::exception.
LEMMA HandleExceptionStep == ASSUME IndInv, HandleException PROVE IndInv'
<1> USE DEF IndInv, HandleException
<1>1. exception \in Exception
  BY DEF TypeOK, ExceptionFits
<1>2. TypeOK'
  BY <1>1, Kinds DEF TypeOK, Place
<1>3. AnswersInOrder' /\ ExceptionFits' /\ DocumentOfOwnCall' /\ TerminatesOnlyForStreams'
  BY <1>1, Kinds DEF AnswersInOrder, ExceptionFits, DocumentOfOwnCall, TerminatesOnlyForStreams
<1>4. HeldFits'
  <2>1. CASE exception.kind \in {"Error", "std"}
    BY <2>1 DEF HeldFits, LeftBehind
  <2>2. CASE exception.kind = "foreign"
    BY <2>2 DEF HeldFits, LeftBehind
  <2> QED
    BY <1>1, <2>1, <2>2, Kinds DEF Exception
<1>5. LastErrorFits'
  <2>1. CASE exception.kind = "Error"
    BY <2>1 DEF LastErrorFits, ExceptionFits
  <2>2. CASE exception.kind # "Error"
    BY <2>2, LatestKept DEF LastErrorFits
  <2> QED
    BY <2>1, <2>2
<1> QED
  BY <1>2, <1>3, <1>4, <1>5

----------------------------------------------------------------------------
\* The call being made gets its answer; the other answers stay.
LEMMA Answered ==
    ASSUME IndInv, place # "outside", NEW a \in Answer, AnswerWith(a), UNCHANGED calls
    PROVE  /\ calls \in CallNumber
           /\ answers' \in [CallNumber -> Answer]
           /\ answers'[calls] = a
           /\ \A c \in CallNumber \ {calls} : answers'[c] = answers[c]
           /\ AnswersInOrder'
           /\ ExceptionFits'
           /\ TerminatesOnlyForStreams'
<1> USE DEF IndInv, AnswerWith
<1>1. calls \in CallNumber
  BY MaxCallsAssumption DEF TypeOK, AnswersInOrder
<1>2. /\ answers' \in [CallNumber -> Answer]
      /\ answers'[calls] = a
      /\ \A c \in CallNumber \ {calls} : answers'[c] = answers[c]
  BY <1>1 DEF TypeOK
<1>3. AnswersInOrder'
  BY <1>1, <1>2, MaxCallsAssumption DEF AnswersInOrder, TypeOK
<1>4. ExceptionFits' /\ TerminatesOnlyForStreams'
  BY Kinds DEF ExceptionFits, TerminatesOnlyForStreams, NoError
<1> QED
  BY <1>1, <1>2, <1>3, <1>4

\* An answer that is no failure of a parse keeps the latest failure.
LEMMA NoNewFailure ==
    ASSUME IndInv, place # "outside", NEW a \in Answer, AnswerWith(a), UNCHANGED <<calls, lastError>>,
           LatestFailureIs(lastError),
           Failure(calls)' = NoError \/ Failure(calls)'.type = "IO"
    PROVE  LatestFailureIs(lastError)'
<1>1. /\ calls \in CallNumber
      /\ answers'[calls] = a
      /\ \A c \in CallNumber \ {calls} : answers'[c] = answers[c]
  BY Answered
<1>2. \A c \in CallNumber \ {calls} : Failure(c)' = Failure(c)
  BY <1>1 DEF Failure
<1>3. answers[calls] = NoError
  BY DEF IndInv, AnswersInOrder
<1>4. Failure(calls) = NoError
  BY <1>3 DEF Failure, NoError
<1>5. ParseFailures' = ParseFailures
  BY <1>1, <1>2, <1>4 DEF ParseFailures
<1>6. calls \notin ParseFailures
  BY <1>4 DEF ParseFailures
<1>7. \A c \in ParseFailures : c \in CallNumber \ {calls}
  BY <1>6 DEF ParseFailures
<1> QED
  BY <1>2, <1>5, <1>7 DEF LatestFailureIs

\* An answer that is the failure of a parse is the latest failure.
LEMMA NewFailure ==
    ASSUME IndInv, place # "outside", NEW a \in Answer, AnswerWith(a), UNCHANGED <<calls, lastError>>,
           lastError \in Error, lastError.type # "IO",
           Failure(calls)' = lastError
    PROVE  LatestFailureIs(lastError)'
<1>1. /\ calls \in CallNumber
      /\ \A c \in CallNumber \ {calls} : answers'[c] = answers[c]
  BY Answered
<1>2. calls \in ParseFailures'
  BY <1>1, Kinds DEF ParseFailures
<1>3. \A c \in CallNumber : c > calls => answers'[c] = NoError
  BY <1>1, MaxCallsAssumption DEF IndInv, AnswersInOrder
<1>4. \A c \in CallNumber : c > calls => Failure(c)' = NoError
  BY <1>3 DEF Failure, NoError
<1>5. \A d \in ParseFailures' : d <= calls
  BY <1>1, <1>4, MaxCallsAssumption DEF ParseFailures
<1> QED
  BY <1>2, <1>5 DEF LatestFailureIs

\* The document is returned.
LEMMA ReturnDocumentStep == ASSUME IndInv, ReturnDocument PROVE IndInv'
<1> USE DEF IndInv, ReturnDocument
<1> DEFINE a == [kind |-> "document", call |-> document]
<1>1. document = calls /\ calls \in CallNumber
  BY MaxCallsAssumption DEF HeldFits, TypeOK, AnswersInOrder
<1>2. a \in Answer
  BY <1>1 DEF Answer
<1> HIDE DEF a
<1>3. /\ answers' \in [CallNumber -> Answer]
      /\ answers'[calls] = a
      /\ \A c \in CallNumber \ {calls} : answers'[c] = answers[c]
      /\ AnswersInOrder' /\ ExceptionFits' /\ TerminatesOnlyForStreams'
  BY <1>2, Answered DEF a
<1>4. TypeOK'
  BY <1>3 DEF TypeOK, Place, AnswerWith
<1>5. DocumentOfOwnCall'
  BY <1>1, <1>3 DEF DocumentOfOwnCall, a
<1>6. HeldFits'
  BY DEF HeldFits, LeftBehind, AnswerWith
<1>7. Failure(calls)' = NoError
  BY <1>3 DEF Failure, a
<1>8. LatestFailureIs(lastError)
  BY DEF LastErrorFits
<1>9. LatestFailureIs(lastError)'
  BY <1>2, <1>7, <1>8, NoNewFailure DEF a
<1>10. LastErrorFits'
  BY <1>9 DEF LastErrorFits, AnswerWith
<1> QED
  BY <1>3, <1>4, <1>5, <1>6, <1>10

\* A call that fails is answered: by the exception or by a null pointer.
LEMMA FailStep ==
    ASSUME IndInv, place = "leaving", NEW a \in Answer, AnswerWith(a),
           UNCHANGED <<calls, function, stream, document, lastError>>,
           a.kind # "document",
           exception.kind = "foreign" => a = exception,
           Failure(calls)' = IF exception.kind = "Error" THEN exception ELSE NoError
    PROVE  IndInv'
<1> USE DEF IndInv
<1>1. exception \in Exception
  BY DEF TypeOK, ExceptionFits
<1>2. /\ calls \in CallNumber
      /\ answers' \in [CallNumber -> Answer]
      /\ answers'[calls] = a
      /\ \A c \in CallNumber \ {calls} : answers'[c] = answers[c]
      /\ AnswersInOrder' /\ ExceptionFits' /\ TerminatesOnlyForStreams'
  BY Answered
<1>3. TypeOK'
  BY <1>2 DEF TypeOK, Place, AnswerWith
<1>4. DocumentOfOwnCall'
  BY <1>2 DEF DocumentOfOwnCall
<1>5. HeldFits'
  <2>1. answers[calls] = NoError
    BY DEF AnswersInOrder
  <2>2. ASSUME NEW held \in CallNumber \cup {None}, LeftBehind(held), held # None
        PROVE  answers'[held].kind = "foreign"
    BY <1>2, <2>1, <2>2 DEF LeftBehind, NoError
  <2> QED
    BY <2>2 DEF HeldFits, LeftBehind, AnswerWith, TypeOK
<1>6. LatestFailureIs(lastError)'
  <2>1. CASE exception.kind = "Error" /\ exception.type # "IO"
    <3>1. lastError = exception
      BY <2>1 DEF LastErrorFits
    <3> QED
      BY <1>1, <2>1, <3>1, Kinds, NewFailure
  <2>2. CASE ~(exception.kind = "Error" /\ exception.type # "IO")
    <3>1. LatestFailureIs(lastError)
      BY <2>2 DEF LastErrorFits
    <3> QED
      BY <2>2, <3>1, NoNewFailure
  <2> QED
    BY <2>1, <2>2
<1>7. LastErrorFits'
  BY <1>6 DEF LastErrorFits, AnswerWith
<1> QED
  BY <1>2, <1>3, <1>4, <1>5, <1>7

LEMMA RethrowStep == ASSUME IndInv, Rethrow PROVE IndInv'
<1> USE DEF IndInv, Rethrow
<1>1. exception \in Exception /\ exception \in Answer
  BY DEF TypeOK, ExceptionFits, Answer
<1>2. answers'[calls] = exception
  BY <1>1, Answered
<1>3. Failure(calls)' = IF exception.kind = "Error" THEN exception ELSE NoError
  BY <1>1, <1>2, Kinds DEF Failure, Exception
<1>4. exception.kind # "document"
  BY <1>1, Kinds DEF Exception
<1> QED
  BY <1>1, <1>3, <1>4, FailStep

LEMMA ReturnNullStep == ASSUME IndInv, ReturnNull PROVE IndInv'
<1> USE DEF IndInv, ReturnNull
<1> DEFINE a == [kind |-> "null", error |-> exception]
<1>1. exception \in Error
  BY Kinds DEF TypeOK, ExceptionFits
<1>2. a \in Answer
  BY <1>1 DEF Answer
<1> HIDE DEF a
<1>3. AnswerWith(a) /\ a.kind = "null" /\ a.error = exception
  BY DEF a
<1>4. answers'[calls] = a
  BY <1>2, <1>3, Answered
<1>5. Failure(calls)' = exception
  BY <1>3, <1>4 DEF Failure
<1> QED
  BY <1>2, <1>3, <1>5, FailStep

\* The program is terminated.
LEMMA TerminateStep == ASSUME IndInv, Terminate PROVE IndInv'
<1> USE DEF IndInv, Terminate
<1>1. exception \in Exception
  BY DEF TypeOK, ExceptionFits
<1>2. exception \in Other
  BY <1>1, Kinds DEF Exception
<1>3. TypeOK'
  BY DEF TypeOK, Place
<1>4. AnswersInOrder' /\ ExceptionFits' /\ DocumentOfOwnCall' /\ TerminatesOnlyForStreams'
  BY <1>2, Kinds DEF AnswersInOrder, ExceptionFits, DocumentOfOwnCall, TerminatesOnlyForStreams
<1>5. HeldFits'
  BY DEF HeldFits, LeftBehind
<1>6. LastErrorFits'
  BY LatestKept DEF LastErrorFits
<1> QED
  BY <1>3, <1>4, <1>5, <1>6

----------------------------------------------------------------------------
\* Every step keeps the invariant.
LEMMA StepInvariant == IndInv /\ [Next]_vars => IndInv'
<1> SUFFICES ASSUME IndInv, [Next]_vars PROVE IndInv'
  OBVIOUS
<1>1. ASSUME NEW f \in Function, Call(f) PROVE IndInv'
  BY <1>1, CallStep
<1>2. CASE OpenFails
  BY <1>2, OpenFailsStep
<1>3. CASE StartParse
  BY <1>3, StartParseStep
<1>4. CASE SyntaxFails
  <2>1. NewError("Syntax") \in Error
    BY MaxCallsAssumption, <1>4 DEF SyntaxFails, NewError, Error, ErrorType, IndInv, TypeOK, AnswersInOrder
  <2>2. NewError("Syntax").type # "IO" /\ NewError("Syntax") \in Exception \ Other
    BY <2>1, Kinds DEF NewError, Exception, Other
  <2> QED
    BY <1>4, <2>2, RaiseStep DEF SyntaxFails, Raise
<1>5. CASE ReadFails
  <2>1. NewError("Encoding") \in Error
    BY MaxCallsAssumption, <1>5 DEF ReadFails, NewError, Error, ErrorType, IndInv, TypeOK, AnswersInOrder
  <2>2. NewError("Encoding").type # "IO" /\ NewError("Encoding") \in Exception \ Other
    BY <2>1, Kinds DEF NewError, Exception, Other
  <2> QED
    BY <1>5, <2>2, RaiseStep DEF ReadFails, Raise
<1>6. ASSUME NEW e \in Other, StreamThrows(e) PROVE IndInv'
  <2>1. e \in Exception /\ e \notin Error
    BY Kinds DEF Exception
  <2> QED
    BY <1>6, <2>1, RaiseStep DEF StreamThrows, Raise
<1>7. CASE ReturnDocument
  BY <1>7, ReturnDocumentStep
<1>8. CASE HandleException
  BY <1>8, HandleExceptionStep
<1>9. CASE Rethrow
  BY <1>9, RethrowStep
<1>10. CASE ReturnNull
  BY <1>10, ReturnNullStep
<1>11. CASE Terminate
  BY <1>11, TerminateStep
<1>12. CASE UNCHANGED vars
  BY <1>12 DEF vars, IndInv, TypeOK, AnswersInOrder, ExceptionFits, HeldFits, LeftBehind, LastErrorFits,
         LatestFailureIs, ParseFailures, Failure, DocumentOfOwnCall, TerminatesOnlyForStreams
<1> QED
  BY <1>1, <1>2, <1>3, <1>4, <1>5, <1>6, <1>7, <1>8, <1>9, <1>10, <1>11, <1>12 DEF Next

\* The inductive invariant: what is held, thrown and remembered at each place
\* of a call, for any number of calls.
THEOREM SessionInvariance == Spec => []IndInv
  BY InitInvariant, StepInvariant, PTL DEF Spec

\* A document is returned by the call that has parsed it, also after calls that
\* have failed.
THEOREM DocumentsNotMixedUp == Spec => []DocumentOfOwnCall
<1>1. IndInv => DocumentOfOwnCall
  BY DEF IndInv
<1> QED
  BY <1>1, SessionInvariance, PTL

\* Between calls the parser holds a stream or a document only of a call whose
\* stream has thrown what is no std::exception.
THEOREM NothingHeld == Spec => []HoldsNothing
<1>1. IndInv => HoldsNothing
  BY DEF IndInv, HeldFits, LeftBehind, HoldsNothing
<1> QED
  BY <1>1, SessionInvariance, PTL

\* lastError is the error of the latest parse that has failed.
THEOREM LastErrorIsLatest == Spec => []LastErrorOfLatestFailure
<1>1. IndInv => LastErrorOfLatestFailure
  BY DEF IndInv, LastErrorFits, LastErrorOfLatestFailure
<1> QED
  BY <1>1, SessionInvariance, PTL

\* Only an exception of a stream of the user that is no Error ends the program.
THEOREM TerminationNeedsStream == Spec => []TerminatesOnlyForStreams
<1>1. IndInv => TerminatesOnlyForStreams
  BY DEF IndInv
<1> QED
  BY <1>1, SessionInvariance, PTL

=============================================================================
