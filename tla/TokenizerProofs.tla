--------------------------- MODULE TokenizerProofs ---------------------------
(***************************************************************************)
(* Proofs about module Tokenizer, for all documents and limits: every step *)
(* of the tokenizer is a step of CharReader, and no token is longer than   *)
(* its limit allows.                                                       *)
(*                                                                         *)
(* The first part says what a step of each kind (to skip, consume or write *)
(* a character, to go on, to create a token, to throw an error) asks for,  *)
(* in terms of the point it leads to.  The second part takes the actions   *)
(* one by one and has to look at points and characters only.               *)
(***************************************************************************)
EXTENDS TokenizerInvariant, CharReaderProofs, SequenceTheorems

\* What the tokenizer can write is a character.
WritesCharacters == 0..LastCharacter \subseteq Writable

\* The tokenizer changes its context only where it hands out a token.
KeepsContext ==
    /\ tokenizer'.context = tokenizer.context /\ tokenizer'.nesting = tokenizer.nesting
    /\ tokenizer'.specification = tokenizer.specification
    /\ place' # "end"
    /\ run.at = "created" => run'.at = "created"

\* Members of the tokenizer in the same context.
Alike(m, n) == m.context = n.context /\ m.nesting = n.nesting /\ m.specification = n.specification

\* A step that keeps the invariant and is one of the reader.
IsGood ==
    /\ TokenInv'
    /\ WritesCharacters => [Next]_vars
    /\ ReadEnd \/ ReturnToken \/ KeepsContext

-------------------------------------------------------------------------------
(* The size of a text                                                      *)

\* The empty text has no size.
LEMMA EmptySize == SizeOf(<<>>) = 0
<1>1. {i \in DOMAIN <<>> : <<>>[i] >= 65536} = {}
  OBVIOUS
<1> QED
  BY <1>1, FS_EmptySet DEF SizeOf

\* A text is at least as large as it is long.
LEMMA SizeType ==
    ASSUME NEW text \in Seq(Nat)
    PROVE  SizeOf(text) \in Nat /\ Len(text) <= SizeOf(text)
<1> DEFINE wide == {i \in DOMAIN text : text[i] >= 65536}
<1>1. wide \subseteq 1..Len(text) /\ Len(text) \in Nat
  OBVIOUS
<1>2. IsFiniteSet(wide)
  BY <1>1, FS_Interval, FS_Subset
<1>3. Cardinality(wide) \in Nat
  BY <1>2, FS_CardinalityType
<1>4. SizeOf(text) = Len(text) + Cardinality(wide)
  BY DEF SizeOf
<1> HIDE DEF wide
<1> QED
  BY <1>1, <1>3, <1>4

\* One character more makes a text larger by one or, outside of the basic
\* plane, by two.
LEMMA SizeAppended ==
    ASSUME NEW text \in Seq(Nat), NEW c \in Nat
    PROVE  /\ Append(text, c) \in Seq(Nat)
           /\ Len(Append(text, c)) = Len(text) + 1
           /\ SizeOf(Append(text, c)) = SizeOf(text) + (IF c < 65536 THEN 1 ELSE 2)
<1> DEFINE n == Len(text)
           more == Append(text, c)
           wide == {i \in DOMAIN text : text[i] >= 65536}
           wider == {i \in DOMAIN more : more[i] >= 65536}
<1>1. /\ n \in Nat /\ DOMAIN text = 1..n /\ more \in Seq(Nat) /\ Len(more) = n + 1
      /\ DOMAIN more = 1..(n + 1) /\ more[n + 1] = c
      /\ \A i \in 1..n : more[i] = text[i]
  OBVIOUS
<1>2. wide \subseteq 1..n
  BY <1>1
<1>4. ASSUME c < 65536 PROVE wider \subseteq wide /\ wide \subseteq wider
  BY <1>1, <1>4
<1>8. ASSUME ~(c < 65536) PROVE wider \subseteq wide \cup {n + 1} /\ wide \cup {n + 1} \subseteq wider
  BY <1>1, <1>8
<1>5. SizeOf(text) = n + Cardinality(wide) /\ SizeOf(more) = (n + 1) + Cardinality(wider)
  BY <1>1 DEF SizeOf
<1> HIDE DEF wide, wider, more, n
<1>3. IsFiniteSet(wide) /\ Cardinality(wide) \in Nat /\ n + 1 \notin wide
  <2>1. IsFiniteSet(1..n)
    BY <1>1, FS_Interval
  <2>2. IsFiniteSet(wide)
    <3>1. wide \in SUBSET (1..n)
      BY <1>2
    <3> QED
      BY <2>1, <3>1, FS_Subset
  <2>3. Cardinality(wide) \in Nat
    BY <2>2, FS_CardinalityType
  <2>4. n + 1 \notin wide
    BY <1>1, <1>2
  <2> QED
    BY <2>2, <2>3, <2>4
<1>6. CASE c < 65536
  <2>1. wider \subseteq wide /\ wide \subseteq wider
    BY <1>4, <1>6
  <2>2. wider = wide
    BY <2>1
  <2> QED
    BY <1>1, <1>3, <1>5, <1>6, <2>2 DEF more, n
<1>7. CASE ~(c < 65536)
  <2>0. wider \subseteq wide \cup {n + 1} /\ wide \cup {n + 1} \subseteq wider
    BY <1>7, <1>8
  <2>1. wider = wide \cup {n + 1}
    BY <2>0
  <2>2. Cardinality(wider) = Cardinality(wide) + 1
    BY <1>3, <2>1, FS_AddElement
  <2> QED
    BY <1>1, <1>3, <1>5, <1>7, <2>2 DEF more, n
<1> QED
  BY <1>6, <1>7

-------------------------------------------------------------------------------
(* Steps of each kind                                                      *)

\* The room a character takes in a text.
Width(c) == IF c < 65536 THEN 1 ELSE 2

\* What is known of the numbers in Fits.
LEMMA Numbers ==
    ASSUME TokenInv
    PROVE  /\ token \in Seq(Nat) /\ Len(token) \in Nat /\ tokenSize \in Nat /\ Len(token) <= tokenSize
           /\ Passed \in Int /\ char \in Nat
           /\ run \in Points /\ tokenizer \in Members
<1>1. token \in Seq(Nat) /\ location \in Location /\ startLocation \in Location /\ char \in Nat
  BY DEF TokenInv, IndInv, TypeOK
<1>2. Passed \in Int
  BY <1>1 DEF Passed, Location
<1>3. tokenSize \in Nat /\ Len(token) <= tokenSize
  BY <1>1, SizeType DEF tokenSize
<1> QED
  BY <1>1, <1>2, <1>3 DEF TokenInv

\* A limit is not exceeded only because more can follow.
LEMMA LooserAtEnd ==
    ASSUME NEW type, NEW size \in Nat, IsWithinLimit(type, size, FALSE), NEW b \in BOOLEAN
    PROVE  IsWithinLimit(type, size, b)
<1>1. cIntOrFloatCharacterLimit \in Nat
  BY LimitsAssumption
<1> QED
  BY <1>1 DEF IsWithinLimit

\* Tokens delivered stay within their limits while nothing is delivered.
LEMMA LimitsKept ==
    ASSUME TokenInv, UNCHANGED <<tokens, types>>,
           \/ place \in {"inside", "newLine"}
           \/ place' \notin {"inside", "newLine"} /\ UNCHANGED <<seen, char, position, document>>
    PROVE  AllWithinLimits'
<1> SUFFICES ASSUME NEW i \in Delivered
             PROVE  IsWithinLimit(types[i], SizeOf(tokens[i].text), IsClosed(i)')
  <2>1. Delivered' = Delivered
    BY DEF Delivered
  <2> QED
    BY <2>1 DEF AllWithinLimits, IsWithinLimit
<1>1. SizeOf(tokens[i].text) \in Nat
  <2>1. i \in DOMAIN tokens
    BY DEF Delivered, TokenInv, IndInv, TypeOK
  <2>2. tokens[i] \in Token
    BY <2>1 DEF TokenInv, IndInv, TypeOK
  <2> QED
    BY <2>2, SizeType DEF Token
<1>2. IsWithinLimit(types[i], SizeOf(tokens[i].text), IsClosed(i))
  BY DEF TokenInv, AllWithinLimits
<1>3. IsClosed(i) \in BOOLEAN /\ IsClosed(i)' \in BOOLEAN
  BY DEF IsClosed
<1>4. IsClosed(i) = FALSE \/ IsClosed(i)' = IsClosed(i)
  <2>1. CASE place \in {"inside", "newLine"}
    BY <2>1 DEF IsClosed
  <2>2. CASE place \notin {"inside", "newLine"} /\ place' \notin {"inside", "newLine"} /\ UNCHANGED <<seen, char, position, document>>
    BY <2>2 DEF IsClosed, atEnd
  <2> QED
    BY <2>1, <2>2
<1> QED
  BY <1>1, <1>2, <1>3, <1>4, LooserAtEnd

\* Inside a token, from one point to the next.
LEMMA PointReached ==
    ASSUME TokenInv, place \in {"inside", "newLine"}, IndInv',
           run' \in Points, tokenizer' \in Members, UNCHANGED <<tokens, types>>,
           place' \in {"inside", "newLine"} =>
              /\ hasChar' <=> ~atEnd'
              /\ Fits(run'.at, run'.type, run'.count, tokenizer', Len(token'), tokenSize', Passed'),
           place' # "between"
    PROVE  TokenInv'
<1>1. AllWithinLimits'
  BY LimitsKept
<1>2. types' \in Seq(TokenTypes) /\ Len(types') = Len(tokens')
  BY DEF TokenInv
<1> QED
  BY <1>1, <1>2 DEF TokenInv

\* A character is passed: the reader's part of skipChar.
LEMMA CharacterPassed ==
    ASSUME TokenInv, place \in {"inside", "newLine"}, NEW next \in {"inside", "newLine"}, skipChar(next),
           token' \in Seq(Nat), UNCHANGED <<document, startLocation, tokens>>
    PROVE  /\ IndInv'
           /\ place' \in {next, "encoding"}
           /\ place' # "encoding" => (hasChar' <=> ~atEnd')
           /\ Passed' = Passed + 1
<1>1. IndInv'
  BY CharacterSkipped DEF TokenInv, Place
<1>2. Passed' = Passed + 1
  BY DEF TokenInv, IndInv, TypeOK, Passed, Location, skipChar, increment
<1>3. /\ place' \in {next, "encoding"}
      /\ place' # "encoding" => (hasChar' <=> ~atEnd')
  BY DEF skipChar, ReadNext, atEnd
<1> QED
  BY <1>1, <1>2, <1>3

\* A step inside a token changes nothing else of the tokenizer.
LEMMA ContextKept ==
    ASSUME TokenInv, place \in {"inside", "newLine"}, Alike(tokenizer', tokenizer), place' # "end"
    PROVE  KeepsContext
  BY DEF TokenInv, Fits, Alike, KeepsContext

\* skipChar, from one point to the next.
LEMMA SkipGood ==
    ASSUME TokenInv,
           \/ place = "inside" /\ Accepted
           \/ place = "newLine" /\ char = LF,
           NEW next \in Points, NEW members \in Members, Alike(members, tokenizer), SkipAs(next, members),
           Fits(next.at, next.type, next.count, members, Len(token), tokenSize, Passed + 1)
    PROVE  IsGood
<1>1. token' = token /\ token \in Seq(Nat) /\ tokenSize' = tokenSize
  BY Numbers DEF SkipAs, tokenSize
<1>2. /\ IndInv' /\ place' \in {"inside", "encoding"}
      /\ place' # "encoding" => (hasChar' <=> ~atEnd')
      /\ Passed' = Passed + 1
  BY <1>1, CharacterPassed DEF SkipAs
<1>3. TokenInv'
  BY <1>1, <1>2, PointReached DEF SkipAs
<1>4. SkipChar \/ SkipLineFeed
  BY DEF SkipAs, SkipChar, SkipLineFeed
<1>5. KeepsContext
  BY <1>2, ContextKept DEF SkipAs
<1> QED
  BY <1>3, <1>4, <1>5 DEF IsGood, Next

\* consumeChar, from one point to the next.
LEMMA ConsumeGood ==
    ASSUME TokenInv,
           \/ place = "inside" /\ Accepted
           \/ place = "newLine" /\ char = LF,
           NEW next \in Points, NEW members \in Members, Alike(members, tokenizer), ConsumeAs(next, members),
           Fits(next.at, next.type, next.count, members, Len(token) + 1, tokenSize + Width(char), Passed + 1)
    PROVE  IsGood
<1>1. /\ token' \in Seq(Nat) /\ Len(token') = Len(token) + 1
      /\ tokenSize' = tokenSize + Width(char)
  BY Numbers, SizeAppended DEF ConsumeAs, tokenSize, Width
<1>2. /\ IndInv' /\ place' \in {"inside", "encoding"}
      /\ place' # "encoding" => (hasChar' <=> ~atEnd')
      /\ Passed' = Passed + 1
  BY <1>1, CharacterPassed DEF ConsumeAs
<1>3. TokenInv'
  BY <1>1, <1>2, PointReached DEF ConsumeAs
<1>4. ConsumeChar \/ ConsumeLineFeed
  BY DEF ConsumeAs, ConsumeChar, ConsumeLineFeed
<1>5. KeepsContext
  BY <1>2, ContextKept DEF ConsumeAs
<1> QED
  BY <1>3, <1>4, <1>5 DEF IsGood, Next

\* skipCharAndWrite, from one point to the next.
LEMMA SkipAndWriteGood ==
    ASSUME TokenInv, place = "inside", Accepted,
           NEW next \in Points, NEW c \in 0..LastCharacter, SkipAndWrite(c, next),
           Fits(next.at, next.type, next.count, tokenizer, Len(token) + 1, tokenSize + Width(c), Passed + 1)
    PROVE  IsGood
<1>0. c \in Nat
  OBVIOUS
<1>1. /\ place' = "encoding" => token' = token
      /\ place' # "encoding" =>
            /\ token' = Append(token, c) /\ Len(token') = Len(token) + 1
            /\ tokenSize' = tokenSize + Width(c)
      /\ token' \in Seq(Nat)
  BY <1>0, Numbers, SizeAppended DEF SkipAndWrite, tokenSize, Width
<1>2. /\ IndInv' /\ place' \in {"inside", "encoding"}
      /\ place' # "encoding" => (hasChar' <=> ~atEnd')
      /\ Passed' = Passed + 1
  BY <1>1, CharacterPassed DEF SkipAndWrite
<1>3. TokenInv'
  BY <1>1, <1>2, Numbers, PointReached DEF SkipAndWrite
<1>4. WritesCharacters => SkipCharAndWrite
  BY <1>1 DEF SkipAndWrite, SkipCharAndWrite, WritesCharacters
<1>5. KeepsContext
  BY <1>2, ContextKept DEF SkipAndWrite, Alike
<1> QED
  BY <1>3, <1>4, <1>5 DEF IsGood, Next

\* writeToToken: something was passed before that is not in the token yet.
LEMMA WriteGood ==
    ASSUME TokenInv, place = "inside",
           NEW next \in Points, NEW c \in 0..LastCharacter, Write(c, next),
           Len(token) < Passed,
           Fits(next.at, next.type, next.count, tokenizer, Len(token) + 1, tokenSize + Width(c), Passed)
    PROVE  IsGood
<1>0. c \in Nat
  OBVIOUS
<1>1. /\ token' \in Seq(Nat) /\ Len(token') = Len(token) + 1
      /\ tokenSize' = tokenSize + Width(c)
  BY <1>0, Numbers, SizeAppended DEF Write, tokenSize, Width
<1>2. IndInv'
  <2>1. TypeOK' /\ (hasChar' => ~atEnd')
    BY <1>1 DEF Write, TokenInv, IndInv, TypeOK, atEnd
  <2> QED
    BY <2>1, NothingTaken DEF Write, TokenInv
<1>3. Passed' = Passed /\ (hasChar' <=> ~atEnd')
  BY DEF Write, Passed, atEnd, TokenInv
<1>4. TokenInv'
  BY <1>1, <1>2, <1>3, Numbers, PointReached DEF Write
<1>5. WritesCharacters => WriteToToken
  BY DEF Write, WriteToToken, WritesCharacters, Passed
<1>6. KeepsContext
  BY ContextKept DEF Write, Alike
<1> QED
  BY <1>4, <1>5, <1>6 DEF IsGood, Next

\* The same character is looked at from another point.
LEMMA ContinueGood ==
    ASSUME TokenInv, place = "inside",
           NEW next \in Points, NEW members \in Members, Alike(members, tokenizer), ContinueAs(next, members),
           Fits(next.at, next.type, next.count, members, Len(token), tokenSize, Passed)
    PROVE  IsGood
<1>1. UNCHANGED vars
  BY DEF ContinueAs
<1>2. IndInv'
  BY <1>1, StepInvariant DEF TokenInv
<1>3. Passed' = Passed /\ (hasChar' <=> ~atEnd') /\ token' = token /\ tokenSize' = tokenSize
  BY <1>1 DEF vars, Passed, atEnd, tokenSize, TokenInv
<1>4. TokenInv'
  BY <1>1, <1>2, <1>3, PointReached DEF ContinueAs, vars
<1>5. KeepsContext
  BY <1>1, ContextKept DEF ContinueAs, vars
<1> QED
  BY <1>1, <1>4, <1>5 DEF IsGood

\* A syntax error ends everything.
LEMMA ThrowGood ==
    ASSUME TokenInv, place \in {"between", "inside", "newLine"}, throwSyntaxError
    PROVE  IsGood
<1>1. Reject
  BY DEF throwSyntaxError, Reject
<1>2. IndInv'
  BY <1>1, StepInvariant DEF TokenInv, Next
<1>3. AllWithinLimits'
  BY LimitsKept DEF throwSyntaxError
<1>4. TokenInv'
  BY <1>2, <1>3 DEF throwSyntaxError, TokenInv
<1>5. KeepsContext
  BY DEF throwSyntaxError, KeepsContext
<1> QED
  BY <1>1, <1>4, <1>5 DEF IsGood, Next

\* Changing the point,
LEMMA PointTyped ==
    ASSUME run \in Points, NEW point \in PointNames
    PROVE  /\ To(point) \in Points
           /\ To(point).at = point /\ To(point).type = run.type /\ To(point).count = run.count
  BY DEF Points, To

\* the point and the type of the token,
LEMMA PointTypeTyped ==
    ASSUME run \in Points, NEW point \in PointNames, NEW type \in TokenTypes
    PROVE  /\ ToType(point, type) \in Points
           /\ ToType(point, type).at = point /\ ToType(point, type).type = type
           /\ ToType(point, type).count = run.count
  BY DEF Points, ToType

\* or the point and the number.
LEMMA PointCountTyped ==
    ASSUME run \in Points, NEW point \in PointNames, NEW count \in Nat
    PROVE  /\ ToCount(point, count) \in Points
           /\ ToCount(point, count).at = point /\ ToCount(point, count).count = count
           /\ ToCount(point, count).type = run.type
  BY DEF Points, ToCount

\* Changing a member of the tokenizer: the kind of quotes,
LEMMA QuotesTyped ==
    ASSUME NEW m \in Members, NEW s \in {"None", "Literal", "Regular"}
    PROVE  /\ [m EXCEPT !.quotes = s] \in Members /\ Alike([m EXCEPT !.quotes = s], m)
           /\ [m EXCEPT !.quotes = s].sign = m.sign
  BY DEF Members, Alike

\* how many quotes it has,
LEMMA ModeTyped ==
    ASSUME NEW m \in Members, NEW s \in {"None", "SingleLine", "MultiLine"}
    PROVE  /\ [m EXCEPT !.mode = s] \in Members /\ Alike([m EXCEPT !.mode = s], m)
           /\ [m EXCEPT !.mode = s].sign = m.sign
  BY DEF Members, Alike

\* the sign that was read.
LEMMA SignTyped ==
    ASSUME NEW m \in Members, NEW s \in {"None", "Plus", "Minus"}
    PROVE  /\ [m EXCEPT !.sign = s] \in Members /\ Alike([m EXCEPT !.sign = s], m)
           /\ [m EXCEPT !.sign = s].sign = s
  BY DEF Members, Alike

\* createToken, for a token of at least one character.
LEMMA CreateGood ==
    ASSUME TokenInv, place = "inside", NEW type \in TokenTypes, createToken(type), Passed > 0,
           IsWithinLimit(type, tokenSize, ~hasChar), type \in Brackets => tokenizer.context = "Value"
    PROVE  IsGood
<1> DEFINE t == [text |-> token, begin |-> startLocation, end |-> location]
<1>0. PICK n \in Nat : n = Len(tokens)
  BY DEF TokenInv, IndInv, TypeOK
<1>1. CreateToken
  BY DEF createToken, CreateToken, Passed, TokenInv, IndInv, TypeOK, Location
<1>2. IndInv'
  BY <1>1, StepInvariant DEF TokenInv, Next
<1>3. /\ run' \in Points /\ run'.at = "created"
      /\ tokenizer' \in Members /\ Alike(tokenizer', tokenizer)
      /\ token' = <<>> /\ startLocation' = location /\ location' = location /\ place' = "between"
  <2>1. run' = To("created") /\ To("created") \in Points /\ To("created").at = "created"
    <3>1. "created" \in PointNames
      BY DEF PointNames
    <3> QED
      BY <3>1, Numbers, PointTyped DEF createToken
  <2>2. tokenizer' \in Members /\ Alike(tokenizer', tokenizer)
    <3> DEFINE m == [tokenizer EXCEPT !.quotes = "None"]
    <3>1. tokenizer' = [m EXCEPT !.mode = "None"]
      BY Zenon DEF createToken
    <3>2. m \in Members /\ Alike(m, tokenizer)
      BY Numbers, QuotesTyped
    <3> HIDE DEF m
    <3>3. tokenizer' \in Members /\ Alike(tokenizer', m)
      BY <3>1, <3>2, ModeTyped
    <3> QED
      BY <3>2, <3>3 DEF Alike
  <2> QED
    BY <2>1, <2>2 DEF createToken, takeToken
<1>4. /\ DOMAIN tokens = 1..n /\ DOMAIN types = 1..n
      /\ DOMAIN tokens' = 1..(n + 1) /\ DOMAIN types' = 1..(n + 1)
      /\ types' \in Seq(TokenTypes) /\ Len(types') = Len(tokens')
      /\ tokens'[n + 1] = t /\ types'[n + 1] = type
      /\ \A i \in 1..n : tokens'[i] = tokens[i] /\ types'[i] = types[i]
  BY <1>0 DEF createToken, takeToken, TokenInv, IndInv, TypeOK
<1>5. ASSUME NEW i \in 1..n, i \in Delivered'
      PROVE  IsWithinLimit(types'[i], SizeOf(tokens'[i].text), IsClosed(i)')
  <2>1. i \in Delivered
    BY <1>4, <1>5 DEF Delivered
  <2>2. SizeOf(tokens[i].text) \in Nat
    <3>1. tokens[i] \in Token
      BY <1>4 DEF TokenInv, IndInv, TypeOK
    <3> QED
      BY <3>1, SizeType DEF Token
  <2>3. IsClosed(i) = FALSE
    BY DEF IsClosed
  <2>4. IsWithinLimit(types[i], SizeOf(tokens[i].text), FALSE)
    BY <2>1, <2>3 DEF TokenInv, AllWithinLimits
  <2>5. IsClosed(i)' \in BOOLEAN
    BY DEF IsClosed
  <2> QED
    BY <1>4, <2>2, <2>4, <2>5, LooserAtEnd
<1>6. IsWithinLimit(types'[n + 1], SizeOf(tokens'[n + 1].text), IsClosed(n + 1)')
  <2>1. location.index = Len(seen) /\ seen' = seen /\ (hasChar <=> ~atEnd) /\ hasChar \in BOOLEAN
    BY DEF TokenInv, IndInv, LocationFits, TypeOK, createToken
  <2>3. tokens'[n + 1].end = location /\ tokens'[n + 1].text = token /\ types'[n + 1] = type
    BY <1>4
  <2>4. atEnd' = atEnd /\ place' \notin {"inside", "newLine"}
    BY DEF createToken, atEnd
  <2>5. IsClosed(n + 1)' <=> (tokens'[n + 1].end.index = Len(seen') /\ atEnd' /\ place' \notin {"inside", "newLine"})
    BY DEF IsClosed
  <2> HIDE DEF t
  <2>6. IsClosed(n + 1)' <=> ~hasChar
    BY <2>1, <2>3, <2>4, <2>5
  <2>7. IsClosed(n + 1)' \in BOOLEAN
    BY DEF IsClosed
  <2>2. IsClosed(n + 1)' = ~hasChar
    BY <2>1, <2>6, <2>7
  <2> QED
    BY <2>2, <2>3 DEF tokenSize
<1>7. AllWithinLimits'
  <2>1. ASSUME NEW i \in Delivered' PROVE i \in 1..n \/ i = n + 1
    BY <1>4 DEF Delivered
  <2>2. ASSUME NEW i \in Delivered'
        PROVE  IsWithinLimit(types'[i], SizeOf(tokens'[i].text), IsClosed(i)')
    <3>1. CASE i \in 1..n
      BY <1>5, <2>2, <3>1
    <3>2. CASE i = n + 1
      BY <1>6, <3>2
    <3> QED
      BY <2>1, <2>2, <3>1, <3>2
  <2> QED
    BY <2>2 DEF AllWithinLimits
<1>8. types' # <<>> /\ (types'[Len(types')] \in Brackets => tokenizer'.context = "Value")
  <2>1. Len(types') = n + 1 /\ types' # <<>>
    BY <1>0, <1>4
  <2> QED
    BY <1>3, <1>4, <2>1 DEF Alike
<1>9. TokenInv'
  BY <1>2, <1>3, <1>4, <1>7, <1>8 DEF TokenInv
<1>10. KeepsContext
  BY <1>3, ContextKept
<1> QED
  BY <1>1, <1>9, <1>10 DEF IsGood, Next

-------------------------------------------------------------------------------
(* Steps to a point                                                        *)

\* What a step asks for that skips the character ahead, consumes it, looks at
\* it again, or writes c.
SkipFits(at, type, count) ==
    Fits(at, type, count, tokenizer, Len(token), tokenSize, Passed + 1)
ConsumeFits(at, type, count) ==
    Fits(at, type, count, tokenizer, Len(token) + 1, tokenSize + Width(char), Passed + 1)
ContinueFits(at, type, count) ==
    Fits(at, type, count, tokenizer, Len(token), tokenSize, Passed)
WriteFits(at, type, count, c) ==
    Fits(at, type, count, tokenizer, Len(token) + 1, tokenSize + Width(c), Passed)

\* Inside a token, where a character is accepted, or the second one of a new line.
CanPass == TokenInv /\ ((place = "inside" /\ Accepted) \/ (place = "newLine" /\ char = LF))
CanStay == TokenInv /\ place = "inside"

\* The points and types by name.
LEMMA KnownPoints ==
    /\ {"read", "created", "begin", "whiteSpace", "comment", "finish", "bareKey", "word",
        "thirdQuote", "endQuotes", "closing", "quotes", "firstDigit", "dateSpace", "secondFraction",
        "zone"} \subseteq PointNames
    /\ {"expectMore", "openName", "closeName", "sign", "secondQuote", "firstLine", "content",
        "escape", "blanks", "lines", "hex", "fraction", "exponent", "exponentDigit"} \subseteq PointNames
    /\ {"integer", "prefix", "fractionDigits", "exponentDigits"} \subseteq PointNames
    /\ {"month", "day", "hour", "minute", "second", "zoneHour", "zoneMinute"} \subseteq PointNames
  BY DEF PointNames, Expecting, DigitLoops, DigitGroups

\* A character is skipped, and only the point changes,
LEMMA SkipToGood ==
    ASSUME CanPass, NEW at \in PointNames, Skip(To(at)), SkipFits(at, run.type, run.count)
    PROVE  IsGood
<1>1. To(at) \in Points /\ To(at).at = at /\ To(at).type = run.type /\ To(at).count = run.count
  BY Numbers, PointTyped DEF CanPass
<1> QED
  BY <1>1, Numbers, SkipGood DEF CanPass, Skip, SkipFits, Alike

\* the type of the token, too,
LEMMA SkipToTypeGood ==
    ASSUME CanPass, NEW at \in PointNames, NEW type \in TokenTypes, Skip(ToType(at, type)),
           SkipFits(at, type, run.count)
    PROVE  IsGood
<1>1. /\ ToType(at, type) \in Points /\ ToType(at, type).at = at /\ ToType(at, type).type = type
      /\ ToType(at, type).count = run.count
  BY Numbers, PointTypeTyped DEF CanPass
<1> QED
  BY <1>1, Numbers, SkipGood DEF CanPass, Skip, SkipFits, Alike

\* or the number.
LEMMA SkipToCountGood ==
    ASSUME CanPass, NEW at \in PointNames, NEW count \in Nat, Skip(ToCount(at, count)),
           SkipFits(at, run.type, count)
    PROVE  IsGood
<1>1. /\ ToCount(at, count) \in Points /\ ToCount(at, count).at = at
      /\ ToCount(at, count).count = count /\ ToCount(at, count).type = run.type
  BY Numbers, PointCountTyped DEF CanPass
<1> QED
  BY <1>1, Numbers, SkipGood DEF CanPass, Skip, SkipFits, Alike

\* A character is consumed, and only the point changes,
LEMMA ConsumeToGood ==
    ASSUME CanPass, NEW at \in PointNames, Consume(To(at)), ConsumeFits(at, run.type, run.count)
    PROVE  IsGood
<1>1. To(at) \in Points /\ To(at).at = at /\ To(at).type = run.type /\ To(at).count = run.count
  BY Numbers, PointTyped DEF CanPass
<1> QED
  BY <1>1, Numbers, ConsumeGood DEF CanPass, Consume, ConsumeFits, Alike

\* the type of the token, too,
LEMMA ConsumeToTypeGood ==
    ASSUME CanPass, NEW at \in PointNames, NEW type \in TokenTypes, Consume(ToType(at, type)),
           ConsumeFits(at, type, run.count)
    PROVE  IsGood
<1>1. /\ ToType(at, type) \in Points /\ ToType(at, type).at = at /\ ToType(at, type).type = type
      /\ ToType(at, type).count = run.count
  BY Numbers, PointTypeTyped DEF CanPass
<1> QED
  BY <1>1, Numbers, ConsumeGood DEF CanPass, Consume, ConsumeFits, Alike

\* or the number.
LEMMA ConsumeToCountGood ==
    ASSUME CanPass, NEW at \in PointNames, NEW count \in Nat, Consume(ToCount(at, count)),
           ConsumeFits(at, run.type, count)
    PROVE  IsGood
<1>1. /\ ToCount(at, count) \in Points /\ ToCount(at, count).at = at
      /\ ToCount(at, count).count = count /\ ToCount(at, count).type = run.type
  BY Numbers, PointCountTyped DEF CanPass
<1> QED
  BY <1>1, Numbers, ConsumeGood DEF CanPass, Consume, ConsumeFits, Alike

\* The character is looked at again, and only the point changes,
LEMMA ContinueToGood ==
    ASSUME CanStay, NEW at \in PointNames, Continue(To(at)), ContinueFits(at, run.type, run.count)
    PROVE  IsGood
<1>1. To(at) \in Points /\ To(at).at = at /\ To(at).type = run.type /\ To(at).count = run.count
  BY Numbers, PointTyped DEF CanStay
<1> QED
  BY <1>1, Numbers, ContinueGood DEF CanStay, Continue, ContinueFits, Alike

\* or the number, too.
LEMMA ContinueToCountGood ==
    ASSUME CanStay, NEW at \in PointNames, NEW count \in Nat, Continue(ToCount(at, count)),
           ContinueFits(at, run.type, count)
    PROVE  IsGood
<1>1. /\ ToCount(at, count) \in Points /\ ToCount(at, count).at = at
      /\ ToCount(at, count).count = count /\ ToCount(at, count).type = run.type
  BY Numbers, PointCountTyped DEF CanStay
<1> QED
  BY <1>1, Numbers, ContinueGood DEF CanStay, Continue, ContinueFits, Alike

-------------------------------------------------------------------------------
(* Tokenizer::read                                                         *)

\* The end of the document is a token of its own, without a limit.
LEMMA ReadEndGood == ASSUME TokenInv, ReadEnd PROVE IsGood
<1>1. ReadEndOfDocument /\ types' = Append(types, "EndOfDocument") /\ UNCHANGED <<tokenizer, run>>
  BY DEF ReadEnd
<1>2. IndInv'
  BY <1>1, StepInvariant DEF TokenInv, Next
<1>3. PICK n \in Nat : n = Len(tokens)
  BY DEF TokenInv, IndInv, TypeOK
<1>4. /\ DOMAIN tokens = 1..n /\ DOMAIN types = 1..n
      /\ DOMAIN tokens' = 1..(n + 1) /\ DOMAIN types' = 1..(n + 1)
      /\ types' \in Seq(TokenTypes) /\ Len(types') = Len(tokens')
      /\ types'[n + 1] = "EndOfDocument"
      /\ \A i \in 1..n : tokens'[i] = tokens[i] /\ types'[i] = types[i]
  <2>1. "EndOfDocument" \in TokenTypes
    BY DEF TokenTypes, SimpleTypes, Brackets
  <2> QED
    BY <1>1, <1>3, <2>1 DEF ReadEndOfDocument, takeToken, TokenInv, IndInv, TypeOK
<1>5. AllWithinLimits'
  <2> SUFFICES ASSUME NEW i \in Delivered'
               PROVE  IsWithinLimit(types'[i], SizeOf(tokens'[i].text), IsClosed(i)')
    BY DEF AllWithinLimits
  <2>1. i \in 1..n /\ i \in Delivered
    BY <1>4 DEF Delivered
  <2>2. IsWithinLimit(types[i], SizeOf(tokens[i].text), IsClosed(i))
    BY <2>1 DEF TokenInv, AllWithinLimits
  <2>3. types'[i] = types[i] /\ tokens'[i] = tokens[i]
    BY <1>4, <2>1
  <2>4. IsClosed(i)' = IsClosed(i)
    BY <1>1, <2>3 DEF ReadEndOfDocument, IsClosed, atEnd
  <2> QED
    BY <2>2, <2>3, <2>4
<1>6. TokenInv'
  BY <1>1, <1>2, <1>4, <1>5 DEF TokenInv, ReadEndOfDocument
<1> QED
  BY <1>1, <1>6 DEF IsGood, Next

\* Tokens keep within their limits while the next one begins.
LEMMA ReadNextCharGood == ASSUME TokenInv, ReadNextChar PROVE IsGood
<1>1. BeginToken /\ run' = To("begin") /\ UNCHANGED <<tokenizer, types, tokens, seen, document>>
  BY DEF ReadNextChar, BeginToken
<1>2. IndInv'
  BY <1>1, StepInvariant DEF TokenInv, Next
<1>3. run' \in Points /\ run'.at = "begin"
  BY <1>1, Numbers, KnownPoints, PointTyped
<1>4. /\ place' \in {"inside", "encoding"}
      /\ place' = "inside" => (hasChar' <=> ~atEnd')
  BY <1>1 DEF BeginToken, ReadNext, atEnd
<1>5. Fits("begin", run'.type, run'.count, tokenizer, 0, 0, 0)
  BY DEF Fits, LengthFits, TypeFits, SizeFits, DateFits, NothingWritten, LimitChecked
<1>6. Len(token') = 0 /\ tokenSize' = 0 /\ Passed' = 0
  <2>1. token' = <<>> /\ startLocation' = location'
    BY <1>1 DEF BeginToken, TokenInv
  <2>2. location' \in Location
    BY <1>2 DEF IndInv, TypeOK
  <2> QED
    BY <2>1, <2>2, EmptySize DEF tokenSize, Passed, Location
<1>7. AllWithinLimits'
  <2> SUFFICES ASSUME NEW i \in Delivered
               PROVE  IsWithinLimit(types[i], SizeOf(tokens[i].text), IsClosed(i)')
    BY <1>1 DEF AllWithinLimits, Delivered, IsWithinLimit
  <2>1. IsClosed(i) = FALSE
    BY <1>1 DEF IsClosed, BeginToken
  <2>2. IsWithinLimit(types[i], SizeOf(tokens[i].text), FALSE)
    BY <2>1 DEF TokenInv, AllWithinLimits
  <2>3. SizeOf(tokens[i].text) \in Nat
    <3>1. tokens[i] \in Token
      BY DEF Delivered, TokenInv, IndInv, TypeOK
    <3> QED
      BY <3>1, SizeType DEF Token
  <2>4. IsClosed(i)' \in BOOLEAN
    BY DEF IsClosed
  <2> QED
    BY <2>2, <2>3, <2>4, LooserAtEnd
<1>8. TokenInv'
  BY <1>1, <1>2, <1>3, <1>4, <1>5, <1>6, <1>7 DEF TokenInv
<1>9. KeepsContext
  BY <1>1, <1>4 DEF KeepsContext, ReadNextChar
<1> QED
  BY <1>1, <1>8, <1>9 DEF IsGood, Next

\* A token is handed out: the context changes, the reader does not.
LEMMA ReturnTokenGood == ASSUME TokenInv, ReturnToken PROVE IsGood
<1> DEFINE type == types[Len(types)]
           value == tokenizer.context = "Value"
           step == IF ~value THEN 0
                   ELSE IF type \in {"ArrayBegin", "TableBegin"} THEN 1
                   ELSE IF type \in {"ArrayEnd", "TableEnd"} THEN -1 ELSE 0
           nesting == tokenizer.nesting + step
           leaves == value /\ nesting = 0 /\ type \in {"ArrayEnd", "TableEnd"} \cup ValueTypes
           enters == ~value /\ type = "Assignment"
           context == IF enters THEN "Value" ELSE IF leaves THEN "Structure" ELSE tokenizer.context
<1>1. CASE throwSyntaxError
  BY <1>1, ThrowGood DEF ReturnToken
<1>2. CASE /\ tokenizer' = [tokenizer EXCEPT !.nesting = nesting, !.context = context]
           /\ run' = To("read") /\ UNCHANGED <<vars, types>>
  <2>1. nesting \in Int /\ context \in {"Structure", "Value"} /\ tokenizer \in Members
    BY Numbers DEF Members
  <2> HIDE DEF nesting, context
  <2>2. tokenizer' \in Members
    BY <1>2, <2>1 DEF Members
  <2>3. run' \in Points /\ run'.at = "read"
    BY <1>2, Numbers, KnownPoints, PointTyped
  <2>4. place = "between" /\ place' = "between" /\ UNCHANGED <<tokens, types, token, startLocation, location>>
    BY <1>2 DEF ReturnToken, vars
  <2>5. IndInv'
    BY <1>2, StepInvariant DEF TokenInv
  <2>6. AllWithinLimits'
    BY <1>2, <2>4, LimitsKept DEF vars
  <2>7. TokenInv'
    BY <2>2, <2>3, <2>4, <2>5, <2>6 DEF TokenInv
  <2> QED
    BY <1>2, <2>7 DEF IsGood
<1> QED
  BY <1>1, <1>2 DEF ReturnToken

-------------------------------------------------------------------------------
(* Tokens that can be everywhere                                           *)

\* What is known at the point that was reached.
LEMMA Current ==
    ASSUME TokenInv, place \in {"inside", "newLine"}
    PROVE  /\ ContinueFits(run.at, run.type, run.count)
           /\ Passed \in Nat
           /\ run.at \in PointNames /\ run.type \in TokenTypes \cup {"None"} /\ run.count \in Nat
           /\ hasChar <=> ~atEnd
<1>1. ContinueFits(run.at, run.type, run.count) /\ (hasChar <=> ~atEnd)
  BY DEF TokenInv, ContinueFits
<1>2. Passed \in Nat
  BY <1>1, Numbers DEF ContinueFits, Fits, LengthFits
<1> QED
  BY <1>1, <1>2, Numbers DEF Points

\* These types do not depend on the context.
LEMMA NoBracket == ASSUME NEW type \in SimpleTypes PROVE type \in TokenTypes /\ type \notin Brackets
  BY DEF TokenTypes, SimpleTypes, Brackets, ValueTypes

\* A token ends where a token can end.
LEMMA EndGood ==
    ASSUME TokenInv, place = "inside", run.at \notin {"begin", "sign"}, NEW type \in SimpleTypes,
           createToken(type), IsWithinLimit(type, tokenSize, ~hasChar)
    PROVE  IsGood
<1>1. Passed > 0
  BY Current DEF ContinueFits, Fits
<1> QED
  BY <1>1, NoBracket, CreateGood

\* Tokens of these types are empty.
LEMMA EmptyWithinLimit ==
    ASSUME NEW type, type \notin ValueTypes \cup {"BareKey"}, NEW b
    PROVE  IsWithinLimit(type, 0, b)
  BY DEF IsWithinLimit, ValueTypes, IntegerTypes, DateTypes

\* Tokenizer::expectMoreData
LEMMA PrematureEndGood == ASSUME TokenInv, PrematureEnd PROVE IsGood
  BY ThrowGood DEF PrematureEnd

\* Tokenizer::readWhiteSpace
LEMMA ReadWhiteSpaceGood == ASSUME TokenInv, ReadWhiteSpace PROVE IsGood
<1>1. CanPass /\ run.at \in {"begin", "whiteSpace"}
  BY DEF CanPass, ReadWhiteSpace, At, isWhiteSpace, Accepted, isControlCharacter, Space, Tab
<1>2. SkipFits("whiteSpace", run.type, run.count)
  BY <1>1, Current, Numbers
     DEF CanPass, ContinueFits, SkipFits, Fits, LengthFits, TypeFits, SizeFits, DateFits, NothingWritten, LimitChecked
<1> QED
  BY <1>1, <1>2, KnownPoints, SkipToGood DEF ReadWhiteSpace

\* White space has no text.
LEMMA EndWhiteSpaceGood == ASSUME TokenInv, EndWhiteSpace PROVE IsGood
<1>1. place = "inside" /\ run.at = "whiteSpace" /\ createToken("Whitespace")
  BY DEF EndWhiteSpace, At
<1>2. tokenSize = 0
  BY <1>1, Current DEF ContinueFits, Fits, SizeFits, NothingWritten
<1>3. "Whitespace" \in SimpleTypes /\ "Whitespace" \notin ValueTypes \cup {"BareKey"}
  BY DEF TokenTypes, SimpleTypes, Brackets, ValueTypes
<1> QED
  BY <1>1, <1>2, <1>3, EmptyWithinLimit, EndGood

\* Tokenizer::readComment
LEMMA ReadCommentGood == ASSUME TokenInv, ReadComment PROVE IsGood
<1>1. CanPass /\ run.at \in {"begin", "comment"}
  BY DEF CanPass, ReadComment, At, Accepted, isControlCharacter, Hash
<1>2. SkipFits("comment", run.type, run.count)
  BY <1>1, Current, Numbers
     DEF CanPass, ContinueFits, SkipFits, Fits, LengthFits, TypeFits, SizeFits, DateFits, NothingWritten, LimitChecked
<1> QED
  BY <1>1, <1>2, KnownPoints, SkipToGood DEF ReadComment

\* A comment has no text.
LEMMA EndCommentGood == ASSUME TokenInv, EndComment PROVE IsGood
<1>1. place = "inside" /\ run.at = "comment" /\ (createToken("Comment") \/ throwSyntaxError)
  BY DEF EndComment, At
<1>2. tokenSize = 0
  BY <1>1, Current DEF ContinueFits, Fits, SizeFits, NothingWritten
<1>3. "Comment" \in SimpleTypes /\ "Comment" \notin ValueTypes \cup {"BareKey"}
  BY DEF TokenTypes, SimpleTypes, Brackets, ValueTypes
<1> QED
  BY <1>1, <1>2, <1>3, EmptyWithinLimit, EndGood, ThrowGood

\* More of a token can be passed than is asked for.
LEMMA MorePassed ==
    ASSUME TokenInv, place \in {"inside", "newLine"}
    PROVE  SkipFits(run.at, run.type, run.count)
  BY Current, Numbers DEF ContinueFits, SkipFits, Fits, LengthFits

\* The first character of a new line, wherever one can be
LEMMA ReadCarriageReturnGood == ASSUME TokenInv, ReadCarriageReturn PROVE IsGood
<1>1. /\ place = "inside" /\ char = CR /\ skipChar("newLine")
      /\ UNCHANGED <<document, token, startLocation, tokens, tokenizer, run, types>>
  BY DEF ReadCarriageReturn
<1>2. /\ IndInv' /\ place' \in {"newLine", "encoding"}
      /\ place' # "encoding" => (hasChar' <=> ~atEnd')
      /\ Passed' = Passed + 1
  BY <1>1, Numbers, CharacterPassed
<1>3. tokenSize' = tokenSize /\ run' \in Points /\ tokenizer' \in Members
  BY <1>1, Numbers DEF tokenSize
<1>4. Fits(run'.at, run'.type, run'.count, tokenizer', Len(token'), tokenSize', Passed')
  BY <1>1, <1>2, <1>3, MorePassed DEF SkipFits
<1>5. TokenInv'
  BY <1>1, <1>2, <1>3, <1>4, PointReached
<1>6. SkipCarriageReturn
  BY <1>1 DEF SkipCarriageReturn
<1>7. KeepsContext
  BY <1>1, <1>2, ContextKept DEF Alike
<1> QED
  BY <1>5, <1>6, <1>7 DEF IsGood, Next

\* The line feed: in a string it is consumed, elsewhere it is skipped.
LEMMA ReadLineFeedGood == ASSUME TokenInv, ReadLineFeed PROVE IsGood
<1>1. CanPass /\ place \in {"inside", "newLine"} /\ char = LF
  BY DEF CanPass, ReadLineFeed, Accepted
<1>2. Width(char) = 1 /\ Accepted
  BY <1>1 DEF Width, LF, Accepted
<1>3. CASE run.at = "begin"
  <2>1. Skip(ToType("finish", "NewLine"))
    BY <1>3 DEF ReadLineFeed, NewLineConsumed, AfterNewLine
  <2>2. SkipFits("finish", "NewLine", run.count)
    BY <1>1, <1>3, Current, Numbers
       DEF ContinueFits, SkipFits, Fits, LengthFits, TypeFits, SizeFits, DateFits, NothingWritten, LimitChecked, Brackets
  <2>3. "NewLine" \in TokenTypes
    BY DEF TokenTypes, SimpleTypes, Brackets
  <2> QED
    BY <1>1, <2>1, <2>2, <2>3, KnownPoints, SkipToTypeGood
<1>4. CASE run.at = "firstLine"
  <2>1. Skip(To("content"))
    BY <1>4 DEF ReadLineFeed, NewLineConsumed, AfterNewLine
  <2>2. SkipFits("content", run.type, run.count)
    BY <1>1, <1>4, Current, Numbers
       DEF ContinueFits, SkipFits, Fits, LengthFits, TypeFits, SizeFits, DateFits, NothingWritten, LimitChecked
  <2> QED
    BY <1>1, <2>1, <2>2, KnownPoints, SkipToGood
<1>5. CASE run.at \in {"escape", "lines"}
  <2>1. Skip(To("lines"))
    BY <1>5 DEF ReadLineFeed, NewLineConsumed, AfterNewLine
  <2>2. SkipFits("lines", run.type, run.count)
    BY <1>1, <1>5, Current, Numbers
       DEF ContinueFits, SkipFits, Fits, LengthFits, TypeFits, SizeFits, DateFits, NothingWritten, LimitChecked
  <2> QED
    BY <1>1, <2>1, <2>2, KnownPoints, SkipToGood
<1>6. CASE run.at = "content"
  <2>1. Consume(To("content"))
    BY <1>6 DEF ReadLineFeed, NewLineConsumed, NewLineSkipped, AfterNewLine
  <2>2. ConsumeFits("content", run.type, run.count)
    BY <1>1, <1>6, Current, Numbers
       DEF ContinueFits, ConsumeFits, Fits, LengthFits, TypeFits, SizeFits, DateFits, NothingWritten, LimitChecked
  <2> QED
    BY <1>1, <2>1, <2>2, KnownPoints, ConsumeToGood
<1> QED
  BY <1>3, <1>4, <1>5, <1>6 DEF ReadLineFeed, NewLineConsumed, NewLineSkipped

\* A carriage return that stands alone
LEMMA LineFeedMissingGood == ASSUME TokenInv, LineFeedMissing PROVE IsGood
  BY ThrowGood DEF LineFeedMissing

\* Tokens whose type is known before their end
LEMMA FinishGood == ASSUME TokenInv, Finish PROVE IsGood
<1>1. place = "inside" /\ run.at \in {"finish", "expectMore"} /\ createToken(run.type)
  BY DEF Finish, Looking, At
<1>2. CASE run.type = "OffsetDateTime"
  <2>1. run.at = "finish" /\ tokenSize <= 37
    BY <1>1, <1>2, Current DEF ContinueFits, Fits, TypeFits
  <2>2. IsWithinLimit(run.type, tokenSize, ~hasChar)
    BY <1>2, <2>1 DEF IsWithinLimit, IntegerTypes, DateTypes, ValueTypes
  <2>3. run.type \in SimpleTypes
    BY <1>2 DEF SimpleTypes, ValueTypes
  <2> QED
    BY <1>1, <2>2, <2>3, EndGood
<1>3. CASE run.type # "OffsetDateTime"
  <2>1. tokenSize = 0 /\ run.type \in TokenTypes /\ run.type \notin ValueTypes \cup {"BareKey"}
    BY <1>1, <1>3, Current DEF ContinueFits, Fits, TypeFits, SizeFits, NothingWritten, ValueTypes, TokenTypes, SimpleTypes, Brackets
  <2>2. IsWithinLimit(run.type, tokenSize, ~hasChar)
    BY <2>1, EmptyWithinLimit
  <2>3. Passed > 0 /\ (run.type \in Brackets => tokenizer.context = "Value")
    BY <1>1, Current DEF ContinueFits, Fits
  <2> QED
    BY <1>1, <2>1, <2>2, <2>3, CreateGood
<1> QED
  BY <1>2, <1>3

-------------------------------------------------------------------------------
(* readStructure and readValue                                             *)

\* Punctuation is a token by itself.
LEMMA PunctuationGood ==
    ASSUME CanPass, run.at = "begin", NEW type \in TokenTypes,
           type \in Brackets => tokenizer.context = "Value",
           \/ /\ type \in {"Assignment", "NameSeperator", "ArrayBegin", "TableBegin", "TableSeperator"}
              /\ Skip(ToType("expectMore", type))
           \/ type \in {"ArrayEnd", "TableEnd"} /\ Skip(ToType("finish", type))
    PROVE  IsGood
<1>1. tokenSize = 0 /\ Len(token) = 0 /\ Passed \in Nat
  BY Current, Numbers DEF CanPass, ContinueFits, Fits, SizeFits, NothingWritten
<1>2. CASE /\ type \in {"Assignment", "NameSeperator", "ArrayBegin", "TableBegin", "TableSeperator"}
           /\ Skip(ToType("expectMore", type))
  <2>1. SkipFits("expectMore", type, run.count)
    BY <1>1, <1>2
       DEF SkipFits, Fits, LengthFits, TypeFits, SizeFits, DateFits, NothingWritten, LimitChecked
  <2> QED
    BY <1>2, <2>1, KnownPoints, SkipToTypeGood
<1>3. CASE type \in {"ArrayEnd", "TableEnd"} /\ Skip(ToType("finish", type))
  <2>1. SkipFits("finish", type, run.count)
    BY <1>1, <1>3
       DEF SkipFits, Fits, LengthFits, TypeFits, SizeFits, DateFits, NothingWritten, LimitChecked
  <2> QED
    BY <1>3, <2>1, KnownPoints, SkipToTypeGood
<1> QED
  BY <1>2, <1>3

\* Tokenizer::readStructure and readValue, punctuation
LEMMA ReadPunctuationGood == ASSUME TokenInv, ReadPunctuation PROVE IsGood
<1>1. place = "inside" /\ run.at = "begin"
  BY DEF ReadPunctuation, Structure, Value, At
<1>2. char \in {Equals, Dot, OpenBracket, CloseBracket, OpenBrace, CloseBrace, Comma}
  BY DEF ReadPunctuation
<1>3. CanPass
  BY <1>1, <1>2 DEF CanPass, Accepted, isControlCharacter, Equals, Dot, OpenBracket, CloseBracket, OpenBrace,
        CloseBrace, Comma
<1>4. {"Assignment", "NameSeperator", "ArrayBegin", "TableBegin", "TableSeperator", "ArrayEnd", "TableEnd"}
        \subseteq TokenTypes
  BY DEF TokenTypes, SimpleTypes, Brackets
<1>5. CASE \/ Skip(To("openName")) \/ Skip(To("closeName"))
  <2>1. SkipFits("openName", run.type, run.count) /\ SkipFits("closeName", run.type, run.count)
    BY <1>1, Current, Numbers
       DEF ContinueFits, SkipFits, Fits, LengthFits, TypeFits, SizeFits, DateFits, NothingWritten, LimitChecked
  <2> QED
    BY <1>3, <1>5, <2>1, KnownPoints, SkipToGood
<1>6. CASE ~(Skip(To("openName")) \/ Skip(To("closeName")))
  <2>1. \E type \in TokenTypes :
         /\ type \in Brackets => tokenizer.context = "Value"
         /\ \/ /\ type \in {"Assignment", "NameSeperator", "ArrayBegin", "TableBegin", "TableSeperator"}
               /\ Skip(ToType("expectMore", type))
            \/ type \in {"ArrayEnd", "TableEnd"} /\ Skip(ToType("finish", type))
    BY <1>4, <1>6 DEF ReadPunctuation, Structure, Value, Brackets
  <2> QED
    BY <1>1, <1>3, <2>1, PunctuationGood
<1> QED
  BY <1>5, <1>6

\* The second bracket of a name
LEMMA ReadNameBracketGood == ASSUME TokenInv, ReadNameBracket PROVE IsGood
<1>1. place = "inside" /\ run.at \in {"openName", "closeName"}
  BY DEF ReadNameBracket, Looking, At
<1>2. tokenSize = 0 /\ Len(token) = 0 /\ Passed \in Nat
  BY <1>1, Current, Numbers DEF ContinueFits, Fits, SizeFits, NothingWritten
<1>3. {"TableNameBegin", "TableNameEnd", "ArrayNameBegin", "ArrayNameEnd"} \subseteq SimpleTypes
  BY DEF SimpleTypes
<1>4. CASE char \in {OpenBracket, CloseBracket}
           /\ \E type \in {"ArrayNameBegin", "ArrayNameEnd"} : Skip(ToType("expectMore", type))
  <2>1. CanPass
    BY <1>1, <1>4 DEF CanPass, Accepted, isControlCharacter, OpenBracket, CloseBracket
  <2>2. PICK type \in {"ArrayNameBegin", "ArrayNameEnd"} : Skip(ToType("expectMore", type))
    BY <1>4
  <2>3. SkipFits("expectMore", type, run.count)
    BY <1>2, <2>2
       DEF SkipFits, Fits, LengthFits, TypeFits, SizeFits, DateFits, NothingWritten, LimitChecked, Brackets
  <2> QED
    BY <1>3, NoBracket, <2>1, <2>2, <2>3, KnownPoints, SkipToTypeGood
<1>5. CASE createToken("TableNameBegin")
  <2>1. "TableNameBegin" \notin ValueTypes \cup {"BareKey"}
    BY DEF ValueTypes
  <2> QED
    BY <1>1, <1>2, <1>3, <1>5, <2>1, EmptyWithinLimit, EndGood
<1>6. CASE createToken("TableNameEnd")
  <2>1. "TableNameEnd" \notin ValueTypes \cup {"BareKey"}
    BY DEF ValueTypes
  <2> QED
    BY <1>1, <1>2, <1>3, <1>6, <2>1, EmptyWithinLimit, EndGood
<1> QED
  BY <1>4, <1>5, <1>6 DEF ReadNameBracket

\* The characters of a bare key are accepted everywhere.
LEMMA BareKeyAccepted ==
    ASSUME TokenInv, isBareKey
    PROVE  Accepted
<1>0. char \in Nat
  BY Numbers
<1>1. \A range \in Letters \cup Fractions : range[1] \in Nat /\ range[1] >= 178
  BY SMT DEF Letters, Fractions
<1>2. CASE isPlainKey
  BY <1>2, Numbers
     DEF isPlainKey, SmallLetter, CapitalLetter, DecimalDigit, Underscore, Minus, Accepted, isControlCharacter,
         Tab, LF, CR
<1>3. CASE IsIn(Letters \cup Fractions)
  <2>1. PICK range \in Letters \cup Fractions : range[1] <= char
    BY <1>3 DEF IsIn
  <2>2. char >= 178
    BY <1>0, <1>1, <2>1
  <2>3. ~isControlCharacter
    BY <1>0, <2>2 DEF isControlCharacter
  <2> QED
    BY <2>3 DEF Accepted
<1> QED
  BY <1>2, <1>3 DEF isBareKey

\* A value or a bare key ends, or something is wrong.
LEMMA EndValueGood ==
    ASSUME TokenInv, place = "inside", Passed > 0, NEW type \in SimpleTypes, EndValue(type),
           IsWithinLimit(type, tokenSize, ~hasChar)
    PROVE  IsGood
  BY NoBracket, CreateGood, ThrowGood DEF EndValue

\* Tokenizer::expectBareKeyEnd, and the bare key
LEMMA EndBareKeyGood ==
    ASSUME TokenInv, place = "inside", Passed > 0, EndBareKey,
           hasChar => tokenSize <= cBareKeyCharacterLimit
    PROVE  IsGood
<1>1. "BareKey" \in TokenTypes /\ "BareKey" \notin Brackets
  BY DEF TokenTypes, SimpleTypes, Brackets
<1>2. CASE ~atEnd /\ createToken("BareKey")
  <2>1. tokenSize <= cBareKeyCharacterLimit
    BY <1>2, Current
  <2>2. IsWithinLimit("BareKey", tokenSize, ~hasChar)
    BY <2>1 DEF IsWithinLimit, IntegerTypes, DateTypes, ValueTypes
  <2> QED
    BY <1>1, <1>2, <2>2, CreateGood
<1>3. CASE throwSyntaxError
  BY <1>3, ThrowGood
<1> QED
  BY <1>2, <1>3 DEF EndBareKey

\* Tokenizer::readBareKey: the length was checked before the end is looked at.
LEMMA ReadBareKeyGood == ASSUME TokenInv, ReadBareKey PROVE IsGood
<1>1. CASE isBareKey /\ Consume(To("bareKey"))
  <2>1. CanPass /\ place = "inside"
    BY <1>1, BareKeyAccepted DEF CanPass, ReadBareKey, Structure, At
  <2>2. ConsumeFits("bareKey", run.type, run.count)
    BY <2>1, Current, Numbers
       DEF ContinueFits, ConsumeFits, Fits, LengthFits, TypeFits, SizeFits, DateFits, NothingWritten, LimitChecked
  <2> QED
    BY <1>1, <2>1, <2>2, KnownPoints, ConsumeToGood
<1>2. CASE At("bareKey") /\ (hasChar => ~isBareKey /\ tokenSize <= cBareKeyCharacterLimit) /\ EndBareKey
  <2>1. place = "inside" /\ run.at = "bareKey"
    BY <1>2 DEF At
  <2>2. Passed > 0
    BY <2>1, Current DEF ContinueFits, Fits
  <2> QED
    BY <1>2, <2>1, <2>2, EndBareKeyGood
<1> QED
  BY <1>1, <1>2 DEF ReadBareKey

\* A bare key or word beyond the limit
LEMMA BareKeyTooLongGood == ASSUME TokenInv, BareKeyTooLong PROVE IsGood
  BY ThrowGood DEF BareKeyTooLong, At

\* The last error of Tokenizer::readStructure
LEMMA UnexpectedCharacterGood == ASSUME TokenInv, UnexpectedCharacter PROVE IsGood
  BY ThrowGood DEF UnexpectedCharacter, Structure, At

\* Tokenizer::readOptionalPlusMinusSign
LEMMA ReadSignGood == ASSUME TokenInv, ReadSign PROVE IsGood
<1>1. place = "inside" /\ run.at = "begin"
  BY DEF ReadSign, Value, At
<1>2. tokenSize = 0 /\ Len(token) = 0 /\ Passed \in Nat
  BY <1>1, Current, Numbers DEF ContinueFits, Fits, SizeFits, NothingWritten
<1>3. To("sign") \in Points /\ To("sign").at = "sign"
  BY Numbers, KnownPoints, PointTyped
<1>4. CASE char \in {Plus, Minus}
           /\ \E s \in {"Plus", "Minus"} : ConsumeAs(To("sign"), [tokenizer EXCEPT !.sign = s])
  <2>1. PICK s \in {"Plus", "Minus"} : ConsumeAs(To("sign"), [tokenizer EXCEPT !.sign = s])
    BY <1>4
  <2> DEFINE m == [tokenizer EXCEPT !.sign = s]
  <2>2. m \in Members /\ m.sign = s /\ Alike(m, tokenizer)
    BY Numbers, SignTyped
  <2>3. Accepted /\ Width(char) = 1
    BY <1>4 DEF Accepted, isControlCharacter, Plus, Minus, Width
  <2>6. ConsumeAs(To("sign"), m)
    BY <2>1
  <2> HIDE DEF m
  <2>4. Fits("sign", To("sign").type, To("sign").count, m, 1, 1, Passed + 1)
    BY <1>2 DEF Fits, LengthFits, TypeFits, SizeFits, DateFits, NothingWritten, LimitChecked
  <2>5. Fits(To("sign").at, To("sign").type, To("sign").count, m, Len(token) + 1,
             tokenSize + Width(char), Passed + 1)
    BY <1>2, <1>3, <2>2, <2>3, <2>4
  <2> QED
    BY <1>1, <1>3, <2>2, <2>3, <2>5, <2>6, ConsumeGood
<1>5. CASE ContinueAs(To("sign"), [tokenizer EXCEPT !.sign = "None"])
  <2> DEFINE m == [tokenizer EXCEPT !.sign = "None"]
  <2>1. m \in Members /\ m.sign = "None" /\ Alike(m, tokenizer)
    BY Numbers, SignTyped
  <2>3. ContinueAs(To("sign"), m)
    BY <1>5
  <2> HIDE DEF m
  <2>2. Fits("sign", To("sign").type, To("sign").count, m, 0, 0, Passed)
    BY <1>2, <2>1 DEF Fits, LengthFits, TypeFits, SizeFits, DateFits, NothingWritten, LimitChecked
  <2> QED
    BY <1>1, <1>2, <1>3, <2>1, <2>2, <2>3, ContinueGood
<1> QED
  BY <1>4, <1>5 DEF ReadSign, isPlusMinusSign

\* A digit or a character of a bare key: something is passed, so a minus sign alone
\* is a bare key of one character.
LEMMA ReadAfterSignGood == ASSUME TokenInv, ReadAfterSign PROVE IsGood
<1>1. place = "inside" /\ run.at = "sign"
  BY DEF ReadAfterSign, Looking, At
<1>2. /\ tokenSize <= 1 /\ tokenSize \in Nat /\ Len(token) \in Nat /\ Len(token) <= Passed
      /\ Passed \in Nat /\ (tokenizer.sign # "None" => Passed > 0)
  BY <1>1, Current, Numbers DEF ContinueFits, Fits, SizeFits, LengthFits
<1>3. CASE isDecimalDigit /\ Consume(To("firstDigit"))
  <2>1. CanPass /\ Width(char) = 1
    BY <1>1, <1>3 DEF CanPass, Accepted, isControlCharacter, isDecimalDigit, DecimalDigit, Width
  <2>2. ConsumeFits("firstDigit", run.type, run.count)
    BY <1>2, <2>1 DEF ConsumeFits, Fits, LengthFits, TypeFits, SizeFits, DateFits, NothingWritten, LimitChecked
  <2> QED
    BY <1>3, <2>1, <2>2, KnownPoints, ConsumeToGood
<1>4. CASE isBareKey /\ Consume(To("word"))
  <2>1. CanPass
    BY <1>1, <1>4, BareKeyAccepted DEF CanPass
  <2>2. ConsumeFits("word", run.type, run.count)
    BY <1>2, <2>1 DEF ConsumeFits, Fits, LengthFits, TypeFits, SizeFits, DateFits, NothingWritten, LimitChecked
  <2> QED
    BY <1>4, <2>1, <2>2, KnownPoints, ConsumeToGood
<1>5. CASE tokenizer.sign = "Minus" /\ EndBareKey
  <2>1. cBareKeyCharacterLimit >= 1 /\ cBareKeyCharacterLimit \in Nat
    BY LimitsAssumption
  <2>2. tokenSize <= cBareKeyCharacterLimit /\ Passed > 0
    BY <1>2, <1>5, <2>1
  <2> QED
    BY <1>1, <1>5, <2>2, EndBareKeyGood
<1>6. CASE throwSyntaxError
  BY <1>1, <1>6, ThrowGood
<1> QED
  BY <1>3, <1>4, <1>5, <1>6 DEF ReadAfterSign

\* A text without characters outside of the basic plane is as large as it is long.
LEMMA NarrowSize ==
    ASSUME NEW text, \A i \in DOMAIN text : text[i] < 65536, \A i \in DOMAIN text : text[i] \in Nat
    PROVE  SizeOf(text) = Len(text) + 0
<1>1. {i \in DOMAIN text : text[i] >= 65536} = {}
  BY SMT
<1> QED
  BY <1>1, FS_EmptySet DEF SizeOf

\* A sign and a word of three letters.
LEMMA SignedWordShort ==
    ASSUME NEW sign \in Seq(0..127), Len(sign) <= 1, NEW word \in Seq(0..127), Len(word) = 3
    PROVE  SizeOf(sign \o word) <= 4
<1> DEFINE text == sign \o word
           Ascii == 0..127
<1>0. \A c \in Ascii : c < 65536 /\ c \in Nat
  BY SMT
<1> HIDE DEF Ascii
<1>1. text \in Seq(Ascii) /\ Len(text) = Len(sign) + Len(word)
  <2>1. sign \in Seq(Ascii) /\ word \in Seq(Ascii)
    BY DEF Ascii
  <2> QED
    BY <2>1, ConcatProperties
<1>2. Len(sign) \in Nat
  OBVIOUS
<1> HIDE DEF text
<1>3. DOMAIN text = 1..Len(text) /\ \A i \in 1..Len(text) : text[i] \in Ascii
  BY <1>1, ElementOfSeq
<1>4. \A i \in DOMAIN text : text[i] < 65536 /\ text[i] \in Nat
  BY <1>0, <1>3
<1>5. SizeOf(text) = Len(text) + 0
  BY <1>4, NarrowSize
<1>6. SizeOf(text) <= 4
  BY <1>1, <1>2, <1>5
<1> QED
  BY <1>6 DEF text

\* The words for floats fit into every number.
LEMMA FloatWordsShort == \A word \in FloatSpecials : SizeOf(word) <= 4
<1> DEFINE inf == <<Letter.i, Letter.n, Letter.f>>
           nan == <<Letter.n, Letter.a, Letter.n>>
           Signs == {<<>>, <<Plus>>, <<Minus>>}
<1>1. inf \in Seq(0..127) /\ Len(inf) = 3
  BY DEF Letter
<1>2. nan \in Seq(0..127) /\ Len(nan) = 3
  BY DEF Letter
<1>3. \A sign \in Signs : sign \in Seq(0..127) /\ Len(sign) <= 1
  <2>1. <<>> \in Seq(0..127) /\ Len(<<>>) <= 1
    OBVIOUS
  <2>2. <<Plus>> \in Seq(0..127) /\ Len(<<Plus>>) <= 1
    BY DEF Plus
  <2>3. <<Minus>> \in Seq(0..127) /\ Len(<<Minus>>) <= 1
    BY DEF Minus
  <2> QED
    BY <2>1, <2>2, <2>3
<1>4. \A word \in FloatSpecials : \E sign \in Signs, w \in {inf, nan} : word = sign \o w
  BY DEF FloatSpecials
<1> HIDE DEF inf, nan, Signs
<1> QED
  BY <1>1, <1>2, <1>3, <1>4, SignedWordShort

\* Tokenizer::readFloatBoolOrBareKey
LEMMA ReadWordGood == ASSUME TokenInv, ReadWord PROVE IsGood
<1>1. place = "inside" /\ run.at = "word" /\ Passed > 0
  BY Current DEF ReadWord, At, ContinueFits, Fits
<1>2. {"Float", "Boolean"} \subseteq SimpleTypes
  BY DEF SimpleTypes, ValueTypes
<1>3. CASE hasChar /\ isBareKey /\ Consume(To("word"))
  <2>1. CanPass
    BY <1>1, <1>3, BareKeyAccepted DEF CanPass
  <2>2. ConsumeFits("word", run.type, run.count)
    BY <1>1, Current, Numbers
       DEF ContinueFits, ConsumeFits, Fits, LengthFits, TypeFits, SizeFits, DateFits, NothingWritten, LimitChecked
  <2> QED
    BY <1>3, <2>1, <2>2, KnownPoints, ConsumeToGood
<1>4. CASE token \in FloatSpecials /\ EndValue("Float")
  <2>1. tokenSize <= 4 /\ cIntOrFloatCharacterLimit >= 4 /\ cIntOrFloatCharacterLimit \in Nat /\ tokenSize \in Nat
    BY <1>4, FloatWordsShort, LimitsAssumption, Numbers DEF tokenSize
  <2>2. IsWithinLimit("Float", tokenSize, ~hasChar)
    BY <2>1 DEF IsWithinLimit, IntegerTypes, DateTypes, ValueTypes
  <2> QED
    BY <1>1, <1>2, <1>4, <2>2, EndValueGood
<1>5. CASE EndValue("Boolean")
  <2>1. IsWithinLimit("Boolean", tokenSize, ~hasChar)
    BY DEF IsWithinLimit, IntegerTypes, DateTypes, ValueTypes
  <2> QED
    BY <1>1, <1>2, <1>5, <2>1, EndValueGood
<1>6. CASE EndBareKey
  BY <1>1, <1>6, EndBareKeyGood DEF ReadWord
<1>7. CASE throwSyntaxError
  BY <1>1, <1>7, ThrowGood
<1> QED
  BY <1>3, <1>4, <1>5, <1>6, <1>7 DEF ReadWord, EndWord


-------------------------------------------------------------------------------
(* readString                                                              *)

\* Every small number is a character.
LEMMA SmallCharacters ==
    ASSUME NEW c \in 0..127
    PROVE  c \in 0..LastCharacter /\ Width(c) = 1 /\ c \in Nat
<1>1. c \in Nat /\ c <= 127
  OBVIOUS
<1>2. Width(c) = 1
  BY <1>1, SMT DEF Width
<1>3. LastCharacter \in Nat /\ 127 <= LastCharacter
  BY SMT DEF LastCharacter
<1> QED
  BY <1>1, <1>2, <1>3

\* Changing both members that describe a string.
LEMMA StringTyped ==
    ASSUME NEW m \in Members, NEW s \in {"None", "SingleLine", "MultiLine"}, NEW q \in {"None", "Literal", "Regular"}
    PROVE  /\ [m EXCEPT !.mode = s, !.quotes = q] \in Members
           /\ [m EXCEPT !.mode = s, !.quotes = q].sign = m.sign
           /\ Alike([m EXCEPT !.mode = s, !.quotes = q], m)
  BY DEF Members, Alike

\* The quotes around a string.
LEMMA QuotesAccepted == ASSUME char \in {Quote, Apostrophe} PROVE Accepted
  BY DEF Accepted, isControlCharacter, Quote, Apostrophe

\* The quotes a string ends with
LEMMA StringCharQuotes == StringChar \in {Quote, Apostrophe} /\ StringChar \in 0..127
  BY DEF StringChar, Quote, Apostrophe

\* Tokenizer::detectStringType, first character
LEMMA ReadFirstQuoteGood == ASSUME TokenInv, ReadFirstQuote PROVE IsGood
<1>1. place = "inside" /\ run.at = "begin" /\ Accepted
  BY QuotesAccepted DEF ReadFirstQuote, At
<1>2. PICK q \in {"Literal", "Regular"} :
          SkipAs(To("secondQuote"), [tokenizer EXCEPT !.mode = "SingleLine", !.quotes = q])
  BY DEF ReadFirstQuote
<1> DEFINE m == [tokenizer EXCEPT !.mode = "SingleLine", !.quotes = q]
<1>3. m \in Members /\ m.sign = tokenizer.sign /\ Alike(m, tokenizer)
  BY Numbers, StringTyped
<1>4. /\ To("secondQuote") \in Points /\ To("secondQuote").at = "secondQuote"
      /\ To("secondQuote").type = run.type /\ To("secondQuote").count = run.count
  BY Numbers, KnownPoints, PointTyped
<1>5. SkipFits("secondQuote", run.type, run.count)
  BY <1>1, Current, Numbers
     DEF ContinueFits, SkipFits, Fits, LengthFits, TypeFits, SizeFits, DateFits, NothingWritten, LimitChecked
<1>6. SkipAs(To("secondQuote"), m)
  BY <1>2
<1> HIDE DEF m
<1>7. Fits(To("secondQuote").at, To("secondQuote").type, To("secondQuote").count, m, Len(token), tokenSize,
           Passed + 1)
  BY <1>3, <1>4, <1>5 DEF SkipFits, Fits
<1> QED
  BY <1>1, <1>3, <1>4, <1>6, <1>7, SkipGood

\* Tokenizer::detectStringType, second character
LEMMA ReadSecondQuoteGood == ASSUME TokenInv, ReadSecondQuote PROVE IsGood
<1>1. place = "inside" /\ run.at = "secondQuote"
  BY DEF ReadSecondQuote, Looking, At
<1>2. CASE char = StringChar /\ Skip(To("thirdQuote"))
  <2>1. CanPass
    BY <1>1, <1>2, StringCharQuotes, QuotesAccepted DEF CanPass
  <2>2. SkipFits("thirdQuote", run.type, run.count)
    BY <1>1, Current, Numbers
       DEF ContinueFits, SkipFits, Fits, LengthFits, TypeFits, SizeFits, DateFits, NothingWritten, LimitChecked
  <2> QED
    BY <1>2, <2>1, <2>2, KnownPoints, SkipToGood
<1>3. CASE Continue(To("content"))
  <2>1. ContinueFits("content", run.type, run.count)
    BY <1>1, Current, Numbers
       DEF ContinueFits, Fits, LengthFits, TypeFits, SizeFits, DateFits, NothingWritten, LimitChecked
  <2> QED
    BY <1>1, <1>3, <2>1, KnownPoints, ContinueToGood DEF CanStay
<1> QED
  BY <1>2, <1>3 DEF ReadSecondQuote

\* Tokenizer::detectStringType, third character: the empty string has no size.
LEMMA ReadThirdQuoteGood == ASSUME TokenInv, ReadThirdQuote PROVE IsGood
<1>1. place = "inside" /\ run.at = "thirdQuote"
  BY DEF ReadThirdQuote, At
<1>2. CASE char = StringChar /\ SkipAs(To("firstLine"), [tokenizer EXCEPT !.mode = "MultiLine"])
  <2>1. Accepted
    BY <1>2, StringCharQuotes, QuotesAccepted
  <2> DEFINE m == [tokenizer EXCEPT !.mode = "MultiLine"]
  <2>2. m \in Members /\ m.sign = tokenizer.sign /\ Alike(m, tokenizer)
    BY Numbers, ModeTyped
  <2>3. /\ To("firstLine") \in Points /\ To("firstLine").at = "firstLine"
        /\ To("firstLine").type = run.type /\ To("firstLine").count = run.count
    BY Numbers, KnownPoints, PointTyped
  <2>4. SkipFits("firstLine", run.type, run.count)
    BY <1>1, Current, Numbers
       DEF ContinueFits, SkipFits, Fits, LengthFits, TypeFits, SizeFits, DateFits, NothingWritten, LimitChecked
  <2>5. SkipAs(To("firstLine"), m)
    BY <1>2
  <2> HIDE DEF m
  <2>6. Fits(To("firstLine").at, To("firstLine").type, To("firstLine").count, m, Len(token), tokenSize,
             Passed + 1)
    BY <2>2, <2>3, <2>4 DEF SkipFits, Fits
  <2> QED
    BY <1>1, <2>1, <2>2, <2>3, <2>5, <2>6, SkipGood
<1>3. CASE createToken(EndOfString)
  <2>1. PICK type \in {"SingleLineString", "MultiLineString"} : createToken(type)
    BY <1>3 DEF EndOfString
  <2>2. tokenSize = 0 /\ cStringCharacterLimit \in Nat
    BY <1>1, Current, LimitsAssumption DEF ContinueFits, Fits, SizeFits, NothingWritten
  <2>3. IsWithinLimit(type, tokenSize, ~hasChar) /\ type \in SimpleTypes
    BY <2>2 DEF IsWithinLimit, IntegerTypes, DateTypes, ValueTypes, SimpleTypes
  <2> QED
    BY <1>1, <2>1, <2>3, EndGood
<1> QED
  BY <1>2, <1>3 DEF ReadThirdQuote

\* Tokenizer::readStringContent begins.
LEMMA NoFirstNewLineGood == ASSUME TokenInv, NoFirstNewLine PROVE IsGood
<1>1. place = "inside" /\ run.at = "firstLine"
  BY DEF NoFirstNewLine, Looking, At
<1>2. ContinueFits("content", run.type, run.count)
  BY <1>1, Current, Numbers
     DEF ContinueFits, Fits, LengthFits, TypeFits, SizeFits, DateFits, NothingWritten, LimitChecked
<1> QED
  BY <1>1, <1>2, KnownPoints, ContinueToGood DEF CanStay, NoFirstNewLine

\* A character of the string is consumed.
LEMMA ReadContentGood == ASSUME TokenInv, ReadContent PROVE IsGood
<1>1. CanPass /\ place = "inside" /\ run.at = "content"
  BY DEF CanPass, ReadContent, InContent, Looking, At, Accepted
<1>2. ConsumeFits("content", run.type, run.count)
  BY <1>1, Current, Numbers
     DEF ContinueFits, ConsumeFits, Fits, LengthFits, TypeFits, SizeFits, DateFits, NothingWritten, LimitChecked
<1> QED
  BY <1>1, <1>2, KnownPoints, ConsumeToGood DEF ReadContent

\* An error in the string.
LEMMA ContentRejectedGood == ASSUME TokenInv, ContentRejected PROVE IsGood
  BY ThrowGood DEF ContentRejected, Looking, At

\* Tokenizer::detectStringEnd counts a quote.
LEMMA ReadEndQuoteGood == ASSUME TokenInv, ReadEndQuote PROVE IsGood
<1>1. place = "inside" /\ char = StringChar
  BY DEF ReadEndQuote, InContent, Looking, At
<1>2. CanPass
  BY <1>1, StringCharQuotes, QuotesAccepted DEF CanPass
<1>3. CASE run.at = "content"
  <2>1. Skip(ToCount("endQuotes", 1)) /\ tokenSize <= cStringCharacterLimit
    BY <1>3 DEF ReadEndQuote, InContent, At
  <2>2. SkipFits("endQuotes", run.type, 1)
    BY <1>1, <1>3, <2>1, Current, Numbers
       DEF ContinueFits, SkipFits, Fits, LengthFits, TypeFits, SizeFits, DateFits, NothingWritten, LimitChecked
  <2> QED
    BY <1>2, <2>1, <2>2, KnownPoints, SkipToCountGood
<1>4. CASE run.at = "endQuotes"
  <2>1. Skip(ToCount("endQuotes", run.count + 1)) /\ run.count < 5
    BY <1>4 DEF ReadEndQuote, InContent, Looking, At
  <2>2. run.count \in 1..4 /\ Len(token) + run.count <= Passed /\ tokenSize <= cStringCharacterLimit
    BY <1>1, <1>4, <2>1, Current DEF ContinueFits, Fits, LengthFits, SizeFits, LimitChecked
  <2>3. SkipFits("endQuotes", run.type, run.count + 1) /\ run.count + 1 \in Nat
    BY <1>1, <2>2, Current, Numbers
       DEF SkipFits, Fits, LengthFits, TypeFits, SizeFits, DateFits, NothingWritten, LimitChecked
  <2> QED
    BY <1>2, <2>1, <2>3, KnownPoints, SkipToCountGood
<1> QED
  BY <1>3, <1>4 DEF ReadEndQuote, InContent, Looking, At

\* Tokenizer::detectStringEnd decides: quotes written after it are counted
\* before.
LEMMA DetectStringEndGood == ASSUME TokenInv, DetectStringEnd PROVE IsGood
<1>1. place = "inside" /\ run.at = "endQuotes"
  BY DEF DetectStringEnd, EndQuotesRead, At
<1>2. CASE createToken("SingleLineString")
  <2>1. tokenSize <= cStringCharacterLimit
    BY <1>1, Current DEF ContinueFits, Fits, SizeFits, LimitChecked
  <2>2. IsWithinLimit("SingleLineString", tokenSize, ~hasChar) /\ "SingleLineString" \in SimpleTypes
    BY <2>1 DEF IsWithinLimit, IntegerTypes, DateTypes, ValueTypes, SimpleTypes
  <2> QED
    BY <1>1, <1>2, <2>2, EndGood
<1>3. CASE run.count >= 3 /\ Continue(ToCount("closing", run.count - 3))
  <2>1. run.count \in 3..5 /\ Len(token) + run.count <= Passed /\ tokenSize <= cStringCharacterLimit
    BY <1>1, <1>3, Current DEF ContinueFits, Fits, LengthFits, SizeFits, LimitChecked
  <2> DEFINE k == run.count - 3
  <2>2. /\ k \in Nat /\ Len(token) + k <= Passed /\ tokenSize + k <= cStringCharacterLimit + 2
        /\ Len(token) <= Passed /\ Passed > 0
    <3>1. Len(token) <= Passed /\ Passed > 0
      BY <1>1, Current DEF ContinueFits, Fits, LengthFits
    <3>2. /\ run.count \in Nat /\ Len(token) \in Nat /\ tokenSize \in Nat /\ Passed \in Nat
          /\ cStringCharacterLimit \in Nat
      BY <1>1, Current, Numbers, LimitsAssumption
    <3> QED
      BY <2>1, <3>1, <3>2
  <2>3. Continue(ToCount("closing", k))
    BY <1>3
  <2> HIDE DEF k
  <2>4. ContinueFits("closing", run.type, k)
    BY <2>2
       DEF ContinueFits, Fits, LengthFits, TypeFits, SizeFits, DateFits, NothingWritten, LimitChecked
  <2> QED
    BY <1>1, <2>2, <2>3, <2>4, KnownPoints, ContinueToCountGood DEF CanStay
<1>4. CASE Continue(To("quotes"))
  <2>1. ContinueFits("quotes", run.type, run.count)
    BY <1>1, Current, Numbers
       DEF ContinueFits, Fits, LengthFits, TypeFits, SizeFits, DateFits, NothingWritten, LimitChecked
  <2> QED
    BY <1>1, <1>4, <2>1, KnownPoints, ContinueToGood DEF CanStay
<1>5. CASE throwSyntaxError
  BY <1>1, <1>5, ThrowGood
<1> QED
  BY <1>2, <1>3, <1>4, <1>5 DEF DetectStringEnd

\* Quotes that belong to the string are written: all of them were counted.
LEMMA WriteQuoteGood == ASSUME TokenInv, WriteQuote PROVE IsGood
<1> DEFINE k == run.count - 1
           next == [run EXCEPT !.count = @ - 1]
<1>1. place = "inside" /\ run.at \in {"closing", "quotes"} /\ run.count > 0 /\ Write(StringChar, next)
  BY DEF WriteQuote, At
<1>2. StringChar \in 0..LastCharacter /\ Width(StringChar) = 1
  BY StringCharQuotes, SmallCharacters
<1>6. /\ Len(token) <= Passed /\ Len(token) + run.count <= Passed /\ Passed > 0
      /\ run.at = "closing" => tokenSize + run.count <= cStringCharacterLimit + 2
  BY <1>1, Current DEF ContinueFits, Fits, LengthFits, SizeFits
<1>7. /\ run.count \in Nat /\ Len(token) \in Nat /\ tokenSize \in Nat /\ Passed \in Nat
      /\ cStringCharacterLimit \in Nat
  BY <1>1, Current, Numbers, LimitsAssumption
<1>3. /\ k \in Nat /\ Len(token) + 1 + k <= Passed /\ Len(token) < Passed
      /\ run.at = "closing" => tokenSize + 1 + k <= cStringCharacterLimit + 2
  BY <1>1, <1>6, <1>7
<1>4. next \in Points /\ next.at = run.at /\ next.type = run.type /\ next.count = k
  BY <1>3, Numbers DEF Points
<1> HIDE DEF next, k
<1>5. WriteFits(run.at, run.type, k, StringChar)
  BY <1>1, <1>2, <1>3, <1>6, <1>7
     DEF ContinueFits, WriteFits, Fits, LengthFits, TypeFits, SizeFits, DateFits, NothingWritten, LimitChecked
<1> QED
  BY <1>1, <1>2, <1>3, <1>4, <1>5, WriteGood DEF WriteFits

\* All quotes of the string are written.
LEMMA QuotesWrittenGood == ASSUME TokenInv, QuotesWritten PROVE IsGood
<1>1. place = "inside" /\ run.count = 0
  BY DEF QuotesWritten, At
<1>2. CASE run.at = "closing" /\ createToken("MultiLineString")
  <2>1. tokenSize <= cStringCharacterLimit + 2
    BY <1>1, <1>2, Current, Numbers DEF ContinueFits, Fits, SizeFits
  <2>2. IsWithinLimit("MultiLineString", tokenSize, ~hasChar) /\ "MultiLineString" \in SimpleTypes
    BY <2>1 DEF IsWithinLimit, IntegerTypes, DateTypes, ValueTypes, SimpleTypes
  <2> QED
    BY <1>1, <1>2, <2>2, EndGood
<1>3. CASE run.at = "quotes" /\ Continue(To("content"))
  <2>1. ContinueFits("content", run.type, run.count)
    BY <1>1, <1>3, Current, Numbers
       DEF ContinueFits, Fits, LengthFits, TypeFits, SizeFits, DateFits, NothingWritten, LimitChecked
  <2> QED
    BY <1>1, <1>3, <2>1, KnownPoints, ContinueToGood DEF CanStay
<1> QED
  BY <1>2, <1>3 DEF QuotesWritten, At

\* Tokenizer::readBackslashEscaped
LEMMA ReadBackslashGood == ASSUME TokenInv, ReadBackslash PROVE IsGood
<1>1. /\ CanPass /\ place = "inside" /\ run.at = "content"
      /\ tokenSize <= cStringCharacterLimit /\ Skip(To("escape"))
  BY DEF CanPass, ReadBackslash, InContent, Looking, At, Accepted, isControlCharacter, Backslash
<1>2. SkipFits("escape", run.type, run.count)
  BY <1>1, Current, Numbers
     DEF ContinueFits, SkipFits, Fits, LengthFits, TypeFits, SizeFits, DateFits, NothingWritten, LimitChecked
<1> QED
  BY <1>1, <1>2, KnownPoints, SkipToGood

\* Blanks behind a backslash
LEMMA ReadBlanksGood == ASSUME TokenInv, ReadBlanks PROVE IsGood
<1>1. /\ CanPass /\ place = "inside" /\ run.at \in {"escape", "blanks"} /\ Skip(To("blanks"))
  BY DEF CanPass, ReadBlanks, Looking, At, Accepted, isControlCharacter, isWhiteSpace, Space, Tab
<1>2. SkipFits("blanks", run.type, run.count)
  BY <1>1, Current, Numbers
     DEF ContinueFits, SkipFits, Fits, LengthFits, TypeFits, SizeFits, DateFits, NothingWritten, LimitChecked
<1> QED
  BY <1>1, <1>2, KnownPoints, SkipToGood

\* The end of these blanks
LEMMA EndBlanksGood == ASSUME TokenInv, EndBlanks PROVE IsGood
<1>1. place = "inside" /\ run.at = "blanks" /\ (Continue(To("lines")) \/ throwSyntaxError)
  BY DEF EndBlanks, Looking, At
<1>2. ContinueFits("lines", run.type, run.count)
  BY <1>1, Current, Numbers
     DEF ContinueFits, Fits, LengthFits, TypeFits, SizeFits, DateFits, NothingWritten, LimitChecked
<1> QED
  BY <1>1, <1>2, KnownPoints, ContinueToGood, ThrowGood DEF CanStay

\* Blanks and new lines up to the next character of the string
LEMMA ReadLinesGood == ASSUME TokenInv, ReadLines PROVE IsGood
<1>1. place = "inside" /\ run.at = "lines"
  BY DEF ReadLines, Looking, At
<1>2. CASE isWhiteSpace /\ Skip(To("lines"))
  <2>1. CanPass
    BY <1>1, <1>2 DEF CanPass, Accepted, isControlCharacter, isWhiteSpace, Space, Tab
  <2>2. SkipFits("lines", run.type, run.count)
    BY <1>1, Current, Numbers
       DEF ContinueFits, SkipFits, Fits, LengthFits, TypeFits, SizeFits, DateFits, NothingWritten, LimitChecked
  <2> QED
    BY <1>2, <2>1, <2>2, KnownPoints, SkipToGood
<1>3. CASE Continue(To("content"))
  <2>1. ContinueFits("content", run.type, run.count)
    BY <1>1, Current, Numbers
       DEF ContinueFits, Fits, LengthFits, TypeFits, SizeFits, DateFits, NothingWritten, LimitChecked
  <2> QED
    BY <1>1, <1>3, <2>1, KnownPoints, ContinueToGood DEF CanStay
<1> QED
  BY <1>2, <1>3 DEF ReadLines

\* What a backslash can stand before is accepted, and stands for a character.
LEMMA EscapeKnown ==
    /\ \A c \in DOMAIN EscapeChar : c \in 34..126 /\ EscapeChar[c] \in 0..127
    /\ \A c \in DOMAIN UnicodeDigits : c \in 34..126 /\ UnicodeDigits[c] \in Nat
<1>1. \A c \in DOMAIN EscapeChar : c \in 34..126
  BY DEF EscapeChar, Letter, Quote, Backslash
<1>2. \A c \in DOMAIN EscapeChar : EscapeChar[c] \in {8, Tab, LF, 12, CR, 27, c}
  BY DEF EscapeChar
<1>3. \A c \in DOMAIN UnicodeDigits : c \in 34..126
  BY DEF UnicodeDigits, Letter
<1>4. \A c \in DOMAIN UnicodeDigits : UnicodeDigits[c] \in {2, 4, 8}
  BY DEF UnicodeDigits
<1>5. \A c \in DOMAIN EscapeChar : EscapeChar[c] \in 0..127
  BY <1>1, <1>2 DEF Tab, LF, CR
<1>6. \A c \in DOMAIN UnicodeDigits : UnicodeDigits[c] \in Nat
  BY <1>4
<1> QED
  BY <1>1, <1>3, <1>5, <1>6

\* The character behind a backslash
LEMMA ReadEscapeGood == ASSUME TokenInv, ReadEscape PROVE IsGood
<1>1. place = "inside" /\ run.at = "escape"
  BY DEF ReadEscape, Looking, At
<1>2. CASE char \in DOMAIN EscapeChar /\ SkipAndWrite(EscapeChar[char], To("content"))
  <2>1. Accepted /\ EscapeChar[char] \in 0..127
    BY <1>2, EscapeKnown DEF Accepted, isControlCharacter
  <2> DEFINE c == EscapeChar[char]
  <2>2. c \in 0..LastCharacter /\ Width(c) = 1 /\ SkipAndWrite(c, To("content"))
    BY <1>2, <2>1, SmallCharacters
  <2> HIDE DEF c
  <2>3. /\ To("content") \in Points /\ To("content").at = "content"
        /\ To("content").type = run.type /\ To("content").count = run.count
    BY Numbers, KnownPoints, PointTyped
  <2>4. Fits("content", run.type, run.count, tokenizer, Len(token) + 1, tokenSize + Width(c), Passed + 1)
    BY <1>1, <2>2, Current, Numbers
       DEF ContinueFits, Fits, LengthFits, TypeFits, SizeFits, DateFits, NothingWritten, LimitChecked
  <2> QED
    BY <1>1, <2>1, <2>2, <2>3, <2>4, SkipAndWriteGood
<1>3. CASE /\ char \in DOMAIN UnicodeDigits
           /\ Skip([run EXCEPT !.at = "hex", !.count = UnicodeDigits[char], !.unicode = 0])
  <2> DEFINE k == UnicodeDigits[char]
             next == [run EXCEPT !.at = "hex", !.count = k, !.unicode = 0]
  <2>1. Accepted /\ k \in Nat /\ Skip(next)
    BY <1>3, EscapeKnown DEF Accepted, isControlCharacter
  <2> HIDE DEF k
  <2>2. next \in Points /\ next.at = "hex" /\ next.type = run.type /\ next.count = k
    BY <2>1, Numbers, KnownPoints DEF Points
  <2> HIDE DEF next
  <2>3. SkipFits("hex", run.type, k)
    BY <1>1, <2>1, Current, Numbers
       DEF ContinueFits, SkipFits, Fits, LengthFits, TypeFits, SizeFits, DateFits, NothingWritten, LimitChecked
  <2> QED
    BY <1>1, <2>1, <2>2, <2>3, Numbers, SkipGood DEF Skip, SkipFits, Alike
<1>4. CASE throwSyntaxError
  BY <1>1, <1>4, ThrowGood
<1> QED
  BY <1>2, <1>3, <1>4 DEF ReadEscape

\* A hexadecimal digit is an accepted character of the basic plane, and its
\* value is known.
LEMMA HexDigitKnown ==
    ASSUME NEW c \in Nat
    PROVE  HexDigit(c) # -1 => HexDigit(c) \in Nat /\ c \in 48..102
  BY DEF HexDigit, DecimalDigit

\* One digit more is a number.
LEMMA AddHexDigitType ==
    ASSUME NEW unicode \in Nat, NEW c \in Nat, HexDigit(c) \in Nat
    PROVE  AddHexDigit(unicode, c) \in Nat
<1>1. LastCharacter \in Nat
  BY SMT DEF LastCharacter
<1>2. unicode * 16 + HexDigit(c) \in Nat
  OBVIOUS
<1> QED
  BY <1>1, <1>2 DEF AddHexDigit

\* A digit of an escaped character
LEMMA ReadHexDigitGood == ASSUME TokenInv, ReadHexDigit PROVE IsGood
<1>1. place = "inside" /\ run.at = "hex" /\ run.count > 0
  BY DEF ReadHexDigit, Looking, At
<1>2. CASE HexDigit(char) # -1 /\ Skip([run EXCEPT !.count = @ - 1, !.unicode = AddHexDigit(@, char)])
  <2> DEFINE k == run.count - 1
             u == AddHexDigit(run.unicode, char)
             next == [run EXCEPT !.count = k, !.unicode = u]
  <2>1. HexDigit(char) \in Nat /\ char \in 48..102 /\ char \in Nat /\ run.unicode \in Nat /\ run.count \in Nat
    BY <1>2, HexDigitKnown, Numbers DEF Points
  <2>2. Accepted /\ k \in Nat /\ u \in Nat /\ Skip(next)
    BY <1>1, <1>2, <2>1, AddHexDigitType DEF Accepted, isControlCharacter
  <2> HIDE DEF k, u
  <2>3. next \in Points /\ next.at = "hex" /\ next.type = run.type /\ next.count = k
    BY <1>1, <2>2, Numbers DEF Points
  <2> HIDE DEF next
  <2>4. SkipFits("hex", run.type, k)
    BY <1>1, <2>2, Current, Numbers
       DEF ContinueFits, SkipFits, Fits, LengthFits, TypeFits, SizeFits, DateFits, NothingWritten, LimitChecked
  <2> QED
    BY <1>1, <2>2, <2>3, <2>4, Numbers, SkipGood DEF Skip, SkipFits, Alike
<1>3. CASE throwSyntaxError
  BY <1>1, <1>3, ThrowGood
<1> QED
  BY <1>2, <1>3 DEF ReadHexDigit

\* The escaped character is written, if it is one.
LEMMA WriteUnicodeGood == ASSUME TokenInv, WriteUnicode PROVE IsGood
<1>1. place = "inside" /\ run.at = "hex"
  BY DEF WriteUnicode, Looking, At
<1>2. CASE isValidUnicode(run.unicode) /\ Write(run.unicode, To("content"))
  <2> DEFINE c == run.unicode
  <2>1. c \in 0..LastCharacter /\ Write(c, To("content")) /\ c \in Nat
    BY <1>2 DEF isValidUnicode
  <2> HIDE DEF c
  <2>2. Width(c) \in {1, 2}
    BY DEF Width
  <2>3. /\ To("content") \in Points /\ To("content").at = "content"
        /\ To("content").type = run.type /\ To("content").count = run.count
    BY Numbers, KnownPoints, PointTyped
  <2>4. WriteFits("content", run.type, run.count, c) /\ Len(token) < Passed
    BY <1>1, <2>2, Current, Numbers
       DEF ContinueFits, WriteFits, Fits, LengthFits, TypeFits, SizeFits, DateFits, NothingWritten, LimitChecked
  <2> QED
    BY <1>1, <2>1, <2>3, <2>4, WriteGood DEF WriteFits
<1>3. CASE throwSyntaxError
  BY <1>1, <1>3, ThrowGood
<1> QED
  BY <1>2, <1>3 DEF WriteUnicode

-------------------------------------------------------------------------------
(* Numbers                                                                 *)

\* What is known of the number limit.
LEMMA NumberLimit == cIntOrFloatCharacterLimit \in Nat /\ cIntOrFloatCharacterLimit >= 4
  BY LimitsAssumption

\* Characters from the space to the tilde are accepted, and narrow.
LEMMA AsciiAccepted == ASSUME char \in 32..126 PROVE Accepted /\ Width(char) = 1
<1>1. char \in 0..127
  OBVIOUS
<1> QED
  BY <1>1, SmallCharacters DEF Accepted, isControlCharacter

\* A character of a number is such a character.
LEMMA NumberCharacters ==
    ASSUME TokenInv,
           \/ isDecimalDigit \/ isDigit \/ isExponentPrefix \/ isNumberSystemPrefix \/ isPlusMinusSign
           \/ char \in {Dot, Minus, Colon, Underscore, Space}
           \/ char \in {Letter.T, Letter.t, Letter.z, Letter.Z}
    PROVE  char \in 32..126
<1>1. CASE isDecimalDigit
  BY <1>1 DEF isDecimalDigit, DecimalDigit
<1>2. CASE isDigit
  <2>1. char \in Nat
    BY Numbers
  <2>2. CASE run.type = "HexInteger"
    BY <1>2, <2>1, <2>2, HexDigitKnown DEF isDigit
  <2>3. CASE run.type = "OctalInteger"
    BY <1>2, <2>3 DEF isDigit
  <2>4. CASE run.type = "BinaryInteger"
    BY <1>2, <2>4 DEF isDigit
  <2>5. CASE run.type \notin {"HexInteger", "OctalInteger", "BinaryInteger"}
    BY <1>2, <2>5 DEF isDigit, isDecimalDigit, DecimalDigit
  <2> QED
    BY <2>2, <2>3, <2>4, <2>5
<1>3. CASE isExponentPrefix
  BY <1>3 DEF isExponentPrefix, Letter
<1>4. CASE isNumberSystemPrefix
  BY <1>4 DEF isNumberSystemPrefix, Letter
<1>5. CASE isPlusMinusSign
  BY <1>5 DEF isPlusMinusSign, Plus, Minus
<1>6. CASE char \in {Dot, Minus, Colon, Underscore, Space}
  BY <1>6 DEF Dot, Minus, Colon, Underscore, Space
<1>7. CASE char \in {Letter.T, Letter.t, Letter.z, Letter.Z}
  BY <1>7 DEF Letter
<1> QED
  BY <1>1, <1>2, <1>3, <1>4, <1>5, <1>6, <1>7

\* Each way to change run in a number or a date.
LEMMA DigitTyped ==
    ASSUME run \in Points, NEW b \in BOOLEAN
    PROVE  /\ [run EXCEPT !.digit = b] \in Points
           /\ [run EXCEPT !.digit = b].at = run.at /\ [run EXCEPT !.digit = b].type = run.type
           /\ [run EXCEPT !.digit = b].count = run.count
  BY DEF Points

\* A character of the basic plane is consumed.
LEMMA ConsumeNextGood ==
    ASSUME TokenInv, place = "inside", char \in 32..126, NEW next \in Points, Consume(next),
           ConsumeFits(next.at, next.type, next.count)
    PROVE  IsGood
  BY AsciiAccepted, Numbers, ConsumeGood DEF Consume, ConsumeFits, Alike

\* Tokenizer::readNumberLike
LEMMA ReadNumberLikeGood == ASSUME TokenInv, ReadNumberLike PROVE IsGood
<1>1. place = "inside" /\ run.at = "firstDigit"
  BY DEF ReadNumberLike, At
<1>2. /\ tokenSize <= 2 /\ tokenSize \in Nat /\ Len(token) <= Passed /\ Passed > 0
      /\ Len(token) \in Nat /\ Passed \in Nat
  BY <1>1, Current, Numbers DEF ContinueFits, Fits, LengthFits, SizeFits
<1>3. CASE createToken("DecimalInteger")
  <2>1. IsWithinLimit("DecimalInteger", tokenSize, ~hasChar) /\ "DecimalInteger" \in SimpleTypes
    BY <1>2, NumberLimit DEF IsWithinLimit, IntegerTypes, DateTypes, ValueTypes, TokenTypes, SimpleTypes, Brackets
  <2> QED
    BY <1>1, <1>3, <2>1, EndGood
<1>4. CASE Continue([run EXCEPT !.at = "integer", !.type = "DecimalInteger", !.digit = TRUE])
  <2> DEFINE next == [run EXCEPT !.at = "integer", !.type = "DecimalInteger", !.digit = TRUE]
  <2>1. "DecimalInteger" \in TokenTypes
    BY DEF TokenTypes, SimpleTypes, Brackets, ValueTypes
  <2>2. next \in Points /\ next.at = "integer" /\ next.type = "DecimalInteger" /\ next.count = run.count
    BY <2>1, Numbers, KnownPoints DEF Points
  <2>3. Continue(next)
    BY <1>4
  <2> HIDE DEF next
  <2>4. ContinueFits("integer", "DecimalInteger", run.count)
    BY <1>2, NumberLimit
       DEF ContinueFits, Fits, LengthFits, TypeFits, SizeFits, DateFits, NothingWritten, LimitChecked
  <2> QED
    BY <1>1, <2>2, <2>3, <2>4, Numbers, ContinueGood DEF Continue, ContinueFits, Alike
<1>5. CASE /\ isNumberSystemPrefix
           /\ \E type \in IntegerTypes : Consume([run EXCEPT !.at = "prefix", !.digit = FALSE, !.type = type])
  <2>1. PICK type \in IntegerTypes : Consume([run EXCEPT !.at = "prefix", !.digit = FALSE, !.type = type])
    BY <1>5
  <2> DEFINE next == [run EXCEPT !.at = "prefix", !.digit = FALSE, !.type = type]
  <2>2. type \in TokenTypes
    BY DEF TokenTypes, SimpleTypes, Brackets, ValueTypes, IntegerTypes
  <2>3. next \in Points /\ next.at = "prefix" /\ next.type = type /\ next.count = run.count
    BY <2>2, Numbers, KnownPoints DEF Points
  <2>4. Consume(next)
    BY <2>1
  <2> HIDE DEF next
  <2>5. char \in 32..126 /\ Width(char) = 1
    BY <1>5, NumberCharacters, AsciiAccepted
  <2>6. ConsumeFits("prefix", type, run.count)
    BY <1>2, <2>5, NumberLimit
       DEF ContinueFits, ConsumeFits, Fits, LengthFits, TypeFits, SizeFits, DateFits, NothingWritten, LimitChecked
  <2> QED
    BY <1>1, <2>3, <2>4, <2>5, <2>6, ConsumeNextGood
<1>6. CASE throwSyntaxError
  BY <1>1, <1>6, ThrowGood
<1> QED
  <2>1. ASSUME isNumberSystemPrefix,
               Consume([run EXCEPT !.at = "prefix", !.digit = FALSE,
                          !.type = CASE char = Letter.x -> "HexInteger"
                                     [] char = Letter.o -> "OctalInteger"
                                     [] OTHER -> "BinaryInteger"])
        PROVE  \E type \in IntegerTypes : Consume([run EXCEPT !.at = "prefix", !.digit = FALSE, !.type = type])
    <3>1. (CASE char = Letter.x -> "HexInteger" [] char = Letter.o -> "OctalInteger"
             [] OTHER -> "BinaryInteger") \in IntegerTypes
      BY DEF IntegerTypes
    <3> QED
      BY <2>1, <3>1, Zenon
  <2> QED
    BY <1>3, <1>4, <1>5, <1>6, <2>1 DEF ReadNumberLike

\* What is known in consumeDigits.
LEMMA InDigitsKnown ==
    ASSUME TokenInv, InDigits
    PROVE  /\ place = "inside" /\ run.at \in DigitLoops
           /\ tokenSize <= cIntOrFloatCharacterLimit
  BY DEF InDigits, Looking, At

\* A digit is consumed.
LEMMA ConsumeDigitGood == ASSUME TokenInv, ConsumeDigit PROVE IsGood
<1>1. /\ place = "inside" /\ run.at \in DigitLoops /\ tokenSize <= cIntOrFloatCharacterLimit
      /\ isDigit /\ Consume([run EXCEPT !.digit = TRUE])
  BY InDigitsKnown DEF ConsumeDigit
<1>2. char \in 32..126 /\ Width(char) = 1
  BY <1>1, NumberCharacters, AsciiAccepted
<1> DEFINE next == [run EXCEPT !.digit = TRUE]
<1>3. next \in Points /\ next.at = run.at /\ next.type = run.type /\ next.count = run.count
  BY Numbers, DigitTyped
<1>4. Consume(next)
  BY <1>1
<1> HIDE DEF next
<1>5. ConsumeFits(run.at, run.type, run.count)
  <2>1. CASE run.at = "integer"
    BY <1>1, <1>2, <2>1, Current, Numbers, NumberLimit
       DEF ContinueFits, ConsumeFits, Fits, LengthFits, TypeFits, SizeFits, DateFits, NothingWritten, LimitChecked
  <2>2. CASE run.at = "prefix"
    BY <1>1, <1>2, <2>2, Current, Numbers, NumberLimit
       DEF ContinueFits, ConsumeFits, Fits, LengthFits, TypeFits, SizeFits, DateFits, NothingWritten, LimitChecked
  <2>3. CASE run.at = "fractionDigits"
    BY <1>1, <1>2, <2>3, Current, Numbers, NumberLimit
       DEF ContinueFits, ConsumeFits, Fits, LengthFits, TypeFits, SizeFits, DateFits, NothingWritten, LimitChecked
  <2>4. CASE run.at = "exponentDigits"
    BY <1>1, <1>2, <2>4, Current, Numbers, NumberLimit
       DEF ContinueFits, ConsumeFits, Fits, LengthFits, TypeFits, SizeFits, DateFits, NothingWritten, LimitChecked
  <2> QED
    BY <1>1, <2>1, <2>2, <2>3, <2>4 DEF DigitLoops
<1> QED
  BY <1>1, <1>2, <1>3, <1>4, <1>5, ConsumeNextGood

\* An underscore is skipped.
LEMMA SkipUnderscoreGood == ASSUME TokenInv, SkipUnderscore PROVE IsGood
<1>1. place = "inside" /\ char = Underscore /\ Skip([run EXCEPT !.digit = FALSE])
  BY InDigitsKnown DEF SkipUnderscore
<1>2. Accepted
  BY <1>1, NumberCharacters, AsciiAccepted
<1> DEFINE next == [run EXCEPT !.digit = FALSE]
<1>3. next \in Points /\ next.at = run.at /\ next.type = run.type /\ next.count = run.count
  BY Numbers, DigitTyped
<1>4. Skip(next)
  BY <1>1
<1> HIDE DEF next
<1> QED
  BY <1>1, <1>2, <1>3, <1>4, MorePassed, Numbers, SkipGood DEF Skip, SkipFits, Alike

\* An error among the digits.
LEMMA DigitsRejectedGood == ASSUME TokenInv, DigitsRejected PROVE IsGood
  BY ThrowGood DEF DigitsRejected

\* What is known behind the digits.
LEMMA DigitsReadKnown ==
    ASSUME TokenInv, NEW loop \in DigitLoops, DigitsRead(loop)
    PROVE  /\ place = "inside" /\ run.at = loop /\ Passed > 0 /\ Len(token) <= Passed
           /\ hasChar => tokenSize <= cIntOrFloatCharacterLimit
           /\ ~streamAtEnd => hasChar
<1>1. place = "inside" /\ run.at = loop /\ (hasChar => InDigits)
  BY DEF DigitsRead, At
<1>2. Passed > 0 /\ Len(token) <= Passed
  BY <1>1, Current DEF ContinueFits, Fits, LengthFits, DigitLoops
<1>3. ~streamAtEnd => hasChar
  BY <1>1, Current DEF streamAtEnd, atEnd
<1> QED
  BY <1>1, <1>2, <1>3, InDigitsKnown

\* A number that ends at a common end.
LEMMA EndNumberGood ==
    ASSUME TokenInv, NEW loop \in DigitLoops, DigitsRead(loop), NEW type \in SimpleTypes,
           EndValue(type) \/ createToken(type),
           \/ loop \in {"integer", "prefix"} /\ type \in IntegerTypes
           \/ type = "Float" /\ loop \in {"fractionDigits", "exponentDigits"}
    PROVE  IsGood
<1>1. /\ place = "inside" /\ run.at = loop /\ Passed > 0
      /\ hasChar => tokenSize <= cIntOrFloatCharacterLimit
  BY DigitsReadKnown
<1>2. tokenSize \in Nat /\ hasChar \in BOOLEAN
  BY Numbers DEF TokenInv, IndInv, TypeOK
<1>3. IsWithinLimit(type, tokenSize, ~hasChar)
  <2>1. CASE loop \in {"integer", "prefix"} /\ type \in IntegerTypes
    <3>1. tokenSize <= cIntOrFloatCharacterLimit + 1
      BY <1>1, <2>1, Current DEF ContinueFits, Fits, SizeFits
    <3> QED
      BY <1>1, <1>2, <2>1, <3>1, NumberLimit DEF IsWithinLimit, IntegerTypes, DateTypes, ValueTypes
  <2>2. CASE type = "Float" /\ loop \in {"fractionDigits", "exponentDigits"}
    <3>1. tokenSize <= cIntOrFloatCharacterLimit + 3
      BY <1>1, <1>2, <2>2, Current, NumberLimit DEF ContinueFits, Fits, SizeFits
    <3> QED
      BY <1>1, <1>2, <2>2, <3>1, NumberLimit DEF IsWithinLimit, IntegerTypes, DateTypes, ValueTypes
  <2> QED
    BY <2>1, <2>2
<1> QED
  BY <1>1, <1>3, NoBracket, CreateGood, EndValueGood

\* An exponent begins.
LEMMA ExponentGood ==
    ASSUME TokenInv, NEW loop \in DigitLoops, DigitsRead(loop), ~streamAtEnd, isExponentPrefix, Exponent
    PROVE  IsGood
<1>1. /\ place = "inside" /\ Passed > 0 /\ Len(token) <= Passed
      /\ tokenSize <= cIntOrFloatCharacterLimit
  BY DigitsReadKnown
<1>2. char \in 32..126 /\ Width(char) = 1 /\ Accepted
  BY NumberCharacters, AsciiAccepted
<1>3. ConsumeFits("exponent", run.type, run.count)
  BY <1>1, <1>2, Numbers, NumberLimit
     DEF ContinueFits, ConsumeFits, Fits, LengthFits, TypeFits, SizeFits, DateFits, NothingWritten, LimitChecked
<1> QED
  BY <1>1, <1>2, <1>3, KnownPoints, ConsumeToGood DEF CanPass, Exponent

\* A date or a time begins: its length is known exactly.
LEMMA DateOrTimeGood ==
    ASSUME TokenInv, place = "inside", run.at = "integer", char \in {Minus, Colon},
           \/ DateOrTime(4, "month", "LocalDate")
           \/ DateOrTime(2, "minute", "LocalTime")
    PROVE  IsGood
<1>1. char \in 32..126 /\ Width(char) = 1
  BY NumberCharacters, AsciiAccepted
<1>2. Passed > 0 /\ Len(token) <= Passed
  BY Current DEF ContinueFits, Fits, LengthFits
<1>3. CASE throwSyntaxError
  BY <1>3, ThrowGood
<1>4. ASSUME NEW digits \in {2, 4}, NEW point \in {"month", "minute"}, NEW type \in {"LocalDate", "LocalTime"},
             tokenSize = digits, point = "month" => digits = 4,
             Consume([run EXCEPT !.at = point, !.type = type, !.count = 2])
      PROVE  IsGood
  <2> DEFINE next == [run EXCEPT !.at = point, !.type = type, !.count = 2]
  <2>1. point \in PointNames /\ type \in TokenTypes
    BY KnownPoints DEF TokenTypes, SimpleTypes, Brackets, ValueTypes
  <2>2. next \in Points /\ next.at = point /\ next.type = type /\ next.count = 2
    BY <2>1, Numbers DEF Points
  <2>3. Consume(next)
    BY <1>4
  <2> HIDE DEF next
  <2>4. tokenSize \in {2, 4}
    BY <1>4
  <2>5. ConsumeFits(point, type, 2)
    <3>1. CASE point = "month"
      BY <1>1, <1>2, <1>4, <3>1, Numbers
         DEF ContinueFits, ConsumeFits, Fits, LengthFits, TypeFits, SizeFits, DateFits, NothingWritten, LimitChecked
    <3>2. CASE point = "minute"
      BY <1>1, <1>2, <2>4, <3>2, Numbers
         DEF ContinueFits, ConsumeFits, Fits, LengthFits, TypeFits, SizeFits, DateFits, NothingWritten, LimitChecked
    <3> QED
      BY <3>1, <3>2
  <2> QED
    BY <1>1, <2>2, <2>3, <2>5, ConsumeNextGood
<1> QED
  BY <1>3, <1>4 DEF DateOrTime

\* Back in readNumberLike
LEMMA EndIntegerGood == ASSUME TokenInv, EndInteger PROVE IsGood
<1>0. "integer" \in DigitLoops /\ "DecimalInteger" \in SimpleTypes /\ "DecimalInteger" \in IntegerTypes
  BY DEF DigitLoops, TokenTypes, SimpleTypes, Brackets, ValueTypes, IntegerTypes
<1>1. DigitsRead("integer") /\ place = "inside" /\ run.at = "integer"
  BY <1>0, DigitsReadKnown DEF EndInteger
<1>2. CASE createToken("DecimalInteger") \/ EndValue("DecimalInteger")
  BY <1>0, <1>1, <1>2, EndNumberGood
<1>3. CASE ~streamAtEnd /\ char = Dot /\ Consume(To("fraction"))
  <2>1. tokenSize <= cIntOrFloatCharacterLimit /\ Passed > 0 /\ Len(token) <= Passed
    BY <1>0, <1>1, <1>3, DigitsReadKnown
  <2>2. Width(char) = 1 /\ Accepted
    BY <1>3, NumberCharacters, AsciiAccepted
  <2>3. ConsumeFits("fraction", run.type, run.count)
    BY <2>1, <2>2, Numbers, NumberLimit
       DEF ContinueFits, ConsumeFits, Fits, LengthFits, TypeFits, SizeFits, DateFits, NothingWritten, LimitChecked
  <2> QED
    BY <1>1, <1>3, <2>2, <2>3, KnownPoints, ConsumeToGood DEF CanPass
<1>4. CASE ~streamAtEnd /\ isExponentPrefix /\ Exponent
  BY <1>0, <1>1, <1>4, ExponentGood
<1>5. CASE char \in {Minus, Colon} /\ (DateOrTime(4, "month", "LocalDate") \/ DateOrTime(2, "minute", "LocalTime"))
  BY <1>1, <1>5, DateOrTimeGood
<1> QED
  BY <1>2, <1>3, <1>4, <1>5 DEF EndInteger

\* The first digit of a fraction or of an exponent
LEMMA ReadFirstDigitGood ==
    ASSUME TokenInv, NEW point, NEW loop, ReadFirstDigitOf(point, loop),
           \/ point = "fraction" /\ loop = "fractionDigits"
           \/ point = "exponentDigit" /\ loop = "exponentDigits"
    PROVE  IsGood
<1>1. place = "inside" /\ run.at = point
  BY DEF ReadFirstDigitOf, Looking, At
<1>2. CASE isDecimalDigit /\ Consume([run EXCEPT !.at = loop, !.digit = TRUE])
  <2> DEFINE next == [run EXCEPT !.at = loop, !.digit = TRUE]
  <2>1. char \in 32..126 /\ Width(char) = 1
    BY <1>2, NumberCharacters, AsciiAccepted
  <2>5. loop \in PointNames
    BY KnownPoints
  <2>2. next \in Points /\ next.at = loop /\ next.type = run.type /\ next.count = run.count
    BY <2>5, Numbers DEF Points
  <2>3. Consume(next)
    BY <1>2
  <2> HIDE DEF next
  <2>4. ConsumeFits(loop, run.type, run.count)
    <3>1. CASE point = "fraction" /\ loop = "fractionDigits"
      BY <1>1, <2>1, <3>1, Current, Numbers, NumberLimit
         DEF ContinueFits, ConsumeFits, Fits, LengthFits, TypeFits, SizeFits, DateFits, NothingWritten, LimitChecked
    <3>2. CASE point = "exponentDigit" /\ loop = "exponentDigits"
      BY <1>1, <2>1, <3>2, Current, Numbers, NumberLimit
         DEF ContinueFits, ConsumeFits, Fits, LengthFits, TypeFits, SizeFits, DateFits, NothingWritten, LimitChecked
    <3> QED
      BY <3>1, <3>2
  <2> QED
    BY <1>1, <2>1, <2>2, <2>3, <2>4, ConsumeNextGood
<1>3. CASE throwSyntaxError
  BY <1>1, <1>3, ThrowGood
<1> QED
  BY <1>2, <1>3 DEF ReadFirstDigitOf

\* Tokenizer::readFloatFraction
LEMMA ReadFractionGood == ASSUME TokenInv, ReadFraction PROVE IsGood
  BY ReadFirstDigitGood DEF ReadFraction

\* The end of a fraction
LEMMA EndFractionGood == ASSUME TokenInv, EndFraction PROVE IsGood
<1>1. "fractionDigits" \in DigitLoops /\ "Float" \in SimpleTypes
  BY DEF DigitLoops, TokenTypes, SimpleTypes, Brackets, ValueTypes
<1> QED
  BY <1>1, EndNumberGood, ExponentGood DEF EndFraction

\* Tokenizer::readExponent
LEMMA ReadExponentSignGood == ASSUME TokenInv, ReadExponentSign PROVE IsGood
<1>1. place = "inside" /\ run.at = "exponent"
  BY DEF ReadExponentSign, Looking, At
<1>2. CASE isPlusMinusSign /\ Consume(To("exponentDigit"))
  <2>1. Width(char) = 1 /\ Accepted
    BY <1>2, NumberCharacters, AsciiAccepted
  <2>2. ConsumeFits("exponentDigit", run.type, run.count)
    BY <1>1, <2>1, Current, Numbers, NumberLimit
       DEF ContinueFits, ConsumeFits, Fits, LengthFits, TypeFits, SizeFits, DateFits, NothingWritten, LimitChecked
  <2> QED
    BY <1>1, <1>2, <2>1, <2>2, KnownPoints, ConsumeToGood DEF CanPass
<1>3. CASE Continue(To("exponentDigit"))
  <2>1. ContinueFits("exponentDigit", run.type, run.count)
    BY <1>1, Current, Numbers, NumberLimit
       DEF ContinueFits, Fits, LengthFits, TypeFits, SizeFits, DateFits, NothingWritten, LimitChecked
  <2> QED
    BY <1>1, <1>3, <2>1, KnownPoints, ContinueToGood DEF CanStay
<1> QED
  BY <1>2, <1>3 DEF ReadExponentSign

\* The first digit of an exponent
LEMMA ReadExponentGood == ASSUME TokenInv, ReadExponent PROVE IsGood
  BY ReadFirstDigitGood DEF ReadExponent

\* The end of an exponent
LEMMA EndExponentGood == ASSUME TokenInv, EndExponent PROVE IsGood
<1>1. "exponentDigits" \in DigitLoops /\ "Float" \in SimpleTypes
  BY DEF DigitLoops, TokenTypes, SimpleTypes, Brackets, ValueTypes
<1> QED
  BY <1>1, EndNumberGood DEF EndExponent

\* Tokenizer::readPrefixedNumber
LEMMA EndPrefixedGood == ASSUME TokenInv, EndPrefixed PROVE IsGood
<1>1. "prefix" \in DigitLoops
  BY DEF DigitLoops
<1>2. place = "inside" /\ run.at = "prefix"
  BY <1>1, DigitsReadKnown DEF EndPrefixed
<1>3. run.type \in IntegerTypes /\ run.type \in SimpleTypes
  BY <1>2, Current DEF ContinueFits, Fits, TypeFits, IntegerTypes, TokenTypes, SimpleTypes, Brackets, ValueTypes
<1> QED
  BY <1>1, <1>3, EndNumberGood DEF EndPrefixed

-------------------------------------------------------------------------------
(* Dates and times                                                         *)

\* What is known in a date or a time.
LEMMA DateKnown ==
    ASSUME TokenInv, place = "inside",
           run.at \in DigitGroups \cup {"dateSpace", "secondFraction", "zone"}
    PROVE  /\ Passed > 0 /\ Len(token) <= Passed /\ Passed \in Nat
           /\ run.count \in Nat /\ Len(token) \in Nat /\ tokenSize \in Nat
           /\ TypeFits(run.at, run.type, tokenSize) /\ DateFits(run.at, run.count, tokenSize)
<1>1. run.at \notin {"begin", "sign"}
  BY DEF DigitGroups
<1>2. ContinueFits(run.at, run.type, run.count) /\ Passed \in Nat /\ run.count \in Nat
  BY Current
<1>3. Passed > 0 /\ Len(token) <= Passed
  BY <1>1, <1>2 DEF ContinueFits, Fits, LengthFits
<1>4. TypeFits(run.at, run.type, tokenSize) /\ DateFits(run.at, run.count, tokenSize)
  BY <1>2 DEF ContinueFits, Fits
<1> QED
  BY <1>2, <1>3, <1>4, Numbers

\* A date or a time that ends.
LEMMA EndDateGood ==
    ASSUME TokenInv, place = "inside",
           run.at \in DigitGroups \cup {"dateSpace", "secondFraction", "zone"},
           NEW type \in DateTypes, EndValue(type) \/ createToken(type), tokenSize <= 37
    PROVE  IsGood
<1>1. type \in SimpleTypes
  BY DEF DateTypes, TokenTypes, SimpleTypes, Brackets, ValueTypes
<1>2. IsWithinLimit(type, tokenSize, ~hasChar)
  BY DEF IsWithinLimit, IntegerTypes, DateTypes, ValueTypes
<1>3. Passed > 0
  BY DateKnown
<1> QED
  BY <1>1, <1>2, <1>3, NoBracket, CreateGood, EndValueGood

\* A digit of a group is consumed.
LEMMA ConsumeDecimalDigitGood == ASSUME TokenInv, ConsumeDecimalDigit PROVE IsGood
<1>1. place = "inside" /\ run.at \in DigitGroups /\ run.count > 0
  BY DEF ConsumeDecimalDigit
<1>2. CASE isDecimalDigit /\ Consume([run EXCEPT !.count = @ - 1])
  <2> DEFINE k == run.count - 1
             next == [run EXCEPT !.count = @ - 1]
  <2>1. char \in 32..126 /\ Width(char) = 1
    BY <1>2, NumberCharacters, AsciiAccepted
  <2>2. k \in Nat /\ run.count = k + 1
    BY <1>1, DateKnown
  <2>3. next \in Points /\ next.at = run.at /\ next.type = run.type /\ next.count = k
    BY <2>2, Numbers DEF Points
  <2>4. Consume(next)
    BY <1>2
  <2> HIDE DEF next, k
  <2>5. /\ Passed > 0 /\ Len(token) <= Passed /\ Passed \in Nat /\ Len(token) \in Nat /\ tokenSize \in Nat
        /\ TypeFits(run.at, run.type, tokenSize) /\ DateFits(run.at, k + 1, tokenSize)
    BY <1>1, <2>2, DateKnown
  <2>6. TypeFits(run.at, run.type, tokenSize + 1)
    BY <1>1, <2>5 DEF TypeFits, DigitGroups
  <2>7. DateFits(run.at, k, tokenSize + 1)
    BY <1>1, <2>2, <2>5 DEF DateFits, DigitGroups
  <2>8. SizeFits(run.at, k, tokenSize + 1) /\ LengthFits(run.at, k, Len(token) + 1, Passed + 1)
    BY <1>1, <2>5 DEF SizeFits, LengthFits, DigitGroups, NothingWritten, LimitChecked
  <2>9. ConsumeFits(run.at, run.type, k)
    BY <1>1, <2>1, <2>5, <2>6, <2>7, <2>8 DEF ConsumeFits, Fits, DigitGroups
  <2> QED
    BY <1>1, <2>1, <2>3, <2>4, <2>9, ConsumeNextGood
<1>3. CASE throwSyntaxError
  BY <1>1, <1>3, ThrowGood
<1> QED
  BY <1>2, <1>3 DEF ConsumeDecimalDigit

\* A character between two groups is consumed; so many digits come next.
LEMMA ConsumeBetweenGood ==
    ASSUME TokenInv, place = "inside",
           run.at \in DigitGroups \cup {"dateSpace", "secondFraction", "zone"},
           char \in 32..126, NEW point \in PointNames, NEW count \in Nat, Consume(ToCount(point, count)),
           point \in {"day", "hour", "minute", "second", "secondFraction", "zoneHour", "zoneMinute"},
           TypeFits(point, run.type, tokenSize + 1), DateFits(point, count, tokenSize + 1)
    PROVE  IsGood
<1>1. Passed > 0 /\ Len(token) <= Passed /\ Passed \in Nat /\ Len(token) \in Nat /\ tokenSize \in Nat
  BY DateKnown
<1>2. Width(char) = 1 /\ Accepted
  BY AsciiAccepted
<1>3. SizeFits(point, count, tokenSize + 1) /\ LengthFits(point, count, Len(token) + 1, Passed + 1)
  BY <1>1 DEF SizeFits, LengthFits, NothingWritten, LimitChecked
<1>4. ConsumeFits(point, run.type, count)
  BY <1>1, <1>2, <1>3 DEF ConsumeFits, Fits
<1> QED
  BY <1>2, <1>4, ConsumeToCountGood DEF CanPass

\* A separator between two groups
LEMMA SeparatedGood ==
    ASSUME TokenInv, place = "inside", run.at \in DigitGroups, NEW separator \in {Minus, Colon},
           NEW point \in {"day", "minute", "zoneMinute"}, Separated(separator, point),
           TypeFits(point, run.type, tokenSize + 1), DateFits(point, 2, tokenSize + 1)
    PROVE  IsGood
<1>1. point \in PointNames
  BY KnownPoints
<1>2. CASE char = separator /\ Consume(ToCount(point, 2))
  <2>1. char \in 32..126
    BY <1>2, NumberCharacters
  <2> QED
    BY <1>1, <1>2, <2>1, ConsumeBetweenGood
<1>3. CASE throwSyntaxError
  BY <1>3, ThrowGood
<1> QED
  BY <1>2, <1>3 DEF Separated

\* Tokenizer::readDate, behind the month
LEMMA EndMonthGood == ASSUME TokenInv, EndMonth PROVE IsGood
<1>1. place = "inside" /\ run.at = "month" /\ run.count = 0 /\ Separated(Minus, "day") /\ run.at \in DigitGroups
  BY DEF EndMonth, Group, At, DigitGroups
<1>2. TypeFits("day", run.type, tokenSize + 1) /\ DateFits("day", 2, tokenSize + 1)
  BY <1>1, DateKnown DEF TypeFits, DateFits
<1> QED
  BY <1>1, <1>2, SeparatedGood

\* Behind the day
LEMMA EndDayGood == ASSUME TokenInv, EndDay PROVE IsGood
<1>1. place = "inside" /\ run.at = "day" /\ run.count = 0 /\ run.at \in DigitGroups
  BY DEF EndDay, Group, At, DigitGroups
<1>2. tokenSize <= 10 /\ tokenSize \in Nat /\ run.type \in {"LocalDate", "LocalTime"}
  BY <1>1, DateKnown DEF TypeFits, DateFits
<1>3. CASE createToken("LocalDate") \/ EndValue("LocalDate")
  <2>1. tokenSize <= 37 /\ "LocalDate" \in DateTypes
    BY <1>2 DEF DateTypes
  <2> QED
    BY <1>1, <1>3, <2>1, EndDateGood
<1>4. CASE char \in {Letter.T, Letter.t} /\ Consume(ToCount("hour", 2))
  <2>1. char \in 32..126
    BY <1>4, NumberCharacters
  <2>2. TypeFits("hour", run.type, tokenSize + 1) /\ DateFits("hour", 2, tokenSize + 1)
    BY <1>2 DEF TypeFits, DateFits
  <2> QED
    BY <1>1, <1>4, <2>1, <2>2, KnownPoints, ConsumeBetweenGood
<1>5. CASE char = Space /\ Skip(To("dateSpace"))
  <2>1. CanPass
    BY <1>1, <1>5, NumberCharacters, AsciiAccepted DEF CanPass
  <2>2. SkipFits("dateSpace", run.type, run.count)
    BY <1>1, <1>2, DateKnown
       DEF ContinueFits, SkipFits, Fits, LengthFits, TypeFits, SizeFits, DateFits, NothingWritten, LimitChecked
  <2> QED
    BY <1>5, <2>1, <2>2, KnownPoints, SkipToGood
<1> QED
  BY <1>3, <1>4, <1>5 DEF EndDay

\* Behind the space after a date
LEMMA EndDateSpaceGood == ASSUME TokenInv, EndDateSpace PROVE IsGood
<1>1. place = "inside" /\ run.at = "dateSpace"
  BY DEF EndDateSpace, At
<1>2. tokenSize <= 10 /\ tokenSize \in Nat /\ run.type \in {"LocalDate", "LocalTime"}
  BY <1>1, DateKnown DEF TypeFits, DateFits
<1>3. CASE createToken("LocalDate") \/ EndValue("LocalDate")
  <2>1. tokenSize <= 37 /\ "LocalDate" \in DateTypes
    BY <1>2 DEF DateTypes
  <2> QED
    BY <1>1, <1>3, <2>1, EndDateGood
<1>4. CASE Write(Space, ToCount("hour", 2))
  <2>1. Space \in 0..127
    BY DEF Space
  <2>2. Space \in 0..LastCharacter /\ Width(Space) = 1
    BY <2>1, SmallCharacters
  <2>3. /\ ToCount("hour", 2) \in Points /\ ToCount("hour", 2).at = "hour"
        /\ ToCount("hour", 2).type = run.type /\ ToCount("hour", 2).count = 2
    BY Numbers, KnownPoints, PointCountTyped
  <2>4. Len(token) < Passed
    BY <1>1, Current DEF ContinueFits, Fits, LengthFits
  <2>5. WriteFits("hour", run.type, 2, Space)
    BY <1>1, <1>2, <2>2, <2>4, DateKnown
       DEF ContinueFits, WriteFits, Fits, LengthFits, TypeFits, SizeFits, DateFits, NothingWritten, LimitChecked
  <2> QED
    BY <1>1, <1>4, <2>2, <2>3, <2>4, <2>5, WriteGood DEF WriteFits
<1> QED
  BY <1>3, <1>4 DEF EndDateSpace

\* Tokenizer::readTime, behind the hour
LEMMA EndHourGood == ASSUME TokenInv, EndHour PROVE IsGood
<1>1. place = "inside" /\ run.at = "hour" /\ run.count = 0 /\ Separated(Colon, "minute") /\ run.at \in DigitGroups
  BY DEF EndHour, Group, At, DigitGroups
<1>2. TypeFits("minute", run.type, tokenSize + 1) /\ DateFits("minute", 2, tokenSize + 1)
  BY <1>1, DateKnown DEF TypeFits, DateFits
<1> QED
  BY <1>1, <1>2, SeparatedGood

\* To go on with the time zone
LEMMA ContinueZoneGood ==
    ASSUME TokenInv, place = "inside", run.at \in {"minute", "second", "secondFraction"}, tokenSize <= 31,
           Continue(To("zone"))
    PROVE  IsGood
<1>1. run.at \in DigitGroups \cup {"dateSpace", "secondFraction", "zone"}
  BY DEF DigitGroups
<1>2. run.type \in {"LocalDate", "LocalTime"}
  BY <1>1, DateKnown DEF TypeFits
<1>3. ContinueFits("zone", run.type, run.count)
  BY <1>1, <1>2, DateKnown
     DEF ContinueFits, Fits, LengthFits, TypeFits, SizeFits, DateFits, NothingWritten, LimitChecked
<1> QED
  BY <1>3, KnownPoints, ContinueToGood DEF CanStay

\* Behind the minute
LEMMA EndMinuteGood == ASSUME TokenInv, EndMinute PROVE IsGood
<1>1. place = "inside" /\ run.at = "minute" /\ run.count = 0 /\ run.at \in DigitGroups
  BY DEF EndMinute, Group, At, DigitGroups
<1>2. tokenSize <= 16 /\ tokenSize \in Nat /\ run.type \in {"LocalDate", "LocalTime"}
  BY <1>1, DateKnown DEF TypeFits, DateFits
<1>3. CASE createToken("LocalDate")
  <2>1. tokenSize <= 37 /\ "LocalDate" \in DateTypes
    BY <1>2 DEF DateTypes
  <2> QED
    BY <1>1, <1>3, <2>1, EndDateGood
<1>4. CASE char = Colon /\ Consume(ToCount("second", 2))
  <2>1. char \in 32..126
    BY <1>4, NumberCharacters
  <2>2. TypeFits("second", run.type, tokenSize + 1) /\ DateFits("second", 2, tokenSize + 1)
    BY <1>2 DEF TypeFits, DateFits
  <2> QED
    BY <1>1, <1>4, <2>1, <2>2, KnownPoints, ConsumeBetweenGood
<1>5. CASE Continue(To("zone"))
  BY <1>1, <1>2, <1>5, ContinueZoneGood
<1>6. CASE throwSyntaxError
  BY <1>1, <1>6, ThrowGood
<1> QED
  BY <1>3, <1>4, <1>5, <1>6 DEF EndMinute

\* Behind the second
LEMMA EndSecondGood == ASSUME TokenInv, EndSecond PROVE IsGood
<1>1. place = "inside" /\ run.at = "second" /\ run.count = 0 /\ run.at \in DigitGroups
  BY DEF EndSecond, Group, At, DigitGroups
<1>2. tokenSize <= 19 /\ tokenSize \in Nat /\ run.type \in {"LocalDate", "LocalTime"}
  BY <1>1, DateKnown DEF TypeFits, DateFits
<1>3. CASE createToken(run.type)
  <2>1. tokenSize <= 37 /\ run.type \in DateTypes
    BY <1>2 DEF DateTypes
  <2> QED
    BY <1>1, <1>3, <2>1, EndDateGood
<1>4. CASE char = Dot /\ Consume(ToCount("secondFraction", 0))
  <2>1. char \in 32..126
    BY <1>4, NumberCharacters
  <2>2. TypeFits("secondFraction", run.type, tokenSize + 1) /\ DateFits("secondFraction", 0, tokenSize + 1)
    BY <1>2 DEF TypeFits, DateFits
  <2> QED
    BY <1>1, <1>4, <2>1, <2>2, KnownPoints, ConsumeBetweenGood
<1>5. CASE Continue(To("zone"))
  BY <1>1, <1>2, <1>5, ContinueZoneGood
<1> QED
  BY <1>3, <1>4, <1>5 DEF EndSecond

\* Tokenizer::readOptionalFraction: at most eleven digits
LEMMA ReadSecondFractionGood == ASSUME TokenInv, ReadSecondFraction PROVE IsGood
<1>1. place = "inside" /\ run.at = "secondFraction"
  BY DEF ReadSecondFraction, At
<1>2. /\ run.count <= 11 /\ tokenSize <= 20 + run.count /\ tokenSize \in Nat /\ run.count \in Nat
      /\ run.type \in {"LocalDate", "LocalTime"}
  BY <1>1, DateKnown DEF TypeFits, DateFits
<1>3. CASE Continue(To("zone"))
  <2>1. tokenSize <= 31
    BY <1>2
  <2> QED
    BY <1>1, <1>3, <2>1, ContinueZoneGood
<1>4. CASE isDecimalDigit /\ run.count # 11 /\ Consume([run EXCEPT !.count = @ + 1])
  <2> DEFINE k == run.count + 1
             next == [run EXCEPT !.count = @ + 1]
  <2>1. char \in 32..126 /\ Width(char) = 1
    BY <1>4, NumberCharacters, AsciiAccepted
  <2>2. k \in Nat /\ k <= 11 /\ tokenSize + 1 <= 20 + k
    BY <1>2, <1>4
  <2>3. next \in Points /\ next.at = "secondFraction" /\ next.type = run.type /\ next.count = k
    BY <1>1, <2>2, Numbers DEF Points
  <2>4. Consume(next)
    BY <1>4
  <2> HIDE DEF next, k
  <2>5. ConsumeFits("secondFraction", run.type, k)
    BY <1>1, <1>2, <2>1, <2>2, DateKnown
       DEF ContinueFits, ConsumeFits, Fits, LengthFits, TypeFits, SizeFits, DateFits, NothingWritten, LimitChecked
  <2> QED
    BY <1>1, <2>1, <2>3, <2>4, <2>5, ConsumeNextGood
<1>5. CASE throwSyntaxError
  BY <1>1, <1>5, ThrowGood
<1> QED
  BY <1>3, <1>4, <1>5 DEF ReadSecondFraction

\* Tokenizer::readTimeZone
LEMMA ReadTimeZoneGood == ASSUME TokenInv, ReadTimeZone PROVE IsGood
<1>1. place = "inside" /\ run.at = "zone"
  BY DEF ReadTimeZone, At
<1>2. tokenSize <= 31 /\ tokenSize \in Nat /\ run.type \in {"LocalDate", "LocalTime"}
  BY <1>1, DateKnown DEF TypeFits, DateFits
<1>3. CASE EndValue("LocalTime") \/ EndValue("LocalDateTime")
  <2>1. tokenSize <= 37 /\ "LocalTime" \in DateTypes /\ "LocalDateTime" \in DateTypes
    BY <1>2 DEF DateTypes
  <2> QED
    BY <1>1, <1>3, <2>1, EndDateGood
<1>4. CASE char \in {Letter.z, Letter.Z} /\ Consume(ToType("finish", "OffsetDateTime"))
  <2>1. Accepted /\ Width(char) = 1
    BY <1>4, NumberCharacters, AsciiAccepted
  <2>2. "OffsetDateTime" \in TokenTypes
    BY DEF TokenTypes, SimpleTypes, Brackets, ValueTypes
  <2>3. ConsumeFits("finish", "OffsetDateTime", run.count)
    BY <1>1, <1>2, <2>1, DateKnown
       DEF ContinueFits, ConsumeFits, Fits, LengthFits, TypeFits, SizeFits, DateFits, NothingWritten, LimitChecked, Brackets
  <2> QED
    BY <1>1, <1>4, <2>1, <2>2, <2>3, KnownPoints, ConsumeToTypeGood DEF CanPass
<1>5. CASE isPlusMinusSign /\ Consume(ToCount("zoneHour", 2))
  <2>1. char \in 32..126
    BY <1>5, NumberCharacters
  <2>2. TypeFits("zoneHour", run.type, tokenSize + 1) /\ DateFits("zoneHour", 2, tokenSize + 1)
    BY <1>2 DEF TypeFits, DateFits
  <2> QED
    BY <1>1, <1>5, <2>1, <2>2, KnownPoints, ConsumeBetweenGood
<1> QED
  BY <1>3, <1>4, <1>5 DEF ReadTimeZone

\* Behind the hour of the time zone
LEMMA EndZoneHourGood == ASSUME TokenInv, EndZoneHour PROVE IsGood
<1>1. /\ place = "inside" /\ run.at = "zoneHour" /\ run.count = 0 /\ Separated(Colon, "zoneMinute")
      /\ run.at \in DigitGroups
  BY DEF EndZoneHour, Group, At, DigitGroups
<1>2. TypeFits("zoneMinute", run.type, tokenSize + 1) /\ DateFits("zoneMinute", 2, tokenSize + 1)
  BY <1>1, DateKnown DEF TypeFits, DateFits
<1> QED
  BY <1>1, <1>2, SeparatedGood

\* Behind the minute of the time zone
LEMMA EndZoneMinuteGood == ASSUME TokenInv, EndZoneMinute PROVE IsGood
<1>1. place = "inside" /\ run.at = "zoneMinute" /\ run.count = 0 /\ run.at \in DigitGroups
  BY DEF EndZoneMinute, Group, At, DigitGroups
<1>2. tokenSize <= 37 /\ "OffsetDateTime" \in DateTypes
  BY <1>1, DateKnown DEF DateFits, DateTypes
<1> QED
  BY <1>1, <1>2, EndDateGood DEF EndZoneMinute

-------------------------------------------------------------------------------
(* The theorems                                                            *)

\* Every step of the tokenizer keeps the invariant and is one of the reader.
LEMMA NextGood == ASSUME TokenInv, TokenizerNext PROVE IsGood
  BY ReadEndGood, ReadNextCharGood, ReturnTokenGood, FinishGood, PrematureEndGood,
     ReadWhiteSpaceGood, EndWhiteSpaceGood, ReadCommentGood, EndCommentGood,
     ReadCarriageReturnGood, ReadLineFeedGood, LineFeedMissingGood,
     ReadPunctuationGood, ReadNameBracketGood, ReadBareKeyGood, BareKeyTooLongGood,
     ReadSignGood, ReadAfterSignGood, ReadWordGood, UnexpectedCharacterGood,
     ReadFirstQuoteGood, ReadSecondQuoteGood, ReadThirdQuoteGood, NoFirstNewLineGood,
     ReadContentGood, ContentRejectedGood, ReadEndQuoteGood, DetectStringEndGood,
     WriteQuoteGood, QuotesWrittenGood, ReadBackslashGood, ReadBlanksGood,
     EndBlanksGood, ReadLinesGood, ReadEscapeGood, ReadHexDigitGood,
     WriteUnicodeGood, ReadNumberLikeGood, ConsumeDigitGood, SkipUnderscoreGood,
     DigitsRejectedGood, EndIntegerGood, ReadFractionGood, EndFractionGood,
     ReadExponentSignGood, ReadExponentGood, EndExponentGood, EndPrefixedGood,
     ConsumeDecimalDigitGood, EndMonthGood, EndDayGood, EndDateSpaceGood,
     EndHourGood, EndMinuteGood, EndSecondGood, ReadSecondFractionGood,
     ReadTimeZoneGood, EndZoneHourGood, EndZoneMinuteGood
     DEF TokenizerNext

\* So does a step of something else.
LEMMA StutterGood == ASSUME TokenInv, UNCHANGED allVars PROVE TokenInv' /\ (WritesCharacters => [Next]_vars)
<1>1. UNCHANGED vars
  BY DEF allVars
<1>2. IndInv'
  BY <1>1, StepInvariant DEF TokenInv
<1>3. /\ run' \in Points /\ tokenizer' \in Members
      /\ types' \in Seq(TokenTypes) /\ Len(types') = Len(tokens')
      /\ place' = "between" => run'.at \in {"read", "created"} /\ token' = <<>> /\ startLocation' = location'
  BY DEF allVars, vars, TokenInv
<1>4. place' \in {"inside", "newLine"} =>
         /\ hasChar' <=> ~atEnd'
         /\ Fits(run'.at, run'.type, run'.count, tokenizer', Len(token'), tokenSize', Passed')
  BY DEF allVars, vars, TokenInv, atEnd, tokenSize, Passed
<1>5. AllWithinLimits'
  BY LimitsKept DEF allVars, vars
<1>6. place' = "between" /\ run'.at = "created" =>
         types' # <<>> /\ (types'[Len(types')] \in Brackets => tokenizer'.context = "Value")
  BY DEF allVars, vars, TokenInv
<1> QED
  BY <1>1, <1>2, <1>3, <1>4, <1>5, <1>6 DEF TokenInv

\* Nothing has been read of the document.
LEMMA TokenizerInitInv == TokenizerInit => TokenInv
<1> SUFFICES ASSUME TokenizerInit PROVE TokenInv
  OBVIOUS
<1>1. IndInv
  BY InitInvariant DEF TokenizerInit
<1>2. run \in Points /\ run.at = "read"
  BY DEF TokenizerInit, Points, PointNames, TokenTypes, SimpleTypes, Brackets
<1>3. tokenizer \in Members
  BY DEF TokenizerInit, Members
<1>4. types = <<>> /\ tokens = <<>> /\ place = "between" /\ token = <<>> /\ startLocation = location
  BY DEF TokenizerInit, Init
<1>5. Delivered = {}
  BY <1>4 DEF Delivered
<1> QED
  BY <1>1, <1>2, <1>3, <1>4, <1>5 DEF TokenInv, AllWithinLimits

\* The inductive invariant of the tokenizer: at each point, how much of a token was
\* passed and written, and what it can become.
THEOREM TokenizerInvariance == TokenizerSpec => []TokenInv
<1>1. TokenInv /\ [TokenizerNext]_allVars => TokenInv'
  BY NextGood, StutterGood DEF IsGood
<1> QED
  BY TokenizerInitInv, <1>1, PTL DEF TokenizerSpec

\* No token is longer than the limit of its type, for every document and every
\* limit: each loop of Tokenizer.cpp that consumes or writes counts right.
THEOREM LimitsHold == TokenizerSpec => []TokensLimited
<1>1. TokenInv => TokensLimited
  <2> SUFFICES ASSUME TokenInv, NEW i \in Delivered
               PROVE  IsWithinLimit(types[i], SizeOf(tokens[i].text),
                                    tokens[i].end.index = Len(seen) /\ streamAtEnd)
    BY DEF TokensLimited
  <2>1. IsWithinLimit(types[i], SizeOf(tokens[i].text), IsClosed(i))
    BY DEF TokenInv, AllWithinLimits
  <2>2. IsClosed(i) => tokens[i].end.index = Len(seen) /\ streamAtEnd
    BY DEF IsClosed, atEnd, streamAtEnd
  <2>3. SizeOf(tokens[i].text) \in Nat
    <3>1. tokens[i] \in Token
      BY DEF Delivered, TokenInv, IndInv, TypeOK
    <3> QED
      BY <3>1, SizeType DEF Token
  <2> DEFINE last == tokens[i].end.index = Len(seen) /\ streamAtEnd
  <2>4. last \in BOOLEAN /\ IsClosed(i) \in BOOLEAN
    BY DEF IsClosed
  <2> HIDE DEF last
  <2>5. CASE IsClosed(i)
    <3>1. last = IsClosed(i)
      BY <2>2, <2>4, <2>5 DEF last
    <3> QED
      BY <2>1, <3>1 DEF last
  <2>6. CASE ~IsClosed(i)
    <3>1. IsWithinLimit(types[i], SizeOf(tokens[i].text), FALSE)
      BY <2>1, <2>4, <2>6
    <3> QED
      BY <2>3, <2>4, <3>1, LooserAtEnd DEF last
  <2> QED
    BY <2>5, <2>6
<1> QED
  BY <1>1, TokenizerInvariance, PTL

\* The tokenizer implements the reader's open specification: all that it does to
\* the reader is allowed there, and no token is empty, no control character passed,
\* nothing written without a character passed for it.
THEOREM ImplementsReader ==
    ASSUME WritesCharacters
    PROVE  TokenizerSpec => ReaderSpec
<1>1. TokenizerInit => Init
  BY DEF TokenizerInit
<1>2. TokenInv /\ [TokenizerNext]_allVars => [Next]_vars
  BY NextGood, StutterGood DEF IsGood
<1> QED
  BY <1>1, <1>2, TokenizerInvariance, PTL DEF TokenizerSpec, ReaderSpec, Spec

\* So tokens lie one behind the other, at their locations, up to the end; this
\* needs no assumption about what is written.
THEOREM TokenizerTiles == TokenizerSpec => [](LocationFits /\ TokensTile /\ EndsAtEnd)
<1>1. TokenInv => LocationFits /\ TokensTile /\ EndsAtEnd
  BY DEF TokenInv, IndInv
<1> QED
  BY <1>1, TokenizerInvariance, PTL

\* And the tokenizer is handed the characters of the document: those it has passed
\* and the one ahead are what the units read encode, and data is rejected as
\* corrupted only where there is no character (readOrThrow).
THEOREM TokenizerDecodes ==
    ASSUME WritesCharacters
    PROVE  TokenizerSpec => [](DecodesDocument /\ ErrorsAreCorruption)
  BY ImplementsReader, CharactersOfTheDocument, RejectedWhereCorrupt, PTL DEF ReaderSpec

===============================================================================
