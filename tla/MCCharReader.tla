---------------------------- MODULE MCCharReader ----------------------------
(***************************************************************************)
(* The documents TLC reads: every sequence of a few units at the borders   *)
(* of the ranges the decoders and the reader tell apart.                   *)
(***************************************************************************)
EXTENDS CharReaderProperties

Utf8Documents(bytes, length) == [encoding : {"UTF-8"}, units : BoundedSeq(bytes, length)]
Utf16Documents(codeUnits, length) == [encoding : {"UTF-16"}, units : BoundedSeq(codeUnits, length)]

\* NUL, LF, CR, A, then the borders of the second byte and of the first.
Bytes == {0, 10, 13, 65, 128, 143, 144, 159, 160, 191,
          193, 194, 223, 224, 225, 236, 237, 238, 239, 240, 241, 243, 244, 245}

\* Four bytes, complete, and followed by one more.
FourBytes == {<<a, b, c, d>> : a \in {240, 241, 243, 244}, b \in {143, 144, 159, 191}, c \in {128, 191}, d \in {65, 128, 191}}
LongDocuments == [encoding : {"UTF-8"}, units : FourBytes \cup {Append(s, 10) : s \in FourBytes}]

\* Characters of one unit only, for more and longer tokens.
TextDocuments == Utf8Documents({0, 10, 13, 65}, 5)

CodeUnits == {0, 10, 13, 65, 55295, 55296, 56319, 56320, 57343, 57344, 65535}

AllDocuments == Utf8Documents(Bytes, 3) \cup LongDocuments \cup TextDocuments \cup Utf16Documents(CodeUnits, 3)

ThreeBytes == Utf8Documents({10, 65, 128, 159, 160, 224, 225}, 3)

=============================================================================
