--------------------------- MODULE CharReaderProofs ---------------------------
(***************************************************************************)
(* Proofs about module CharReader, for any documents.                      *)
(***************************************************************************)
EXTENDS CharReaderProperties, TLAPS, FiniteSetTheorems, SequenceTheorems, WellFoundedInduction

USE DEF Location, NUL, LF, CR

-------------------------------------------------------------------------------
\* What is decoded is a valid character, and no unit beyond the end is used.
LEMMA ValidCharacter ==
    ASSUME NEW c, NEW size \in Nat
    PROVE  /\ IfValid(c, size).char \in Nat
           /\ IfValid(c, size).size \in {0, size}
<1>1. CASE isValidUnicode(c)
  <2>1. c \in Nat
    BY <1>1 DEF isValidUnicode
  <2> QED
    BY <1>1, <2>1 DEF IfValid
<1>2. CASE ~isValidUnicode(c)
  BY <1>2 DEF IfValid, Corrupt
<1> QED
  BY <1>1, <1>2

LEMMA Utf8Sizes == ASSUME NEW first PROVE Utf8Size(first) \in 0..4
<1> DEFINE P(size) == first \in FirstByte[size]
<1> HIDE DEF P
<1>1. CASE \E size \in 1..4 : P(size)
  <2>1. (CHOOSE size \in 1..4 : P(size)) \in 1..4
    BY <1>1
  <2> QED
    BY <1>1, <2>1 DEF Utf8Size, P
<1>2. CASE ~\E size \in 1..4 : P(size)
  BY <1>2 DEF Utf8Size, P
<1> QED
  BY <1>1, <1>2

\* What a first byte announces.
LEMMA FirstBytes ==
    ASSUME NEW first
    PROVE  /\ Utf8Size(first) # 0 => first \in FirstByte[Utf8Size(first)]
           /\ \A size \in 1..4 : first \in FirstByte[size] => Utf8Size(first) = size
<1> DEFINE P(size) == first \in FirstByte[size]
<1>1. \A s, t \in 1..4 : P(s) /\ P(t) => s = t
  <2> SUFFICES ASSUME NEW s \in 1..4, NEW t \in 1..4, P(s), P(t) PROVE s = t
    OBVIOUS
  <2>1. /\ s = 1 \/ s = 2 \/ s = 3 \/ s = 4
        /\ t = 1 \/ t = 2 \/ t = 3 \/ t = 4
    OBVIOUS
  <2> QED
    BY <2>1 DEF FirstByte
<1> HIDE DEF P
<1>2. ASSUME NEW s \in 1..4, P(s) PROVE (CHOOSE size \in 1..4 : P(size)) = s
  BY <1>1, <1>2
<1>3. Utf8Size(first) = IF \E size \in 1..4 : P(size) THEN CHOOSE size \in 1..4 : P(size) ELSE 0
  BY DEF Utf8Size, P
<1>4. ASSUME NEW s \in 1..4, P(s) PROVE Utf8Size(first) = s
  BY <1>2, <1>3, <1>4
<1>5. Utf8Size(first) # 0 => P(Utf8Size(first))
  BY <1>3, <1>4
<1> QED
  BY <1>4, <1>5 DEF P

\* The bits of up to four bytes, put together.
IsBits(f, a, b, size) == f = [i \in 1..size |-> IF i = 1 THEN a ELSE AddByte(f[i - 1], b[i])]

LEMMA BitsExist == ASSUME NEW a, NEW b, NEW size \in 1..4 PROVE \E f : IsBits(f, a, b, size)
<1> DEFINE c2 == AddByte(a, b[2])
           c3 == AddByte(c2, b[3])
           c4 == AddByte(c3, b[4])
           values == <<a, c2, c3, c4>>
           w == [i \in 1..size |-> values[i]]
<1>1. \A i \in 1..size : i = 1 \/ i = 2 \/ i = 3 \/ i = 4
  OBVIOUS
<1>2. /\ values[1] = a /\ values[2] = AddByte(values[1], b[2])
      /\ values[3] = AddByte(values[2], b[3]) /\ values[4] = AddByte(values[3], b[4])
  OBVIOUS
<1> HIDE DEF values
<1>3. ASSUME NEW i \in 1..size PROVE w[i] = IF i = 1 THEN a ELSE AddByte(w[i - 1], b[i])
  <2>1. i # 1 => i - 1 \in 1..size
    OBVIOUS
  <2>2. i = 1 => values[i] = a
    BY <1>2
  <2>3. i # 1 => values[i] = AddByte(values[i - 1], b[i])
    BY <1>1, <1>2
  <2> QED
    BY <2>1, <2>2, <2>3
<1>4. w = [i \in 1..size |-> w[i]]
  OBVIOUS
<1> HIDE DEF w
<1>5. IsBits(w, a, b, size)
  BY <1>3, <1>4 DEF IsBits
<1> QED
  BY <1>5

LEMMA BitsOfBytes ==
    ASSUME NEW a, NEW b, NEW size \in 1..4, NEW f, IsBits(f, a, b, size)
    PROVE  /\ size = 1 => f[size] = a
           /\ size = 2 => f[size] = AddByte(a, b[2])
           /\ size = 3 => f[size] = AddByte(AddByte(a, b[2]), b[3])
           /\ size = 4 => f[size] = AddByte(AddByte(AddByte(a, b[2]), b[3]), b[4])
<1>1. \A i \in 1..size : f[i] = IF i = 1 THEN a ELSE AddByte(f[i - 1], b[i])
  BY DEF IsBits
<1>2. f[1] = a
  BY <1>1
<1>3. size >= 2 => f[2] = AddByte(a, b[2])
  <2>1. size >= 2 => 2 \in 1..size /\ 2 # 1 /\ 2 - 1 = 1
    OBVIOUS
  <2> QED
    BY <1>1, <1>2, <2>1
<1>4. size >= 3 => f[3] = AddByte(AddByte(a, b[2]), b[3])
  <2>1. size >= 3 => 3 \in 1..size /\ 3 # 1 /\ 3 - 1 = 2 /\ size >= 2
    OBVIOUS
  <2> QED
    BY <1>1, <1>3, <2>1
<1>5. size >= 4 => f[4] = AddByte(AddByte(AddByte(a, b[2]), b[3]), b[4])
  <2>1. size >= 4 => 4 \in 1..size /\ 4 # 1 /\ 4 - 1 = 3 /\ size >= 3
    OBVIOUS
  <2> QED
    BY <1>1, <1>4, <2>1
<1> QED
  BY <1>2, <1>3, <1>4, <1>5

\* The bits of the character of so many bytes after the first n.
Utf8Bits(units, n, size) ==
    LET a == FirstBits(units[n + 1], size)
    IN  CASE size = 1 -> a
          [] size = 2 -> AddByte(a, units[n + 2])
          [] size = 3 -> AddByte(AddByte(a, units[n + 2]), units[n + 3])
          [] OTHER -> AddByte(AddByte(AddByte(a, units[n + 2]), units[n + 3]), units[n + 4])

\* There are the bytes for a character of this size.
Utf8At(units, n, size) ==
    /\ n + size <= Len(units)
    /\ units[n + 1] \in FirstByte[size]
    /\ \A i \in 2..size : units[n + i] \in 128..191

LEMMA ReadsUtf8 ==
    ASSUME NEW units, NEW n
    PROVE  /\ \A size \in 1..4 :
                 Utf8At(units, n, size) => ReadUtf8(units, n) = IfValid(Utf8Bits(units, n, size), size)
           /\ ReadUtf8(units, n) # Corrupt => \E size \in 1..4 : Utf8At(units, n, size)
<1> DEFINE first == units[n + 1]
           size == Utf8Size(first)
           a == FirstBits(first, size)
           b == [i \in 1..4 |-> units[n + i]]
           IsBits0(f) == f = [i \in 1..size |-> IF i = 1 THEN a ELSE AddByte(f[i - 1], units[n + i])]
           bits == CHOOSE f : IsBits0(f)
           valid == /\ size # 0 /\ n + size <= Len(units)
                    /\ \A i \in 2..size : units[n + i] \in 128..191
<1>1. ReadUtf8(units, n) = IF valid THEN IfValid(bits[size], size) ELSE Corrupt
  BY DEF ReadUtf8
<1>2. size \in 0..4
  BY Utf8Sizes
<1>3. size # 0 => first \in FirstByte[size]
  BY FirstBytes
<1>4. \A s \in 1..4 : first \in FirstByte[s] => s = size
  BY FirstBytes
<1>5. size # 0 => bits[size] = Utf8Bits(units, n, size)
  <2> SUFFICES ASSUME size # 0 PROVE bits[size] = Utf8Bits(units, n, size)
    OBVIOUS
  <2>1. size \in 1..4
    BY <1>2
  <2> HIDE DEF size, first, a
  <2>2. \A i \in 1..size : b[i] = units[n + i]
    BY <2>1
  <2> HIDE DEF b
  <2>3. PICK f : IsBits(f, a, b, size)
    BY <2>1, BitsExist
  <2>4. IsBits0(f)
    BY <2>2, <2>3 DEF IsBits
  <2>5. IsBits0(bits)
    BY <2>4
  <2> HIDE DEF bits
  <2>6. IsBits(bits, a, b, size)
    BY <2>2, <2>5 DEF IsBits
  <2>7. /\ size = 1 => bits[size] = a
        /\ size = 2 => bits[size] = AddByte(a, b[2])
        /\ size = 3 => bits[size] = AddByte(AddByte(a, b[2]), b[3])
        /\ size = 4 => bits[size] = AddByte(AddByte(AddByte(a, b[2]), b[3]), b[4])
    BY <2>1, <2>6, BitsOfBytes
  <2>8. Utf8Bits(units, n, size)
        = CASE size = 1 -> a
            [] size = 2 -> AddByte(a, units[n + 2])
            [] size = 3 -> AddByte(AddByte(a, units[n + 2]), units[n + 3])
            [] OTHER -> AddByte(AddByte(AddByte(a, units[n + 2]), units[n + 3]), units[n + 4])
    BY DEF Utf8Bits, a, first
  <2>9. b[2] = units[n + 2] /\ b[3] = units[n + 3] /\ b[4] = units[n + 4]
    BY DEF b
  <2> QED
    BY <2>1, <2>7, <2>8, <2>9
<1> HIDE DEF size, bits
<1>6. ASSUME NEW s \in 1..4, Utf8At(units, n, s)
      PROVE  ReadUtf8(units, n) = IfValid(Utf8Bits(units, n, s), s)
  <2>1. s = size
    BY <1>4, <1>6 DEF Utf8At
  <2> QED
    BY <1>1, <1>5, <1>6, <2>1 DEF Utf8At
<1>7. ASSUME ReadUtf8(units, n) # Corrupt PROVE \E s \in 1..4 : Utf8At(units, n, s)
  <2>1. valid
    BY <1>1, <1>7
  <2>2. size \in 1..4
    BY <1>2, <2>1
  <2> QED
    BY <1>3, <2>1, <2>2 DEF Utf8At
<1> QED
  BY <1>6, <1>7

LEMMA DecodedUtf8 ==
    ASSUME NEW units \in Seq(Nat), NEW n \in Nat, n < Len(units)
    PROVE  /\ ReadUtf8(units, n).char \in Nat
           /\ ReadUtf8(units, n).size \in Nat
           /\ n + ReadUtf8(units, n).size <= Len(units)
<1>1. CASE ReadUtf8(units, n) = Corrupt
  BY <1>1 DEF Corrupt
<1>2. CASE ReadUtf8(units, n) # Corrupt
  <2>1. PICK size \in 1..4 :
            /\ n + size <= Len(units)
            /\ ReadUtf8(units, n) = IfValid(Utf8Bits(units, n, size), size)
    BY <1>2, ReadsUtf8 DEF Utf8At
  <2> QED
    BY <2>1, ValidCharacter
<1> QED
  BY <1>1, <1>2

LEMMA DecodedUtf16 ==
    ASSUME NEW units \in Seq(Nat), NEW n \in Nat, n < Len(units)
    PROVE  /\ ReadUtf16(units, n).char \in Nat
           /\ ReadUtf16(units, n).size \in Nat
           /\ n + ReadUtf16(units, n).size <= Len(units)
<1> DEFINE pair == surrogateToUcs4(units[n + 1], units[n + 2])
<1> HIDE DEF pair
<1>1. \/ ReadUtf16(units, n) = IfValid(units[n + 1], 1)
      \/ ReadUtf16(units, n) = Corrupt
      \/ n + 2 <= Len(units) /\ ReadUtf16(units, n) = IfValid(pair, 2)
  BY DEF ReadUtf16, pair
<1> QED
  BY <1>1, ValidCharacter DEF Corrupt

\* Bits and bytes: six more bits.
Extends(z, x, y) ==
    /\ z \in Nat
    /\ z \div 64 = x /\ z % 64 = y
    /\ z \div 4096 = x \div 64
    /\ z \div 262144 = x \div 4096

LEMMA SixBits ==
    ASSUME NEW x \in Nat, NEW y \in Nat, y < 64, NEW z, z = x * 64 + y
    PROVE  Extends(z, x, y)
<1>1. z \in Nat /\ z \div 64 = x /\ z % 64 = y
  BY SMT
<1>2. z \div 4096 = x \div 64
  BY SMT
<1>3. z \div 262144 = x \div 4096
  BY SMT
<1> QED
  BY ONLY <1>1, <1>2, <1>3, SMT DEF Extends

\* Bytes by their bounds.
Follows(byte) == byte \in Nat /\ 128 <= byte /\ byte <= 191

LEMMA FirstByteBounds ==
    ASSUME NEW size \in 1..4, NEW byte \in Nat
    PROVE  byte \in FirstByte[size] <=>
             \/ size = 1 /\ byte <= 127
             \/ size = 2 /\ 194 <= byte /\ byte <= 223
             \/ size = 3 /\ 224 <= byte /\ byte <= 239
             \/ size = 4 /\ 240 <= byte /\ byte <= 244
<1>1. /\ FirstByte[1] = 0..127 /\ FirstByte[2] = 194..223
      /\ FirstByte[3] = 224..239 /\ FirstByte[4] = 240..244
  BY DEF FirstByte
<1>2. CASE size = 1
  BY <1>1, <1>2
<1>3. CASE size = 2
  BY <1>1, <1>3
<1>4. CASE size = 3
  BY <1>1, <1>4
<1>5. CASE size = 4
  BY <1>1, <1>5
<1> QED
  BY <1>2, <1>3, <1>4, <1>5

LEMMA FollowingBytes == ASSUME NEW byte \in Nat PROVE byte \in 128..191 <=> Follows(byte)
  BY DEF Follows

LEMMA NotOverlong ==
    ASSUME NEW b1 \in Nat, NEW b2 \in Nat, Follows(b2), ~IsOverlong(b1, b2)
    PROVE  (b1 = 224 => b2 >= 160) /\ (b1 = 240 => b2 >= 144)
  BY DEF IsOverlong, Follows

LEMMA AddedByte ==
    ASSUME NEW x \in Nat, NEW byte, Follows(byte)
    PROVE  AddByte(x, byte) = x * 64 + (byte - 128) /\ AddByte(x, byte) \in Nat
<1>1. byte % 64 = byte - 128
  BY DEF Follows
<1> QED
  BY <1>1 DEF AddByte, Follows

\* Characters of two, three and four bytes: their value, and what they are encoded as.
LEMMA TwoByteCharacter ==
    ASSUME NEW b1 \in Nat, 194 <= b1, b1 <= 223, NEW b2, Follows(b2),
           NEW c, c = AddByte(FirstBits(b1, 2), b2)
    PROVE  c \in Nat /\ c >= 128 /\ c < 2048 /\ Utf8(c) = <<b1, b2>>
<1>1. FirstBits(b1, 2) = b1 - 192
  BY DEF FirstBits
<1>2. c = (b1 - 192) * 64 + (b2 - 128)
  BY <1>1, AddedByte
<1>3. c \in Nat /\ 128 <= c /\ c < 2048 /\ c \div 64 = b1 - 192 /\ c % 64 = b2 - 128
  BY <1>2 DEF Follows
<1>4. Utf8(c) = <<192 + (c \div 64), 128 + (c % 64)>>
  BY ONLY <1>3, SMT DEF Utf8
<1>5. 192 + (c \div 64) = b1 /\ 128 + (c % 64) = b2
  BY <1>3 DEF Follows
<1> QED
  BY <1>3, <1>4, <1>5

LEMMA ThreeByteCharacter ==
    ASSUME NEW b1 \in Nat, 224 <= b1, b1 <= 239,
           NEW b2, Follows(b2), NEW b3, Follows(b3),
           NEW c, c = AddByte(AddByte(FirstBits(b1, 3), b2), b3)
    PROVE  /\ c = (b1 - 224) * 4096 + (b2 - 128) * 64 + (b3 - 128)
           /\ ~IsOverlong(b1, b2) => Utf8(c) = <<b1, b2, b3>>
<1> DEFINE d == AddByte(FirstBits(b1, 3), b2)
<1>1. FirstBits(b1, 3) = b1 - 224
  BY DEF FirstBits
<1>2. d = (b1 - 224) * 64 + (b2 - 128) /\ d \in Nat
  BY <1>1, AddedByte
<1>3. c = AddByte(d, b3)
  OBVIOUS
<1> HIDE DEF d
<1>4. c = d * 64 + (b3 - 128)
  BY <1>2, <1>3, AddedByte
<1>5. c = (b1 - 224) * 4096 + (b2 - 128) * 64 + (b3 - 128)
  BY <1>2, <1>4 DEF Follows
<1>6. SUFFICES ASSUME ~IsOverlong(b1, b2) PROVE Utf8(c) = <<b1, b2, b3>>
  BY <1>5
<1>7. b2 \in Nat /\ (b1 = 224 => b2 >= 160)
  BY <1>6, NotOverlong DEF Follows
<1>8. 32 <= d /\ d < 1024 /\ d \div 64 = b1 - 224 /\ d % 64 = b2 - 128
  BY <1>2, <1>7 DEF Follows
<1>9. b3 - 128 \in Nat /\ b3 - 128 < 64 /\ b3 \in Nat
  BY DEF Follows
<1>10. c \in Nat /\ c \div 64 = d /\ c % 64 = b3 - 128 /\ c \div 4096 = d \div 64
  <2>1. Extends(c, d, b3 - 128)
    BY <1>2, <1>4, <1>9, SixBits
  <2> QED
    BY ONLY <2>1, SMT DEF Extends
<1>11. 2048 <= c /\ c < 65536
  BY ONLY <1>2, <1>4, <1>8, <1>9, SMT
<1>12. Utf8(c) = <<224 + (c \div 4096), 128 + ((c \div 64) % 64), 128 + (c % 64)>>
  BY ONLY <1>10, <1>11, SMT DEF Utf8
<1>13. 224 + (c \div 4096) = b1 /\ 128 + ((c \div 64) % 64) = b2 /\ 128 + (c % 64) = b3
  BY <1>7, <1>8, <1>9, <1>10
<1> QED
  BY <1>12, <1>13

LEMMA FourByteCharacter ==
    ASSUME NEW b1 \in Nat, 240 <= b1, b1 <= 244,
           NEW b2, Follows(b2), NEW b3, Follows(b3), NEW b4, Follows(b4),
           NEW c, c = AddByte(AddByte(AddByte(FirstBits(b1, 4), b2), b3), b4)
    PROVE  /\ c = (b1 - 240) * 262144 + (b2 - 128) * 4096 + (b3 - 128) * 64 + (b4 - 128)
           /\ ~IsOverlong(b1, b2) => Utf8(c) = <<b1, b2, b3, b4>>
<1> DEFINE d == AddByte(FirstBits(b1, 4), b2)
           e == AddByte(d, b3)
<1>1. FirstBits(b1, 4) = b1 - 240
  BY DEF FirstBits
<1>2. d = (b1 - 240) * 64 + (b2 - 128) /\ d \in Nat
  BY <1>1, AddedByte
<1>3. c = AddByte(e, b4)
  OBVIOUS
<1> HIDE DEF d
<1>4. e = d * 64 + (b3 - 128) /\ e \in Nat
  BY <1>2, AddedByte
<1> HIDE DEF e
<1>5. c = e * 64 + (b4 - 128)
  BY <1>3, <1>4, AddedByte
<1>6. c = (b1 - 240) * 262144 + (b2 - 128) * 4096 + (b3 - 128) * 64 + (b4 - 128)
  BY <1>2, <1>4, <1>5 DEF Follows
<1>7. SUFFICES ASSUME ~IsOverlong(b1, b2) PROVE Utf8(c) = <<b1, b2, b3, b4>>
  BY <1>6
<1>8. b2 \in Nat /\ (b1 = 240 => b2 >= 144)
  BY <1>7, NotOverlong DEF Follows
<1>9. 16 <= d /\ d \div 64 = b1 - 240 /\ d % 64 = b2 - 128
  BY <1>2, <1>8 DEF Follows
<1>10. /\ b3 - 128 \in Nat /\ b3 - 128 < 64 /\ b3 \in Nat
       /\ b4 - 128 \in Nat /\ b4 - 128 < 64 /\ b4 \in Nat
  BY DEF Follows
<1>11. e \div 64 = d /\ e % 64 = b3 - 128 /\ e \div 4096 = d \div 64
  <2>1. Extends(e, d, b3 - 128)
    BY <1>2, <1>4, <1>10, SixBits
  <2> QED
    BY ONLY <2>1, SMT DEF Extends
<1>12. 1024 <= e
  BY ONLY <1>2, <1>4, <1>9, <1>10, SMT
<1>13. /\ c \in Nat /\ c \div 64 = e /\ c % 64 = b4 - 128
       /\ c \div 4096 = e \div 64 /\ c \div 262144 = e \div 4096
  <2> DEFINE y == b4 - 128
  <2>1. y \in Nat /\ y < 64 /\ c = e * 64 + y
    BY ONLY <1>5, <1>10
  <2> HIDE DEF y
  <2>2. e \in Nat
    BY <1>4
  <2>3. Extends(c, e, y)
    BY ONLY <2>1, <2>2, SixBits
  <2> QED
    BY ONLY <2>3, SMT DEF Extends, y
<1>14. c >= 65536
  BY ONLY <1>4, <1>5, <1>10, <1>12, SMT
<1>15. Utf8(c) = <<240 + (c \div 262144), 128 + ((c \div 4096) % 64),
                   128 + ((c \div 64) % 64), 128 + (c % 64)>>
  BY ONLY <1>13, <1>14, SMT DEF Utf8
<1>16. 240 + (c \div 262144) = b1
  BY <1>9, <1>11, <1>13
<1>17. 128 + ((c \div 4096) % 64) = b2
  BY <1>8, <1>9, <1>11, <1>13
<1>18. 128 + ((c \div 64) % 64) = b3 /\ 128 + (c % 64) = b4
  BY <1>10, <1>11, <1>13
<1> QED
  BY <1>15, <1>16, <1>17, <1>18

LEMMA OneByteCharacter ==
    ASSUME NEW b1 \in Nat, b1 <= 127, NEW c, c = FirstBits(b1, 1)
    PROVE  c = b1 /\ Utf8(c) = <<b1>>
<1>1. c = b1
  BY DEF FirstBits
<1> QED
  BY <1>1 DEF Utf8

\* The bytes of a character.
LEMMA BytesAt ==
    ASSUME NEW units \in Seq(Nat), NEW n \in Nat, NEW size \in 1..4, Utf8At(units, n, size),
           NEW c, c = Utf8Bits(units, n, size)
    PROVE  /\ units[n + 1] \in Nat
           /\ size = 1 => units[n + 1] <= 127 /\ c = FirstBits(units[n + 1], 1)
           /\ size = 2 => /\ 194 <= units[n + 1] /\ units[n + 1] <= 223 /\ Follows(units[n + 2])
                          /\ c = AddByte(FirstBits(units[n + 1], 2), units[n + 2])
           /\ size = 3 => /\ 224 <= units[n + 1] /\ units[n + 1] <= 239
                          /\ Follows(units[n + 2]) /\ Follows(units[n + 3])
                          /\ c = AddByte(AddByte(FirstBits(units[n + 1], 3), units[n + 2]), units[n + 3])
           /\ size = 4 => /\ 240 <= units[n + 1] /\ units[n + 1] <= 244
                          /\ Follows(units[n + 2]) /\ Follows(units[n + 3]) /\ Follows(units[n + 4])
                          /\ c = AddByte(AddByte(AddByte(FirstBits(units[n + 1], 4), units[n + 2]),
                                                 units[n + 3]), units[n + 4])
<1> DEFINE b1 == units[n + 1]
<1>1. b1 \in FirstByte[size] /\ \A i \in 2..size : units[n + i] \in 128..191
  BY DEF Utf8At
<1>2. \A i \in 1..size : units[n + i] \in Nat
  <2>1. n + size <= Len(units)
    BY DEF Utf8At
  <2>2. \A i \in 1..size : n + i \in 1..Len(units)
    BY <2>1
  <2> QED
    BY <2>2
<1>3. \A i \in 2..size : Follows(units[n + i])
  <2>1. \A i \in 2..size : i \in 1..size
    OBVIOUS
  <2> QED
    BY <1>1, <1>2, <2>1, FollowingBytes
<1>4. 1 \in 1..size
  OBVIOUS
<1>5. b1 \in Nat
  BY <1>2, <1>4
<1> HIDE DEF b1
<1>6. /\ size = 1 => b1 <= 127
      /\ size = 2 => 194 <= b1 /\ b1 <= 223
      /\ size = 3 => 224 <= b1 /\ b1 <= 239
      /\ size = 4 => 240 <= b1 /\ b1 <= 244
  BY ONLY <1>1, <1>5, size \in 1..4, FirstByteBounds
<1>7. /\ size >= 2 => Follows(units[n + 2])
      /\ size >= 3 => Follows(units[n + 3])
      /\ size >= 4 => Follows(units[n + 4])
  <2>1. /\ size >= 2 => 2 \in 2..size
        /\ size >= 3 => 3 \in 2..size
        /\ size >= 4 => 4 \in 2..size
    OBVIOUS
  <2> QED
    BY <1>3, <2>1
<1>8. /\ size = 1 => c = FirstBits(b1, 1)
      /\ size = 2 => c = AddByte(FirstBits(b1, 2), units[n + 2])
      /\ size = 3 => c = AddByte(AddByte(FirstBits(b1, 3), units[n + 2]), units[n + 3])
      /\ size = 4 => c = AddByte(AddByte(AddByte(FirstBits(b1, 4), units[n + 2]),
                                         units[n + 3]), units[n + 4])
  BY DEF Utf8Bits, b1
<1> QED
  BY <1>5, <1>6, <1>7, <1>8 DEF b1

\* What strict bytes decode to, encoded again.
LEMMA Utf8RoundTrip ==
    ASSUME NEW units \in Seq(Nat), NEW n \in Nat, NEW size \in 1..4, Utf8At(units, n, size),
           size # 1 => ~IsOverlong(units[n + 1], units[n + 2])
    PROVE  Utf8(Utf8Bits(units, n, size)) = [i \in 1..size |-> units[n + i]]
<1> DEFINE c == Utf8Bits(units, n, size)
           b1 == units[n + 1]
           b2 == units[n + 2]
           b3 == units[n + 3]
           b4 == units[n + 4]
<1>1. /\ [i \in 1..1 |-> units[n + i]] = <<b1>>
      /\ [i \in 1..2 |-> units[n + i]] = <<b1, b2>>
      /\ [i \in 1..3 |-> units[n + i]] = <<b1, b2, b3>>
      /\ [i \in 1..4 |-> units[n + i]] = <<b1, b2, b3, b4>>
  OBVIOUS
<1> HIDE DEF c
<1>2. /\ b1 \in Nat
      /\ size = 1 => b1 <= 127 /\ c = FirstBits(b1, 1)
      /\ size = 2 => /\ 194 <= b1 /\ b1 <= 223 /\ Follows(b2)
                     /\ c = AddByte(FirstBits(b1, 2), b2)
      /\ size = 3 => /\ 224 <= b1 /\ b1 <= 239 /\ Follows(b2) /\ Follows(b3)
                     /\ c = AddByte(AddByte(FirstBits(b1, 3), b2), b3)
      /\ size = 4 => /\ 240 <= b1 /\ b1 <= 244 /\ Follows(b2) /\ Follows(b3) /\ Follows(b4)
                     /\ c = AddByte(AddByte(AddByte(FirstBits(b1, 4), b2), b3), b4)
  BY BytesAt DEF c
<1>3. size # 1 => ~IsOverlong(b1, b2)
  OBVIOUS
<1> HIDE DEF b1, b2, b3, b4
<1>4. CASE size = 1
  <2>1. Utf8(c) = <<b1>>
    BY ONLY <1>2, <1>4, OneByteCharacter
  <2> QED
    BY ONLY <1>1, <1>4, <2>1 DEF c
<1>5. CASE size = 2
  <2>1. Utf8(c) = <<b1, b2>>
    BY ONLY <1>2, <1>5, TwoByteCharacter
  <2> QED
    BY ONLY <1>1, <1>5, <2>1 DEF c
<1>6. CASE size = 3
  <2>1. Utf8(c) = <<b1, b2, b3>>
    BY ONLY <1>2, <1>3, <1>6, ThreeByteCharacter
  <2> QED
    BY ONLY <1>1, <1>6, <2>1 DEF c
<1>7. CASE size = 4
  <2>1. Utf8(c) = <<b1, b2, b3, b4>>
    BY ONLY <1>2, <1>3, <1>7, FourByteCharacter
  <2> QED
    BY ONLY <1>1, <1>7, <2>1 DEF c
<1> QED
  BY <1>4, <1>5, <1>6, <1>7

\* The units of a form are those of its sets.
LEMMA OneUnit ==
    ASSUME NEW s, NEW A, NEW form, form = <<A>>, \A i \in DOMAIN form : s[i] \in form[i]
    PROVE  Len(form) = 1 /\ s[1] \in A
  OBVIOUS

LEMMA TwoUnits ==
    ASSUME NEW s, NEW A, NEW B, NEW form, form = <<A, B>>,
           \A i \in DOMAIN form : s[i] \in form[i]
    PROVE  Len(form) = 2 /\ s[1] \in A /\ s[2] \in B
  OBVIOUS

LEMMA ThreeUnits ==
    ASSUME NEW s, NEW A, NEW B, NEW C, NEW form, form = <<A, B, C>>,
           \A i \in DOMAIN form : s[i] \in form[i]
    PROVE  Len(form) = 3 /\ s[1] \in A /\ s[2] \in B /\ s[3] \in C
  OBVIOUS

LEMMA FourUnits ==
    ASSUME NEW s, NEW A, NEW B, NEW C, NEW D, NEW form, form = <<A, B, C, D>>,
           \A i \in DOMAIN form : s[i] \in form[i]
    PROVE  Len(form) = 4 /\ s[1] \in A /\ s[2] \in B /\ s[3] \in C /\ s[4] \in D
  OBVIOUS

\* The characters that are no surrogates.
LEMMA NoSurrogate ==
    ASSUME NEW c \in Nat, c < 1114112, c < 55296 \/ c >= 57344
    PROVE  isValidUnicode(c)
<1>1. /\ LastCharacter \in Nat /\ LastCharacter >= 1114111
      /\ FirstSurrogate \in Nat /\ FirstSurrogate >= 55296
      /\ LastSurrogate \in Nat /\ LastSurrogate <= 57343
  BY SMT DEF LastCharacter, FirstSurrogate, LastSurrogate
<1>2. c \in 0..LastCharacter
  BY <1>1, SMT
<1>3. c \notin Surrogate
  BY <1>1, SMT DEF Surrogate
<1> QED
  BY <1>2, <1>3 DEF isValidUnicode

\* The bytes of a form, by their bounds.
FitsForm(s, size) ==
    \/ size = 1 /\ s[1] <= 127
    \/ size = 2 /\ 194 <= s[1] /\ s[1] <= 223 /\ Follows(s[2])
    \/ /\ size = 3 /\ 224 <= s[1] /\ s[1] <= 239 /\ Follows(s[2]) /\ Follows(s[3])
       /\ (s[1] = 237 => s[2] < 160)
    \/ /\ size = 4 /\ 240 <= s[1] /\ s[1] <= 244
       /\ Follows(s[2]) /\ Follows(s[3]) /\ Follows(s[4])
       /\ (s[1] = 244 => s[2] < 144) /\ (s[1] = 240 => s[2] >= 144)

LEMMA FormOfBytes ==
    ASSUME NEW s, NEW form \in Forms("UTF-8"), \A i \in DOMAIN form : s[i] \in form[i],
           \A i \in DOMAIN form : s[i] \in Nat
    PROVE  FitsForm(s, Len(form))
<1> USE DEF FitsForm
<1>1. CASE form = <<0..127>>
  BY <1>1, OneUnit
<1>2. CASE form = <<194..223, Other>>
  <2>1. Len(form) = 2 /\ s[1] \in 194..223 /\ s[2] \in Other
    BY <1>2, TwoUnits
  <2> QED
    BY ONLY <2>1, SMT DEF Other, Follows
<1>3. CASE \/ form = <<224..224, 160..191, Other>> \/ form = <<225..236, Other, Other>>
           \/ form = <<237..237, 128..159, Other>> \/ form = <<238..239, Other, Other>>
  <2>1. \/ Len(form) = 3 /\ s[1] \in 224..224 /\ s[2] \in 160..191 /\ s[3] \in Other
        \/ Len(form) = 3 /\ s[1] \in 225..236 /\ s[2] \in Other /\ s[3] \in Other
        \/ Len(form) = 3 /\ s[1] \in 237..237 /\ s[2] \in 128..159 /\ s[3] \in Other
        \/ Len(form) = 3 /\ s[1] \in 238..239 /\ s[2] \in Other /\ s[3] \in Other
    BY <1>3, ThreeUnits
  <2> QED
    BY ONLY <2>1, SMT DEF Other, Follows
<1>4. CASE \/ form = <<240..240, 144..191, Other, Other>>
           \/ form = <<241..243, Other, Other, Other>>
           \/ form = <<244..244, 128..143, Other, Other>>
  <2>1. \/ Len(form) = 4 /\ s[1] \in 240..240 /\ s[2] \in 144..191 /\ s[3] \in Other /\ s[4] \in Other
        \/ Len(form) = 4 /\ s[1] \in 241..243 /\ s[2] \in Other /\ s[3] \in Other /\ s[4] \in Other
        \/ Len(form) = 4 /\ s[1] \in 244..244 /\ s[2] \in 128..143 /\ s[3] \in Other /\ s[4] \in Other
    BY <1>4, FourUnits
  <2> QED
    BY ONLY <2>1, SMT DEF Other, Follows
<1> QED
  BY ONLY form \in Forms("UTF-8"), <1>1, <1>2, <1>3, <1>4, Zenon DEF Forms

\* Bytes of the forms of RFC 3629 are decoded.
LEMMA WellFormedUtf8 ==
    ASSUME NEW units \in Seq(Nat), NEW n \in Nat, NEW size \in 1..4, n + size <= Len(units),
           IsWellFormed("UTF-8", SubSeq(units, n + 1, n + size))
    PROVE  ReadUtf8(units, n) # Corrupt
<1> DEFINE c == Utf8Bits(units, n, size)
           s == SubSeq(units, n + 1, n + size)
           b1 == units[n + 1]
           b2 == units[n + 2]
           b3 == units[n + 3]
           b4 == units[n + 4]
<1>1. Len(s) = size /\ \A i \in 1..size : s[i] = units[n + i] /\ s[i] \in Nat
  OBVIOUS
<1> HIDE DEF s
<1>2. PICK form \in Forms("UTF-8") : Len(form) = Len(s) /\ \A i \in DOMAIN form : s[i] \in form[i]
  BY DEF IsWellFormed, s
<1>3. Len(form) = size /\ \A i \in DOMAIN form : s[i] \in Nat
  <2>1. DOMAIN form = 1..Len(form)
    BY SMT DEF Forms
  <2> QED
    BY <1>1, <1>2, <2>1
<1> HIDE DEF c, b1, b2, b3, b4
<1>4. FitsForm(s, size)
  <2>1. FitsForm(s, Len(form))
    BY ONLY form \in Forms("UTF-8"), <1>2, <1>3, FormOfBytes
  <2> QED
    BY <1>3, <2>1
<1>5. /\ s[1] = b1 /\ b1 \in Nat
      /\ size >= 2 => s[2] = b2
      /\ size >= 3 => s[3] = b3
      /\ size >= 4 => s[4] = b4
  <2>1. /\ 1 \in 1..size
        /\ size >= 2 => 2 \in 1..size
        /\ size >= 3 => 3 \in 1..size
        /\ size >= 4 => 4 \in 1..size
    OBVIOUS
  <2> QED
    BY ONLY <1>1, <2>1, SMT DEF b1, b2, b3, b4
<1>6. b1 \in FirstByte[size]
  <2>1. \/ size = 1 /\ b1 <= 127
        \/ size = 2 /\ 194 <= b1 /\ b1 <= 223
        \/ size = 3 /\ 224 <= b1 /\ b1 <= 239
        \/ size = 4 /\ 240 <= b1 /\ b1 <= 244
    BY ONLY <1>4, <1>5 DEF FitsForm
  <2> QED
    BY ONLY <1>5, <2>1, size \in 1..4, FirstByteBounds
<1>7. \A i \in 2..size : units[n + i] \in 128..191
  <2> SUFFICES ASSUME NEW i \in 2..size PROVE units[n + i] \in 128..191
    OBVIOUS
  <2>1. i \in 1..size /\ (i = 2 \/ i = 3 \/ i = 4)
    OBVIOUS
  <2>2. Follows(s[i])
    BY <1>4, <2>1 DEF FitsForm
  <2> QED
    BY <1>1, <2>1, <2>2, FollowingBytes
<1>8. Utf8At(units, n, size)
  BY <1>6, <1>7 DEF Utf8At, b1
<1>9. /\ size = 1 => c = FirstBits(b1, 1)
      /\ size = 2 => c = AddByte(FirstBits(b1, 2), b2)
      /\ size = 3 => c = AddByte(AddByte(FirstBits(b1, 3), b2), b3)
      /\ size = 4 => c = AddByte(AddByte(AddByte(FirstBits(b1, 4), b2), b3), b4)
  BY <1>8, BytesAt DEF c, b1, b2, b3, b4
<1>10. c \in Nat /\ c < 1114112 /\ (c < 55296 \/ c >= 57344)
  <2>1. CASE size = 1
    <3>1. b1 <= 127
      BY <1>4, <1>5, <2>1 DEF FitsForm
    <3>2. c = b1
      BY <1>5, <1>9, <2>1, <3>1, OneByteCharacter
    <3> QED
      BY ONLY <1>5, <3>1, <3>2, SMT
  <2>2. CASE size = 2
    <3>1. 194 <= b1 /\ b1 <= 223 /\ Follows(b2)
      BY <1>4, <1>5, <2>2 DEF FitsForm
    <3>2. c \in Nat /\ c < 2048
      BY <1>5, <1>9, <2>2, <3>1, TwoByteCharacter
    <3> QED
      BY ONLY <3>2, SMT
  <2>3. CASE size = 3
    <3>1. /\ 224 <= b1 /\ b1 <= 239 /\ Follows(b2) /\ Follows(b3)
          /\ b1 = 237 => b2 < 160
      BY <1>4, <1>5, <2>3 DEF FitsForm
    <3>2. c = (b1 - 224) * 4096 + (b2 - 128) * 64 + (b3 - 128)
      BY <1>5, <1>9, <2>3, <3>1, ThreeByteCharacter
    <3> QED
      BY ONLY <1>5, <3>1, <3>2, SMT DEF Follows
  <2>4. CASE size = 4
    <3>1. /\ 240 <= b1 /\ b1 <= 244 /\ Follows(b2) /\ Follows(b3) /\ Follows(b4)
          /\ b1 = 244 => b2 < 144
          /\ b1 = 240 => b2 >= 144
      BY <1>4, <1>5, <2>4 DEF FitsForm
    <3>2. c = (b1 - 240) * 262144 + (b2 - 128) * 4096 + (b3 - 128) * 64 + (b4 - 128)
      BY <1>5, <1>9, <2>4, <3>1, FourByteCharacter
    <3> QED
      BY ONLY <1>5, <3>1, <3>2, SMT DEF Follows
  <2> QED
    BY <2>1, <2>2, <2>3, <2>4
<1>11. isValidUnicode(c)
  BY <1>10, NoSurrogate
<1>12. ReadUtf8(units, n) = [char |-> c, size |-> size]
  BY <1>8, <1>11, ReadsUtf8 DEF c, IfValid
<1>13. [char |-> c, size |-> size].size = size /\ Corrupt.size = 0
  BY DEF Corrupt
<1> QED
  BY <1>12, <1>13

\* A surrogate pair and its character.
LEMMA SurrogatePair ==
    ASSUME NEW u1 \in HighSurrogate, NEW u2 \in LowSurrogate,
           NEW c, c = surrogateToUcs4(u1, u2)
    PROVE  /\ c \in Nat /\ c >= 65536 /\ c < 1114112
           /\ Utf16(c) = <<u1, u2>>
           /\ u2 \notin HighSurrogate
<1>1. FirstSurrogate = 55296 /\ LastHighSurrogate = 56319 /\ LastSurrogate = 57343
  BY DEF FirstSurrogate, LastHighSurrogate, LastSurrogate
<1>2. u1 \in Nat /\ 55296 <= u1 /\ u1 <= 56319
  BY <1>1 DEF HighSurrogate
<1>3. u2 \in Nat /\ 56320 <= u2 /\ u2 <= 57343 /\ u2 \notin HighSurrogate
  BY <1>1 DEF LowSurrogate, HighSurrogate
<1>4. c = (u1 - 55296) * 1024 + (u2 - 56320) + 65536
  BY <1>2, <1>3, SMT DEF surrogateToUcs4
<1>5. /\ c \in Nat /\ c >= 65536 /\ c < 1114112
      /\ (c - 65536) \div 1024 = u1 - 55296 /\ (c - 65536) % 1024 = u2 - 56320
  BY ONLY <1>2, <1>3, <1>4, SMT
<1>6. Utf16(c) = <<55296 + ((c - 65536) \div 1024), 56320 + ((c - 65536) % 1024)>>
  BY ONLY <1>5, SMT DEF Utf16
<1>7. 55296 + ((c - 65536) \div 1024) = u1 /\ 56320 + ((c - 65536) % 1024) = u2
  BY ONLY <1>2, <1>3, <1>5, SMT
<1> QED
  BY <1>3, <1>5, <1>6, <1>7

LEMMA Utf16RoundTrip ==
    ASSUME NEW units \in Seq(CodeUnit), NEW n \in Nat, n < Len(units),
           ReadUtf16(units, n) # Corrupt,
           n + 2 <= Len(units) => ~IsUnpaired(units[n + 1], units[n + 2])
    PROVE  /\ ReadUtf16(units, n).size \in 1..2 /\ n + ReadUtf16(units, n).size <= Len(units)
           /\ Utf16(ReadUtf16(units, n).char) = [i \in 1..ReadUtf16(units, n).size |-> units[n + i]]
<1> DEFINE u1 == units[n + 1]
           u2 == units[n + 2]
           c == surrogateToUcs4(u1, u2)
           read == ReadUtf16(units, n)
<1>1. u1 \in CodeUnit
  OBVIOUS
<1>2. read = IF u1 \notin HighSurrogate THEN IfValid(u1, 1)
             ELSE IF n + 2 > Len(units) \/ u2 \in HighSurrogate THEN Corrupt
             ELSE IfValid(c, 2)
  BY DEF ReadUtf16
<1>3. n + 2 <= Len(units) /\ u1 \in HighSurrogate => u2 \in LowSurrogate
  BY DEF IsUnpaired
<1>4. CASE u1 \notin HighSurrogate
  <2>1. read = [char |-> u1, size |-> 1]
    BY <1>2, <1>4 DEF IfValid
  <2>2. Utf16(u1) = <<u1>>
    <3>1. LastUnit \in Nat /\ LastUnit <= 65535
      BY SMT DEF LastUnit
    <3>2. u1 \in Nat /\ u1 < 65536
      BY <1>1, <3>1, SMT DEF CodeUnit
    <3> HIDE DEF u1
    <3> QED
      BY <3>2, SMT DEF Utf16
  <2> HIDE DEF read
  <2>3. read.char = u1 /\ read.size = 1 /\ n + 1 <= Len(units)
    BY <2>1
  <2>4. [i \in 1..1 |-> units[n + i]] = <<u1>>
    OBVIOUS
  <2>5. 1 \in 1..2
    OBVIOUS
  <2> QED
    BY <2>2, <2>3, <2>4, <2>5 DEF read
<1>5. CASE u1 \in HighSurrogate
  <2>1. ~(n + 2 > Len(units)) /\ read = [char |-> c, size |-> 2]
    BY <1>2, <1>5 DEF IfValid
  <2>2. n + 2 <= Len(units)
    BY <2>1
  <2>3. u2 \in LowSurrogate
    BY <1>3, <1>5, <2>2
  <2>4. [i \in 1..2 |-> units[n + i]] = <<u1, u2>>
    OBVIOUS
  <2> HIDE DEF u1, u2, read
  <2>5. Utf16(c) = <<u1, u2>>
    BY <1>5, <2>3, SurrogatePair
  <2> HIDE DEF c
  <2>6. read.char = c /\ read.size = 2 /\ 2 \in 1..2
    BY <2>1
  <2> QED
    BY <2>2, <2>4, <2>5, <2>6 DEF read
<1> QED
  BY <1>4, <1>5

LEMMA WellFormedUtf16 ==
    ASSUME NEW units \in Seq(CodeUnit), NEW n \in Nat, NEW size \in 1..4, n + size <= Len(units),
           IsWellFormed("UTF-16", SubSeq(units, n + 1, n + size))
    PROVE  ReadUtf16(units, n) # Corrupt
<1> DEFINE u1 == units[n + 1]
           u2 == units[n + 2]
           c == surrogateToUcs4(u1, u2)
           s == SubSeq(units, n + 1, n + size)
<1>1. Len(s) = size /\ \A i \in 1..size : s[i] = units[n + i]
  OBVIOUS
<1> HIDE DEF s
<1>2. PICK form \in Forms("UTF-16") : Len(form) = Len(s) /\ \A i \in DOMAIN form : s[i] \in form[i]
  BY DEF IsWellFormed, s
<1>3. ReadUtf16(units, n) = IF u1 \notin HighSurrogate THEN IfValid(u1, 1)
                            ELSE IF n + 2 > Len(units) \/ u2 \in HighSurrogate THEN Corrupt
                            ELSE IfValid(c, 2)
  BY DEF ReadUtf16
<1>4. \/ u1 \in 0..(FirstSurrogate - 1) \/ u1 \in (LastSurrogate + 1)..LastUnit
      \/ size = 2 /\ u1 \in HighSurrogate /\ u2 \in LowSurrogate
  <2>1. CASE form = <<0..(FirstSurrogate - 1)>> \/ form = <<(LastSurrogate + 1)..LastUnit>>
    <3>1. s[1] \in 0..(FirstSurrogate - 1) \/ s[1] \in (LastSurrogate + 1)..LastUnit
      BY <1>2, <2>1, OneUnit
    <3>2. s[1] = u1
      BY <1>1
    <3> QED
      BY <3>1, <3>2
  <2>2. CASE form = <<HighSurrogate, LowSurrogate>>
    <3>1. Len(form) = 2 /\ s[1] \in HighSurrogate /\ s[2] \in LowSurrogate
      BY <1>2, <2>2, TwoUnits
    <3>2. size = 2 /\ s[1] = u1 /\ s[2] = u2
      BY <1>1, <1>2, <3>1
    <3> QED
      BY <3>1, <3>2
  <2> QED
    BY ONLY <1>2, <2>1, <2>2, Zenon DEF Forms
<1>5. Corrupt.size = 0
  BY DEF Corrupt
<1> HIDE DEF u1, u2
<1>6. CASE u1 \in 0..(FirstSurrogate - 1) \/ u1 \in (LastSurrogate + 1)..LastUnit
  <2>1. /\ FirstSurrogate \in Nat /\ FirstSurrogate >= 55296 /\ FirstSurrogate <= 55296
        /\ LastSurrogate \in Nat /\ LastSurrogate >= 57343
        /\ LastHighSurrogate \in Nat /\ LastHighSurrogate < 57343
        /\ LastUnit \in Nat /\ LastUnit <= 65535
    BY SMT DEF FirstSurrogate, LastHighSurrogate, LastSurrogate, LastUnit
  <2>2. u1 \in Nat /\ u1 < 65536 /\ (u1 < 55296 \/ u1 >= 57344)
    BY ONLY <1>6, <2>1, SMT
  <2>3. isValidUnicode(u1)
    BY ONLY <2>2, NoSurrogate, SMT
  <2>4. u1 \notin HighSurrogate
    BY ONLY <2>1, <2>2, SMT DEF HighSurrogate
  <2>5. ReadUtf16(units, n) = [char |-> u1, size |-> 1]
    BY <1>3, <2>3, <2>4 DEF IfValid
  <2> QED
    BY <1>5, <2>5
<1>7. CASE size = 2 /\ u1 \in HighSurrogate /\ u2 \in LowSurrogate
  <2>1. c \in Nat /\ c >= 65536 /\ c < 1114112 /\ u2 \notin HighSurrogate
    BY <1>7, SurrogatePair
  <2>2. isValidUnicode(c)
    BY ONLY <2>1, NoSurrogate, SMT
  <2>3. ~(n + 2 > Len(units))
    BY <1>7
  <2> HIDE DEF c
  <2>4. ReadUtf16(units, n) = [char |-> c, size |-> 2]
    BY <1>3, <1>7, <2>1, <2>2, <2>3 DEF IfValid
  <2> QED
    BY <1>5, <2>4
<1> QED
  BY <1>4, <1>6, <1>7

\* Numbers of bytes and of code units are natural numbers, and so are they.
LEMMA SequencesOfNumbers ==
    ASSUME NEW S, S \subseteq Nat, NEW s \in Seq(S)
    PROVE  s \in Seq(Nat)
  BY SeqMonotonic

LEMMA DocumentUnits ==
    ASSUME NEW d, IsDocument(d)
    PROVE  /\ d.units \in Seq(Nat)
           /\ d.encoding # "UTF-8" => d.encoding = "UTF-16" /\ d.units \in Seq(CodeUnit)
<1>1. LastUnit \in Nat
  BY SMT DEF LastUnit
<1>2. Byte \subseteq Nat /\ CodeUnit \subseteq Nat
  BY <1>1 DEF Byte, CodeUnit
<1>3. \/ d.encoding = "UTF-8" /\ d.units \in Seq(Byte)
      \/ d.encoding = "UTF-16" /\ d.units \in Seq(CodeUnit)
  BY DEF IsDocument
<1>4. d.units \in Seq(Nat)
  BY <1>2, <1>3, SequencesOfNumbers
<1> QED
  BY <1>3, <1>4

\* A character read from strict data is made of the units it is encoded as.
LEMMA CharacterRead ==
    ASSUME NEW d, IsDocument(d), IsStrict(d), NEW n \in Nat, n < Len(d.units),
           NEW read, read = ReadOrThrow(d, n), ~read.failed
    PROVE  /\ read.size \in Nat /\ n + read.size <= Len(d.units)
           /\ UnitsOf(d.encoding, read.char) = [i \in 1..read.size |-> d.units[n + i]]
<1> DEFINE units == d.units
           got == IF d.encoding = "UTF-8" THEN ReadUtf8(units, n) ELSE ReadUtf16(units, n)
<1>1. units \in Seq(Nat)
  BY DocumentUnits
<1>2. got # Corrupt /\ read.char = got.char /\ read.size = got.size
  <2>1. n # Len(units)
    BY <1>1
  <2>2. read = [char |-> got.char, size |-> got.size, failed |-> got = Corrupt]
    BY <2>1 DEF ReadOrThrow
  <2> HIDE DEF got
  <2>3. read.char = got.char /\ read.size = got.size
    BY ONLY <2>2
  <2>4. read.failed <=> got = Corrupt
    BY ONLY <2>2, Zenon
  <2> QED
    BY <2>3, <2>4
<1>3. n + 2 <= Len(units) => n + 1 \in 1..(Len(units) - 1) /\ (n + 1) + 1 = n + 2
  BY <1>1
<1>4. CASE d.encoding = "UTF-8"
  <2>1. ReadUtf8(units, n) # Corrupt
    BY <1>2, <1>4
  <2>2. PICK size \in 1..4 : Utf8At(units, n, size)
    BY <2>1, ReadsUtf8
  <2> DEFINE c == Utf8Bits(units, n, size)
  <2>3. ReadUtf8(units, n) = IfValid(c, size)
    BY <2>2, ReadsUtf8
  <2> HIDE DEF c
  <2>4. read.char = c /\ read.size = size
    BY <1>2, <1>4, <2>1, <2>3 DEF IfValid
  <2>5. n + size <= Len(units)
    BY <2>2 DEF Utf8At
  <2>6. size # 1 => ~IsOverlong(units[n + 1], units[n + 2])
    <3>1. size # 1 => n + 2 <= Len(units)
      BY <1>1, <2>5
    <3> QED
      BY <1>3, <1>4, <3>1 DEF IsStrict
  <2>7. Utf8(c) = [i \in 1..size |-> units[n + i]]
    BY <1>1, <2>2, <2>6, Utf8RoundTrip DEF c
  <2> QED
    BY <1>4, <2>4, <2>5, <2>7 DEF UnitsOf
<1>5. CASE d.encoding # "UTF-8"
  <2>1. units \in Seq(CodeUnit) /\ ReadUtf16(units, n) # Corrupt
    BY <1>2, <1>5, DocumentUnits
  <2>2. n + 2 <= Len(units) => ~IsUnpaired(units[n + 1], units[n + 2])
    BY <1>3, <1>5 DEF IsStrict
  <2>3. read.char = ReadUtf16(units, n).char /\ read.size = ReadUtf16(units, n).size
    BY <1>2, <1>5
  <2> HIDE DEF units
  <2>4. /\ read.size \in 1..2 /\ n + read.size <= Len(units)
        /\ Utf16(read.char) = [i \in 1..read.size |-> units[n + i]]
    BY <2>1, <2>2, <2>3, Utf16RoundTrip DEF units
  <2> QED
    BY <1>5, <2>4 DEF UnitsOf, units
<1> QED
  BY <1>4, <1>5

\* Where reading fails there is no character.
LEMMA NoCharacter ==
    ASSUME NEW d, IsDocument(d), NEW n \in 0..Len(d.units), ReadOrThrow(d, n).failed
    PROVE  ~CharacterAt(d, n)
<1> DEFINE units == d.units
<1>1. units \in Seq(Nat)
  BY DocumentUnits
<1>2. (IF d.encoding = "UTF-8" THEN ReadUtf8(units, n) ELSE ReadUtf16(units, n)) = Corrupt
  BY DEF ReadOrThrow
<1>3. SUFFICES ASSUME NEW size \in 1..4, n + size <= Len(units),
                      IsWellFormed(d.encoding, SubSeq(units, n + 1, n + size))
               PROVE  FALSE
  BY DEF CharacterAt
<1>4. d.encoding # "UTF-8" => d.encoding = "UTF-16" /\ units \in Seq(CodeUnit)
  BY DocumentUnits
<1> HIDE DEF units
<1>5. CASE d.encoding = "UTF-8"
  BY <1>1, <1>2, <1>3, <1>5, WellFormedUtf8
<1>6. CASE d.encoding = "UTF-16" /\ units \in Seq(CodeUnit)
  BY <1>1, <1>2, <1>3, <1>6, WellFormedUtf16
<1> QED
  BY <1>4, <1>5, <1>6

LEMMA Decoded ==
    ASSUME TypeOK
    PROVE  /\ ReadOrThrow(document, position).char \in Nat
           /\ position + ReadOrThrow(document, position).size \in 0..Len(document.units)
           /\ ReadOrThrow(document, position).failed \in BOOLEAN
<1> DEFINE units == document.units
           read == IF document.encoding = "UTF-8" THEN ReadUtf8(units, position)
                                                  ELSE ReadUtf16(units, position)
<1>1. CASE position = Len(units)
  BY <1>1 DEF TypeOK, ReadOrThrow
<1>2. CASE position # Len(units)
  <2>1. units \in Seq(Nat) /\ position \in Nat /\ position < Len(units)
    BY <1>2 DEF TypeOK
  <2>2. read.char \in Nat /\ read.size \in Nat /\ position + read.size <= Len(units)
    BY <2>1, DecodedUtf8, DecodedUtf16
  <2>3. ReadOrThrow(document, position)
          = [char |-> read.char, size |-> read.size, failed |-> read = Corrupt]
    BY <1>2 DEF ReadOrThrow
  <2> HIDE DEF read
  <2> QED
    BY <2>1, <2>2, <2>3
<1> QED
  BY <1>1, <1>2

-------------------------------------------------------------------------------
\* The recursive function behind FlattenSeq, up to a length.
Flattened(f, s, n) == f = [i \in 1..n |-> IF i = 1 THEN s[i] ELSE f[i - 1] \o s[i]]

LEMMA FlattenedExists == ASSUME NEW s, NEW n \in Nat PROVE \E f : Flattened(f, s, n)
<1> DEFINE Missing == {m \in Nat : ~\E f : Flattened(f, s, m)}
<1> SUFFICES Missing = {}
  OBVIOUS
<1>1. SUFFICES ASSUME Missing # {} PROVE FALSE
  OBVIOUS
<1>2. PICK m \in Missing : \A x \in Missing : ~(<<x, m>> \in OpToRel(<, Nat))
  BY <1>1, NatLessThanWellFounded, WFMin
<1>3. m \in Nat /\ ~\E f : Flattened(f, s, m)
  OBVIOUS
<1>4. CASE m = 0
  <2> DEFINE f == [i \in 1..m |-> s[i]]
  <2>1. Flattened(f, s, m)
    BY <1>4 DEF Flattened
  <2> QED
    BY <1>3, <2>1
<1>5. CASE m # 0
  <2>1. m - 1 \in Nat /\ <<m - 1, m>> \in OpToRel(<, Nat)
    BY <1>3, <1>5 DEF OpToRel
  <2>2. m - 1 \notin Missing
    BY <1>2, <2>1
  <2>3. PICK f : Flattened(f, s, m - 1)
    BY <2>1, <2>2
  <2> HIDE DEF Missing
  <2> DEFINE last == IF m = 1 THEN s[m] ELSE f[m - 1] \o s[m]
             g == [i \in 1..m |-> IF i = m THEN last ELSE f[i]]
  <2>4. ASSUME NEW i \in 1..m PROVE g[i] = IF i = 1 THEN s[i] ELSE g[i - 1] \o s[i]
    <3>1. CASE i = m
      BY <1>3, <1>5, <3>1
    <3>2. CASE i # m
      <4>1. i \in 1..(m - 1) /\ (i # 1 => i - 1 \in 1..m /\ i - 1 # m)
        BY <1>3, <3>2
      <4>2. f[i] = IF i = 1 THEN s[i] ELSE f[i - 1] \o s[i]
        BY <2>3, <4>1 DEF Flattened
      <4> QED
        BY <3>2, <4>1, <4>2
    <3> QED
      BY <3>1, <3>2
  <2> HIDE DEF last
  <2>5. Flattened(g, s, m)
    <3>1. DOMAIN g = 1..m
      OBVIOUS
    <3>2. g = [i \in 1..m |-> g[i]]
      OBVIOUS
    <3> HIDE DEF g
    <3> QED
      BY <2>4, <3>2 DEF Flattened
  <2> QED
    BY <1>3, <2>5
<1> QED
  BY <1>4, <1>5

\* The function depends only on the part of the sequence it has seen.
LEMMA FlattenedAgree ==
    ASSUME NEW s, NEW t, NEW n \in Nat, NEW m \in Nat, n <= m,
           \A i \in 1..n : s[i] = t[i],
           NEW f, Flattened(f, s, n), NEW g, Flattened(g, t, m)
    PROVE  \A i \in 1..n : f[i] = g[i]
<1> DEFINE Differ == {i \in Nat : i \in 1..n /\ f[i] # g[i]}
<1>1. SUFFICES ASSUME Differ # {} PROVE FALSE
  OBVIOUS
<1>2. PICK k \in Differ : \A x \in Differ : ~(<<x, k>> \in OpToRel(<, Nat))
  BY <1>1, NatLessThanWellFounded, WFMin
<1>3. k \in 1..n /\ k \in 1..m /\ k \in Nat /\ f[k] # g[k] /\ s[k] = t[k]
  OBVIOUS
<1>4. k # 1 => f[k - 1] = g[k - 1]
  <2> SUFFICES ASSUME k # 1 PROVE f[k - 1] = g[k - 1]
    OBVIOUS
  <2>1. k - 1 \in Nat /\ k - 1 \in 1..n /\ <<k - 1, k>> \in OpToRel(<, Nat)
    BY <1>3 DEF OpToRel
  <2> QED
    BY <1>2, <2>1
<1>5. f[k] = IF k = 1 THEN s[k] ELSE f[k - 1] \o s[k]
  BY <1>3 DEF Flattened
<1>6. g[k] = IF k = 1 THEN t[k] ELSE g[k - 1] \o t[k]
  BY <1>3 DEF Flattened
<1> QED
  BY <1>3, <1>4, <1>5, <1>6

\* One sequence more.
FlattensMore(s, t, n) ==
    /\ n = 0 => FlattenSeq(s) = s /\ FlattenSeq(t) = t[1]
    /\ n # 0 => FlattenSeq(t) = FlattenSeq(s) \o t[n + 1]

LEMMA FlattenMore ==
    ASSUME NEW s, NEW t, NEW n \in Nat, Len(s) = n, Len(t) = n + 1,
           \A i \in 1..n : t[i] = s[i]
    PROVE  FlattensMore(s, t, n)
<1> USE DEF FlattensMore
<1> DEFINE f == CHOOSE f : Flattened(f, s, n)
           g == CHOOSE g : Flattened(g, t, n + 1)
<1>1. Flattened(f, s, n) /\ Flattened(g, t, n + 1)
  <2>1. n + 1 \in Nat
    OBVIOUS
  <2>2. (\E h : Flattened(h, s, n)) /\ (\E h : Flattened(h, t, n + 1))
    BY <2>1, FlattenedExists
  <2> QED
    BY <2>2
<1>2. n # 0 => FlattenSeq(s) = f[n]
  BY DEF FlattenSeq, Flattened
<1>3. FlattenSeq(t) = g[n + 1]
  BY DEF FlattenSeq, Flattened
<1>4. n = 0 => FlattenSeq(s) = s
  BY DEF FlattenSeq
<1> HIDE DEF f, g
<1>5. n + 1 \in 1..(n + 1) /\ (n # 0 => n + 1 # 1 /\ (n + 1) - 1 = n /\ n \in 1..n) /\ n <= n + 1
  OBVIOUS
<1>6. g[n + 1] = IF n + 1 = 1 THEN t[n + 1] ELSE g[(n + 1) - 1] \o t[n + 1]
  <2> DEFINE m == n + 1
  <2>1. m \in 1..m
    BY <1>5
  <2>2. Flattened(g, t, m)
    BY <1>1
  <2> HIDE DEF m
  <2>3. g[m] = IF m = 1 THEN t[m] ELSE g[m - 1] \o t[m]
    BY <2>1, <2>2 DEF Flattened
  <2> QED
    BY <2>3 DEF m
<1>7. \A i \in 1..n : f[i] = g[i]
  <2> DEFINE m == n + 1
  <2>1. Flattened(f, s, n) /\ Flattened(g, t, m) /\ m \in Nat /\ n <= m
    BY <1>1
  <2>2. \A i \in 1..n : s[i] = t[i]
    OBVIOUS
  <2> HIDE DEF m
  <2> QED
    BY ONLY n \in Nat, <2>1, <2>2, FlattenedAgree
<1>8. CASE n = 0
  BY <1>3, <1>4, <1>6, <1>8
<1>9. CASE n # 0
  BY <1>2, <1>3, <1>5, <1>6, <1>7, <1>9
<1> QED
  BY <1>8, <1>9

\* What is encoded grows by the units of the next character.
LEMMA EncodedMore ==
    ASSUME NEW encoding, NEW chars \in Seq(Nat), NEW c \in Nat,
           UnitsOf(encoding, c) \in Seq(Nat)
    PROVE  /\ Encoded(encoding, <<>>) = <<>>
           /\ Encoded(encoding, Append(chars, c)) = Encoded(encoding, chars) \o UnitsOf(encoding, c)
<1> DEFINE n == Len(chars)
           more == Append(chars, c)
           s == [i \in DOMAIN chars |-> UnitsOf(encoding, chars[i])]
           t == [i \in DOMAIN more |-> UnitsOf(encoding, more[i])]
<1>1. /\ n \in Nat /\ DOMAIN chars = 1..n /\ DOMAIN more = 1..(n + 1)
      /\ more[n + 1] = c /\ \A i \in 1..n : more[i] = chars[i] /\ i \in 1..(n + 1)
  OBVIOUS
<1> HIDE DEF n, more
<1>2. /\ Len(s) = n /\ Len(t) = n + 1
      /\ \A i \in 1..n : t[i] = s[i]
      /\ t[n + 1] = UnitsOf(encoding, c)
  <2>1. n + 1 \in 1..(n + 1)
    BY <1>1
  <2> QED
    BY <1>1, <2>1
<1>3. n = 0 => s = <<>>
  BY <1>1
<1>4. Encoded(encoding, chars) = FlattenSeq(s) /\ Encoded(encoding, more) = FlattenSeq(t)
  BY DEF Encoded
<1>5. Encoded(encoding, <<>>) = <<>>
  <2>1. [i \in DOMAIN <<>> |-> UnitsOf(encoding, <<>>[i])] = <<>>
    OBVIOUS
  <2>2. FlattenSeq(<<>>) = <<>>
    BY DEF FlattenSeq
  <2> QED
    BY <2>1, <2>2 DEF Encoded
<1> HIDE DEF s, t
<1>6. /\ n = 0 => FlattenSeq(s) = s /\ FlattenSeq(t) = t[1]
      /\ n # 0 => FlattenSeq(t) = FlattenSeq(s) \o t[n + 1]
  <2>1. FlattensMore(s, t, n)
    BY ONLY <1>1, <1>2, FlattenMore
  <2> QED
    BY ONLY <2>1, Zenon DEF FlattensMore
<1>7. CASE n = 0
  <2>1. FlattenSeq(s) = <<>> /\ FlattenSeq(t) = UnitsOf(encoding, c)
    <3>1. t[1] = t[n + 1]
      BY <1>7
    <3> QED
      BY <1>2, <1>3, <1>6, <1>7, <3>1
  <2>2. <<>> \o UnitsOf(encoding, c) = UnitsOf(encoding, c)
    OBVIOUS
  <2> QED
    BY <1>4, <1>5, <2>1, <2>2 DEF more
<1>8. CASE n # 0
  BY <1>2, <1>4, <1>5, <1>6, <1>8 DEF more
<1> QED
  BY <1>7, <1>8

-------------------------------------------------------------------------------
\* The next character is read ahead.
LEMMA ReadAhead ==
    ASSUME TypeOK, hasChar => ~atEnd, NEW next, ReadNext(next), UNCHANGED document
    PROVE  /\ char' \in Nat
           /\ position' \in 0..Len(document.units)
           /\ hasChar' \in BOOLEAN
           /\ place' \in {next, "encoding"}
           /\ hasChar' => ~atEnd'
  BY Decoded DEF ReadNext, TypeOK, atEnd

\* One character more moves the location on.
LEMMA LocationMoves ==
    ASSUME TypeOK, LocationFits,
           seen' = Append(seen, char), location' = increment(location, char = LF)
    PROVE  LocationFits' /\ location' \in Location /\ seen' \in Seq(Nat)
<1> DEFINE n == Len(seen)
<1>1. /\ n \in Nat /\ DOMAIN seen = 1..n
      /\ location \in Location
      /\ char \in Nat
  BY DEF TypeOK
<1>2. /\ seen' \in Seq(Nat) /\ Len(seen') = n + 1 /\ DOMAIN seen' = 1..(n + 1)
      /\ seen'[n + 1] = char
      /\ \A i \in 1..n : seen'[i] = seen[i]
  BY DEF TypeOK
<1>3. LineFeeds \subseteq 1..n
  BY <1>1 DEF LineFeeds
<1>4. IsFiniteSet(LineFeeds) /\ Cardinality(LineFeeds) \in Nat
  <2>1. IsFiniteSet(1..n)
    BY <1>1, FS_Interval
  <2>2. IsFiniteSet(LineFeeds)
    BY <1>3, <2>1, FS_Subset
  <2> QED
    BY <2>2, FS_CardinalityType
<1>5. LineFeeds' = IF char = LF THEN LineFeeds \cup {n + 1} ELSE LineFeeds
  BY <1>1, <1>2 DEF LineFeeds
<1>6. location' \in Location
  BY <1>1 DEF increment
<1>7. CASE char = LF
  <2>1. location' = [index |-> location.index + 1, line |-> location.line + 1, column |-> 1]
    BY <1>7 DEF increment
  <2>2. n + 1 \notin LineFeeds
    BY <1>1, <1>3
  <2>3. Cardinality(LineFeeds') = Cardinality(LineFeeds) + 1
    BY <1>4, <1>5, <1>7, <2>2, FS_AddElement
  <2>4. \A i \in LineFeeds' : i <= n + 1
    BY <1>1, <1>3, <1>5, <1>7
  <2>5. n + 1 \in LineFeeds'
    BY <1>5, <1>7
  <2> HIDE DEF n
  <2> QED
    BY <1>1, <1>2, <1>4, <1>6, <2>1, <2>3, <2>4, <2>5 DEF LocationFits, n
<1>8. CASE char # LF
  <2>1. location' = [index |-> location.index + 1, line |-> location.line, column |-> location.column + 1]
    BY <1>8 DEF increment
  <2>2. LineFeeds' = LineFeeds
    BY <1>5, <1>8
  <2> QED
    BY <1>1, <1>2, <1>4, <1>6, <2>1, <2>2 DEF LocationFits
<1> QED
  BY <1>2, <1>6, <1>7, <1>8

\* A character is skipped: what is left is that the tokens stay as they are.
LEMMA CharacterSkipped ==
    ASSUME IndInv, place # "end", NEW next \in Place \ {"end"}, skipChar(next),
           token' \in Seq(Nat), UNCHANGED <<document, startLocation, tokens>>
    PROVE  IndInv'
<1> USE DEF IndInv
<1>1. LocationFits' /\ location' \in Location /\ seen' \in Seq(Nat)
  BY LocationMoves DEF skipChar
<1>2. /\ char' \in Nat /\ position' \in 0..Len(document.units) /\ hasChar' \in BOOLEAN
      /\ place' \in Place \ {"end"}
      /\ hasChar' => ~atEnd'
  BY ReadAhead DEF skipChar, Place
<1>3. TypeOK'
  BY <1>1, <1>2 DEF TypeOK
<1>4. TokensTile'
  <2>1. Len(seen') = Len(seen) + 1 /\ Len(seen) \in Nat
    BY DEF skipChar, TypeOK
  <2>2. \A i \in DOMAIN tokens : tokens[i].end.index \in Nat
    <3>1. \A i \in DOMAIN tokens : tokens[i] \in Token
      BY DEF TypeOK
    <3> QED
      BY <3>1 DEF Token
  <2>3. Ends' = Ends
    BY DEF Ends
  <2> QED
    BY <2>1, <2>2, <2>3 DEF TokensTile
<1>5. EndsAtEnd'
  BY <1>2 DEF EndsAtEnd
<1> QED
  BY <1>1, <1>2, <1>3, <1>4, <1>5

\* A token is delivered: it ends where the next one begins.
LEMMA TokenTaken ==
    ASSUME IndInv, takeToken, NEW next \in Place, place' = next,
           next = "end" => atEnd,
           UNCHANGED <<document, position, char, hasChar, location, seen>>
    PROVE  IndInv'
<1> USE DEF IndInv, takeToken
<1> DEFINE t == [text |-> token, begin |-> startLocation, end |-> location]
           n == Len(tokens)
<1>1. t \in Token
  BY DEF TypeOK, Token
<1>2. TypeOK'
  BY <1>1 DEF TypeOK
<1>3. LocationFits'
  BY DEF LocationFits, LineFeeds
<1>4. /\ n \in Nat /\ DOMAIN tokens = 1..n
      /\ Len(tokens') = n + 1 /\ DOMAIN tokens' = 1..(n + 1)
      /\ tokens'[n + 1] = t
      /\ \A i \in 1..n : tokens'[i] = tokens[i]
  BY <1>1 DEF TypeOK
<1>5. TokensTile'
  <2>1. /\ \A i \in 0..n : Ends'[i] = Ends[i]
        /\ Ends'[n + 1] = location
    <3>1. Ends' = [i \in 0..(n + 1) |-> IF i = 0 THEN FirstLocation ELSE tokens'[i].end]
      BY <1>4 DEF Ends
    <3>2. Ends = [i \in 0..n |-> IF i = 0 THEN FirstLocation ELSE tokens[i].end]
      BY DEF Ends
    <3>3. \A i \in 0..n : i # 0 => i \in 1..n
      BY <1>4
    <3>4. \A i \in 0..n : Ends'[i] = Ends[i]
      BY <1>4, <3>1, <3>2, <3>3
    <3>5. n + 1 \in 0..(n + 1) /\ n + 1 # 0
      BY <1>4
    <3>6. Ends'[n + 1] = tokens'[n + 1].end
      BY <3>1, <3>5
    <3> QED
      BY <1>4, <3>4, <3>6
  <2>2. t.begin = Ends[n] /\ t.end.index <= Len(seen)
    BY DEF TokensTile, LocationFits, TypeOK
  <2>3. \A i \in 1..n : tokens[i].begin = Ends[i - 1] /\ tokens[i].end.index <= Len(seen)
    BY <1>4 DEF TokensTile
  <2>4. \A i \in DOMAIN tokens' :
            tokens'[i].begin = Ends'[i - 1] /\ tokens'[i].end.index <= Len(seen)
    BY <1>4, <2>1, <2>2, <2>3
  <2> QED
    BY <1>4, <2>1, <2>4 DEF TokensTile
<1>6. EndsAtEnd'
  BY DEF EndsAtEnd, atEnd, LocationFits, TypeOK
<1> QED
  BY <1>2, <1>3, <1>5, <1>6 DEF atEnd

\* Neither a character nor a token is finished.
LEMMA NothingTaken ==
    ASSUME IndInv, TypeOK', hasChar' => ~atEnd', place # "end", place' # "end",
           UNCHANGED <<location, startLocation, tokens, seen>>
    PROVE  IndInv'
  BY DEF IndInv, LocationFits, LineFeeds, TokensTile, Ends, EndsAtEnd

-------------------------------------------------------------------------------
LEMMA InitInvariant == Init => IndInv
<1> SUFFICES ASSUME Init PROVE IndInv
  OBVIOUS
<1>1. TypeOK
  <2>1. document.units \in Seq(Nat)
    BY DocumentsAssumption, DocumentUnits DEF Init
  <2>2. 0 \in 0..Len(document.units)
    BY <2>1
  <2>3. FirstLocation \in Location
    BY DEF FirstLocation
  <2>4. token \in Seq(Nat) /\ tokens \in Seq(Token) /\ seen \in Seq(Nat)
    BY DEF Init
  <2>5. /\ char \in Nat /\ hasChar \in BOOLEAN /\ place \in Place
        /\ position \in 0..Len(document.units)
        /\ location \in Location /\ startLocation \in Location
    BY <2>2, <2>3 DEF Init, Place
  <2> QED
    BY <2>1, <2>4, <2>5 DEF TypeOK
<1>2. LineFeeds = {} /\ Cardinality(LineFeeds) = 0
  BY FS_EmptySet DEF Init, LineFeeds
<1>3. LocationFits
  BY <1>2 DEF Init, LocationFits, FirstLocation
<1>4. TokensTile /\ EndsAtEnd
  BY DEF Init, TokensTile, Ends, EndsAtEnd
<1> QED
  BY <1>1, <1>3, <1>4 DEF IndInv, Init

LEMMA StepInvariant == IndInv /\ [Next]_vars => IndInv'
<1> SUFFICES ASSUME IndInv, [Next]_vars PROVE IndInv'
  OBVIOUS
<1> USE DEF Place
<1>1. CASE ReadEndOfDocument
  BY <1>1, TokenTaken DEF ReadEndOfDocument
<1>2. CASE BeginToken
  <2>1. TypeOK' /\ (hasChar' => ~atEnd') /\ place' # "end"
    <3>1. CASE hasChar
      BY <1>2, <3>1 DEF BeginToken, IndInv, TypeOK, atEnd
    <3>2. CASE ~hasChar
      BY <1>2, <3>2, ReadAhead DEF BeginToken, IndInv, TypeOK
    <3> QED
      BY <3>1, <3>2
  <2> QED
    BY <1>2, <2>1, NothingTaken DEF BeginToken
<1>3. CASE CreateToken
  BY <1>3, TokenTaken DEF CreateToken
<1>4. CASE SkipChar
  BY <1>4, CharacterSkipped DEF SkipChar, IndInv, TypeOK
<1>5. CASE ConsumeChar
  BY <1>5, CharacterSkipped DEF ConsumeChar, IndInv, TypeOK
<1>6. CASE SkipCarriageReturn
  BY <1>6, CharacterSkipped DEF SkipCarriageReturn, IndInv, TypeOK
<1>7. CASE SkipLineFeed
  BY <1>7, CharacterSkipped DEF SkipLineFeed, IndInv, TypeOK
<1>8. CASE ConsumeLineFeed
  BY <1>8, CharacterSkipped DEF ConsumeLineFeed, IndInv, TypeOK
<1>9. CASE Reject
  <2>1. TypeOK' /\ (hasChar' => ~atEnd') /\ place' # "end" /\ place # "end"
    BY <1>9 DEF Reject, IndInv, TypeOK, atEnd
  <2> QED
    BY <1>9, <2>1, NothingTaken DEF Reject
<1>10. CASE SkipCharAndWrite
  <2>1. token \in Seq(Nat) /\ Writable \subseteq Nat
    BY WritableAssumption DEF IndInv, TypeOK
  <2>2. token' \in Seq(Nat)
    <3>1. CASE place' = "encoding"
      BY <1>10, <2>1, <3>1 DEF SkipCharAndWrite
    <3>2. CASE place' # "encoding"
      BY <1>10, <2>1, <3>2 DEF SkipCharAndWrite
    <3> QED
      BY <3>1, <3>2
  <2> QED
    BY <1>10, <2>2, CharacterSkipped DEF SkipCharAndWrite
<1>11. CASE WriteToToken
  <2>1. TypeOK' /\ (hasChar' => ~atEnd') /\ place' # "end" /\ place # "end"
    BY <1>11, WritableAssumption DEF WriteToToken, IndInv, TypeOK, atEnd
  <2> QED
    BY <1>11, <2>1, NothingTaken DEF WriteToToken
<1>12. CASE UNCHANGED vars
  BY <1>12 DEF vars, IndInv, TypeOK, atEnd, LocationFits, LineFeeds, TokensTile, Ends, EndsAtEnd
<1> QED
  BY <1>1, <1>2, <1>3, <1>4, <1>5, <1>6, <1>7, <1>8, <1>9, <1>10, <1>11, <1>12 DEF Next

-------------------------------------------------------------------------------
\* A character more is read: its units follow those read before.
LEMMA UnitsFollow ==
    ASSUME NEW units \in Seq(Nat), NEW n \in Nat, NEW k \in Nat, n + k <= Len(units)
    PROVE  /\ SubSeq(units, 1, n + k) = SubSeq(units, 1, n) \o [i \in 1..k |-> units[n + i]]
           /\ [i \in 1..k |-> units[n + i]] \in Seq(Nat)
<1> DEFINE a == SubSeq(units, n + 1, n + k)
           b == [i \in 1..k |-> units[n + i]]
<1>1. /\ 1 \in 1..(Len(units) + 1) /\ n \in (1 - 1)..Len(units) /\ n + k \in n..Len(units)
  OBVIOUS
<1>2. SubSeq(units, 1, n) \o a = SubSeq(units, 1, n + k)
  BY ONLY <1>1, units \in Seq(Nat), ConcatAdjacentSubSeq
<1>3. a \in Seq(Nat) /\ Len(a) = k /\ \A i \in 1..k : a[i] = units[n + i]
  <2>1. /\ n + 1 \in Int /\ n + k \in Int /\ (n + k) - (n + 1) + 1 = k
        /\ \A i \in (n + 1)..(n + k) : units[i] \in Nat
        /\ n + 1 <= n + k <=> k # 0
    <3>1. Len(units) \in Nat
      OBVIOUS
    <3>2. \A i \in (n + 1)..(n + k) : i \in 1..Len(units)
      BY <3>1
    <3>3. \A i \in 1..Len(units) : units[i] \in Nat
      BY ElementOfSeq
    <3>4. \A i \in (n + 1)..(n + k) : units[i] \in Nat
      BY ONLY <3>2, <3>3
    <3>5. /\ n + 1 \in Int /\ n + k \in Int /\ (n + k) - (n + 1) + 1 = k
          /\ n + 1 <= n + k <=> k # 0
      BY ONLY n \in Nat, k \in Nat
    <3> QED
      BY ONLY <3>4, <3>5
  <2>2. /\ a \in Seq(Nat)
        /\ Len(a) = IF n + 1 <= n + k THEN (n + k) - (n + 1) + 1 ELSE 0
        /\ \A i \in 1..((n + k) - (n + 1) + 1) : a[i] = units[(n + 1) + i - 1]
    BY ONLY <2>1, SubSeqProperties
  <2>3. \A i \in 1..k : (n + 1) + i - 1 = n + i
    OBVIOUS
  <2> HIDE DEF a
  <2> QED
    BY <2>1, <2>2, <2>3
<1>4. b \in Seq(Nat) /\ Len(b) = k /\ \A i \in 1..k : b[i] = units[n + i]
  <2>1. \A i \in 1..k : n + i \in 1..Len(units)
    OBVIOUS
  <2>2. \A i \in 1..k : units[n + i] \in Nat
    BY <2>1
  <2> QED
    BY <2>2
<1> HIDE DEF a, b
<1>5. a = b
  BY ONLY <1>3, <1>4, SeqEqual
<1> QED
  BY <1>2, <1>4, <1>5 DEF b

CharacterAppended(d, n, read, chars) ==
    /\ SubSeq(d.units, 1, n + read.size) = Encoded(d.encoding, Append(chars, read.char))
    /\ read.char = NUL =>
         SubSeq(d.units, 1, n + read.size) = Append(Encoded(d.encoding, chars), NUL)

LEMMA CharacterMore ==
    ASSUME NEW d, IsDocument(d), IsStrict(d), NEW n \in Nat, n < Len(d.units),
           NEW read, read = ReadOrThrow(d, n), ~read.failed, read.char \in Nat,
           NEW chars \in Seq(Nat), SubSeq(d.units, 1, n) = Encoded(d.encoding, chars)
    PROVE  CharacterAppended(d, n, read, chars)
<1> USE DEF CharacterAppended
<1> DEFINE units == d.units
           next == UnitsOf(d.encoding, read.char)
<1>1. /\ units \in Seq(Nat)
      /\ read.size \in Nat /\ n + read.size <= Len(units)
      /\ next = [i \in 1..read.size |-> units[n + i]]
  BY DocumentUnits, CharacterRead
<1> HIDE DEF units, next
<1>2. /\ SubSeq(units, 1, n + read.size) = Encoded(d.encoding, chars) \o next
      /\ next \in Seq(Nat)
  <2> DEFINE k == read.size
  <2>1. k \in Nat /\ n + k <= Len(units) /\ units \in Seq(Nat)
    BY <1>1
  <2> HIDE DEF k
  <2>2. /\ SubSeq(units, 1, n + k) = SubSeq(units, 1, n) \o [i \in 1..k |-> units[n + i]]
        /\ [i \in 1..k |-> units[n + i]] \in Seq(Nat)
    BY ONLY n \in Nat, <2>1, UnitsFollow
  <2>3. SubSeq(units, 1, n) = Encoded(d.encoding, chars)
    BY DEF units
  <2> QED
    BY ONLY <1>1, <2>2, <2>3 DEF k
<1>3. SubSeq(units, 1, n + read.size) = Encoded(d.encoding, Append(chars, read.char))
  BY <1>2, EncodedMore DEF next
<1>4. ASSUME read.char = NUL PROVE SubSeq(units, 1, n + read.size) = Append(Encoded(d.encoding, chars), NUL)
  <2>1. next = <<NUL>>
    BY <1>4, SMT DEF next, UnitsOf, Utf8, Utf16
  <2>2. SubSeq(units, 1, n) \in Seq(Nat) /\ NUL \in Nat
    BY <1>1
  <2>3. SubSeq(units, 1, n) \o <<NUL>> = Append(SubSeq(units, 1, n), NUL)
    BY <2>2
  <2> QED
    BY <1>2, <2>1, <2>3 DEF units
<1> QED
  BY <1>3, <1>4 DEF units

\* Everything read so far is passed and the next character read ahead.
LEMMA ReadingGoesOn ==
    ASSUME TypeOK, ReadInv, place # "encoding", NEW next, next # "encoding", ReadNext(next),
           UNCHANGED document, seen' = CharactersRead, seen' \in Seq(Nat),
           IsStrict(document) => SubSeq(document.units, 1, position) = Encoded(document.encoding, seen')
    PROVE  ReadInv'
<1> DEFINE d == document
           units == d.units
           n == position
           read == ReadOrThrow(d, n)
           chars == seen'
<1>1. /\ IsDocument(d) /\ d' = d
      /\ units \in Seq(Nat) /\ n \in 0..Len(units) /\ n \in Nat /\ Len(units) \in Nat
  BY DEF ReadInv, TypeOK
<1>2. read.char \in Nat /\ n + read.size \in 0..Len(units) /\ read.failed \in BOOLEAN
  BY Decoded
<1>3. CASE read.failed
  <2>1. place' = "encoding" /\ char' = char /\ position' = n /\ hasChar' = hasChar
    BY <1>3 DEF ReadNext
  <2>2. ~CharacterAt(d, n)
    BY <1>1, <1>3, NoCharacter
  <2>3. CharactersRead' = chars
    BY <2>1 DEF CharactersRead
  <2>4. IsStrict(d) => ReadingFits'
    BY <1>1, <2>1, <2>3 DEF ReadingFits
  <2> QED
    BY <1>1, <2>1, <2>2, <2>4 DEF ReadInv
<1>4. CASE ~read.failed
  <2>1. /\ char' = read.char /\ position' = n + read.size /\ place' = next
        /\ hasChar' = ~(read.char = NUL /\ n + read.size = Len(units))
    BY <1>1, <1>4 DEF ReadNext
  <2>2. ASSUME IsStrict(d) PROVE ReadingFits'
    <3>1. SubSeq(units, 1, n) = Encoded(d.encoding, chars)
      BY <2>2
    <3>2. CharactersRead' = IF hasChar' THEN Append(chars, read.char) ELSE chars
      BY <2>1 DEF CharactersRead
    <3>3. CASE n = Len(units)
      <4>1. read.char = 0 /\ read.size = 0
        BY <3>3 DEF ReadOrThrow
      <4> HIDE DEF read
      <4>2. ~hasChar' /\ position' = n
        <5>1. read.char = NUL /\ n + read.size = Len(units) /\ n + read.size = n
          BY <1>1, <3>3, <4>1
        <5> QED
          BY ONLY <2>1, <5>1, Zenon
      <4> QED
        BY <1>1, <3>1, <3>2, <4>2 DEF ReadingFits
    <3>4. CASE n # Len(units)
      <4>1. n < Len(units)
        BY <1>1, <3>4
      <4> HIDE DEF read
      <4>2. /\ SubSeq(units, 1, n + read.size) = Encoded(d.encoding, Append(chars, read.char))
            /\ read.char = NUL =>
                 SubSeq(units, 1, n + read.size) = Append(Encoded(d.encoding, chars), NUL)
        <5>1. read = ReadOrThrow(d, n)
          BY DEF read
        <5>2. chars \in Seq(Nat)
          OBVIOUS
        <5> HIDE DEF chars
        <5>3. CharacterAppended(d, n, read, chars)
          BY ONLY <1>1, <1>2, <1>4, <2>2, <3>1, <4>1, <5>1, <5>2, CharacterMore
        <5> QED
          BY ONLY <5>3, Zenon DEF CharacterAppended
      <4>3. CASE hasChar'
        BY <1>1, <2>1, <3>2, <4>2, <4>3 DEF ReadingFits
      <4>4. CASE ~hasChar'
        <5>1. read.char = NUL /\ position' = Len(units)
          BY <2>1, <4>4
        <5> QED
          BY <1>1, <2>1, <3>2, <4>2, <4>4, <5>1 DEF ReadingFits
      <4> QED
        BY <4>3, <4>4
    <3> QED
      BY <3>3, <3>4
  <2>3. ~hasChar' => char' = NUL
    BY <2>1
  <2> QED
    BY <1>1, <2>1, <2>2, <2>3 DEF ReadInv
<1> QED
  BY <1>2, <1>3, <1>4

\* A character is skipped or consumed.
LEMMA ReadingPassed ==
    ASSUME TypeOK, ReadInv, place # "encoding", char # NUL, NEW next, next # "encoding",
           skipChar(next), UNCHANGED document
    PROVE  ReadInv'
<1>1. hasChar /\ ReadNext(next) /\ seen' = CharactersRead
  BY DEF ReadInv, skipChar, CharactersRead
<1>2. seen' \in Seq(Nat)
  BY DEF TypeOK, skipChar
<1>3. IsStrict(document) => SubSeq(document.units, 1, position) = Encoded(document.encoding, seen')
  BY <1>1 DEF ReadInv, ReadingFits
<1> QED
  BY <1>1, <1>2, <1>3, ReadingGoesOn

\* Nothing is read.
LEMMA NothingRead ==
    ASSUME ReadInv, (place = "encoding") = (place' = "encoding"),
           UNCHANGED <<document, position, char, hasChar, seen>>
    PROVE  ReadInv'
  BY DEF ReadInv, ReadingFits, CharactersRead

LEMMA InitReading == Init => ReadInv
<1> SUFFICES ASSUME Init PROVE ReadInv
  OBVIOUS
<1>1. IsDocument(document) /\ document.units \in Seq(Nat)
  BY DocumentsAssumption, DocumentUnits DEF Init
<1>2. SubSeq(document.units, 1, 0) = <<>>
  BY <1>1
<1>3. Encoded(document.encoding, <<>>) = <<>>
  <2>1. [i \in DOMAIN <<>> |-> UnitsOf(document.encoding, <<>>[i])] = <<>>
    OBVIOUS
  <2>2. FlattenSeq(<<>>) = <<>>
    BY DEF FlattenSeq
  <2> QED
    BY <2>1, <2>2 DEF Encoded
<1>4. CharactersRead = <<>>
  BY DEF Init, CharactersRead
<1>5. ReadingFits
  BY <1>2, <1>3, <1>4 DEF Init, ReadingFits
<1> QED
  BY <1>1, <1>5 DEF Init, ReadInv

LEMMA StepReading == IndInv /\ ReadInv /\ [Next]_vars => ReadInv'
<1> SUFFICES ASSUME IndInv, ReadInv, [Next]_vars PROVE ReadInv'
  OBVIOUS
<1>1. TypeOK
  BY DEF IndInv
<1>2. Accepted => char # NUL
  BY DEF Accepted, isControlCharacter
<1>3. CASE ReadEndOfDocument
  BY <1>3, NothingRead DEF ReadEndOfDocument
<1>4. CASE BeginToken
  <2>1. CASE hasChar
    BY <1>4, <2>1, NothingRead DEF BeginToken
  <2>2. CASE ~hasChar
    <3>1. /\ place # "encoding" /\ ReadNext("inside") /\ UNCHANGED <<document, seen>>
          /\ seen' = CharactersRead /\ seen' \in Seq(Nat)
      BY <1>1, <1>4, <2>2 DEF BeginToken, CharactersRead, TypeOK
    <3>2. position # Len(document.units)
      BY <1>4, <2>2 DEF BeginToken, atEnd, ReadInv
    <3>3. IsStrict(document) =>
              SubSeq(document.units, 1, position) = Encoded(document.encoding, seen')
      BY <3>1, <3>2 DEF ReadInv, ReadingFits
    <3> QED
      BY <1>1, <3>1, <3>3, ReadingGoesOn
  <2> QED
    BY <2>1, <2>2
<1>5. CASE CreateToken
  BY <1>5, NothingRead DEF CreateToken
<1>6. CASE SkipChar
  BY <1>1, <1>2, <1>6, ReadingPassed DEF SkipChar
<1>7. CASE ConsumeChar
  BY <1>1, <1>2, <1>7, ReadingPassed DEF ConsumeChar
<1>8. CASE SkipCharAndWrite
  BY <1>1, <1>2, <1>8, ReadingPassed DEF SkipCharAndWrite
<1>9. CASE WriteToToken
  BY <1>9, NothingRead DEF WriteToToken
<1>10. CASE SkipCarriageReturn
  BY <1>1, <1>10, ReadingPassed DEF SkipCarriageReturn
<1>11. CASE SkipLineFeed
  BY <1>1, <1>11, ReadingPassed DEF SkipLineFeed
<1>12. CASE ConsumeLineFeed
  BY <1>1, <1>12, ReadingPassed DEF ConsumeLineFeed
<1>13. CASE Reject
  BY <1>13, NothingRead DEF Reject
<1>14. CASE UNCHANGED vars
  BY <1>14, NothingRead DEF vars
<1> QED
  BY <1>3, <1>4, <1>5, <1>6, <1>7, <1>8, <1>9, <1>10, <1>11, <1>12, <1>13, <1>14 DEF Next

-------------------------------------------------------------------------------
\* The inductive invariant of the reader, for documents of any length.
THEOREM ReaderInvariance == Spec => []IndInv
  BY InitInvariant, StepInvariant, PTL DEF Spec

\* What is read is what is written: the characters passed and the one ahead are
\* those the units read so far encode (readOrThrow, skipChar and consumeChar).
THEOREM ReadingInvariance == Spec => []ReaderInv
<1>1. Init => ReaderInv
  BY InitInvariant, InitReading DEF ReaderInv
<1>2. ReaderInv /\ [Next]_vars => ReaderInv'
  BY StepInvariant, StepReading DEF ReaderInv
<1> QED
  BY <1>1, <1>2, PTL DEF Spec

\* No character of a strict document is lost, made up or read twice.
THEOREM CharactersOfTheDocument == Spec => []DecodesDocument
<1>1. ReaderInv => DecodesDocument
  BY DEF ReaderInv, ReadInv, ReadingFits, DecodesDocument, DeliversWhatIsRead
<1> QED
  BY <1>1, ReadingInvariance, PTL

\* Data is rejected as corrupted only where there is no character, and there.
THEOREM RejectedWhereCorrupt == Spec => []ErrorsAreCorruption
<1>1. ReaderInv => ErrorsAreCorruption
  <2> SUFFICES ASSUME IndInv, ReadInv, place = "encoding" PROVE ErrorsAreCorruption
    BY DEF ErrorsAreCorruption, ReaderInv
  <2>1. ~CharacterAt(document, position) /\ location.index = Len(seen)
    BY DEF ReadInv, IndInv, LocationFits
  <2>2. document.units \in Seq(Nat) /\ position \in 0..Len(document.units)
    BY DEF IndInv, TypeOK
  <2>3. Len(SubSeq(document.units, 1, position)) = position
    BY <2>2
  <2>4. IsStrict(document) => SubSeq(document.units, 1, position) = Encoded(document.encoding, seen)
    BY DEF ReadInv, ReadingFits, CharactersRead
  <2> QED
    BY <2>1, <2>3, <2>4 DEF ErrorsAreCorruption
<1> QED
  BY <1>1, ReadingInvariance, PTL

\* Locations count characters, lines and columns rightly.
THEOREM LocationsRight == Spec => []LocationFits
<1>1. IndInv => LocationFits
  BY DEF IndInv
<1> QED
  BY <1>1, ReaderInvariance, PTL

\* Tokens leave no gap and do not overlap.
THEOREM TokensWithoutGap == Spec => []TokensTile
<1>1. IndInv => TokensTile
  BY DEF IndInv
<1> QED
  BY <1>1, ReaderInvariance, PTL

\* The end is reported only when everything has been part of a token.
THEOREM EndIsEnd == Spec => []EndsAtEnd
<1>1. IndInv => EndsAtEnd
  BY DEF IndInv
<1> QED
  BY <1>1, ReaderInvariance, PTL

===============================================================================
