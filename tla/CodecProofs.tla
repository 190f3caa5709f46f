------------------------------ MODULE CodecProofs ------------------------------
(***************************************************************************)
(* What base64url promises of every sequence of bytes, whatever its        *)
(* length: it is read back as it was written, and two of them have the     *)
(* same text only if they are the same.                                    *)
(*                                                                         *)
(* A length is three times a number of groups plus a rest, and so is every *)
(* place; with this the lengths and places of texts are sums, and the rest *)
(* is arithmetic within one group.                                         *)
(***************************************************************************)
EXTENDS Codec, TLAPS

\* The table and its inverse.
LEMMA TableInverse ==
    ASSUME NEW v \in Sextet
    PROVE  Char(v) \in Alphabet /\ Char(v) # Padding /\ Value(Char(v)) = v
<1>1. \/ v \in 0 .. 25 \/ v \in 26 .. 51 \/ v \in 52 .. 61 \/ v = 62 \/ v = 63
  BY DEF Sextet
<1>2. CASE v \in 0 .. 25
  BY <1>2 DEF Char, Value, Alphabet, Padding
<1>3. CASE v \in 26 .. 51
  BY <1>3 DEF Char, Value, Alphabet, Padding
<1>4. CASE v \in 52 .. 61
  BY <1>4 DEF Char, Value, Alphabet, Padding
<1>5. CASE v = 62
  BY <1>5 DEF Char, Value, Alphabet, Padding
<1>6. CASE v = 63
  BY <1>6 DEF Char, Value, Alphabet, Padding
<1> QED BY <1>1, <1>2, <1>3, <1>4, <1>5, <1>6

LEMMA Thirds ==
    ASSUME NEW n \in Nat
    PROVE  /\ n = 3 * (n \div 3) + (n % 3)
           /\ n \div 3 \in Nat /\ (n % 3) \in 0 .. 2
  OBVIOUS

LEMMA Fourths ==
    ASSUME NEW n \in Nat
    PROVE  /\ n = 4 * (n \div 4) + (n % 4)
           /\ n \div 4 \in Nat /\ (n % 4) \in 0 .. 3
  OBVIOUS

\* The fourth a position is in, and the place it has there.
LEMMA InFourth ==
    ASSUME NEW g \in Nat, NEW q \in 0 .. 3
    PROVE  (4*g + q) \div 4 = g /\ (4*g + q) % 4 = q
  OBVIOUS

LEMMA Lengths ==
    ASSUME NEW n \in Nat
    PROVE  /\ EncodedLen(n) \in Nat
           /\ EncodedLen(n) = 4 * (n \div 3) + <<0, 2, 3>>[(n % 3) + 1]
           /\ DecodedLen(EncodedLen(n)) = n
<1> DEFINE q == n \div 3
<1>1. n = 3*q + (n % 3) /\ q \in Nat /\ (n % 3) \in 0 .. 2
  BY Thirds
<1> HIDE DEF q
<1>2. CASE n % 3 = 0
  BY <1>1, <1>2 DEF EncodedLen, DecodedLen
<1>3. CASE n % 3 = 1
  BY <1>1, <1>3 DEF EncodedLen, DecodedLen
<1>4. CASE n % 3 = 2
  BY <1>1, <1>4 DEF EncodedLen, DecodedLen
<1> QED BY <1>1, <1>2, <1>3, <1>4 DEF q

\* Where the bytes of a group are cut.
LEMMA Cuts ==
    ASSUME NEW a \in Byte, NEW b \in Byte, NEW c \in Byte,
           NEW n, n = a * 65536 + b * 256 + c
    PROVE  /\ SextetOf(n, 0) = a \div 4
           /\ SextetOf(n, 1) = 16 * (a % 4) + (b \div 16)
           /\ SextetOf(n, 2) = 4 * (b % 16) + (c \div 64)
           /\ SextetOf(n, 3) = c % 64
<1>1. /\ SextetOf(n, 0) = n \div 262144
      /\ SextetOf(n, 1) = (n \div 4096) % 64
      /\ SextetOf(n, 2) = (n \div 64) % 64
      /\ SextetOf(n, 3) = n % 64
  BY DEF SextetOf
<1> DEFINE ah == a \div 4    al == a % 4
           bh == b \div 16   bl == b % 16
           ch == c \div 64   cl == c % 64
<1>2. /\ a = 4*ah + al /\ ah \in 0 .. 63 /\ al \in 0 .. 3
      /\ b = 16*bh + bl /\ bh \in 0 .. 15 /\ bl \in 0 .. 15
      /\ c = 64*ch + cl /\ ch \in 0 .. 3 /\ cl \in 0 .. 63
  BY DEF Byte
<1> HIDE DEF ah, al, bh, bl, ch, cl
<1>3. n = 262144*ah + 65536*al + 4096*bh + 256*bl + 64*ch + cl
  BY <1>2
<1>4. n \div 262144 = ah
  BY <1>2, <1>3
<1>5. n \div 4096 = 64*ah + 16*al + bh
  BY <1>2, <1>3
<1>6. n \div 64 = 4096*ah + 1024*al + 64*bh + 4*bl + ch
  BY <1>2, <1>3
<1>7. /\ SextetOf(n, 0) = ah
      /\ SextetOf(n, 1) = 16*al + bh
      /\ SextetOf(n, 2) = 4*bl + ch
      /\ SextetOf(n, 3) = cl
  BY <1>1, <1>2, <1>3, <1>4, <1>5, <1>6
<1> QED BY <1>7 DEF ah, al, bh, bl, ch, cl

LEMMA Sextets ==
    ASSUME NEW a \in Byte, NEW b \in Byte, NEW c \in Byte,
           NEW n, n = a * 65536 + b * 256 + c
    PROVE  /\ \A r \in 0 .. 3 : SextetOf(n, r) \in Sextet
           /\ (SextetOf(n, 0) * 4 + SextetOf(n, 1) \div 16) % 256 = a
           /\ (SextetOf(n, 1) * 16 + SextetOf(n, 2) \div 4) % 256 = b
           /\ (SextetOf(n, 2) * 64 + SextetOf(n, 3)) % 256 = c
<1> DEFINE ah == a \div 4    al == a % 4
           bh == b \div 16   bl == b % 16
           ch == c \div 64   cl == c % 64
<1>2. /\ a = 4*ah + al /\ ah \in 0 .. 63 /\ al \in 0 .. 3
      /\ b = 16*bh + bl /\ bh \in 0 .. 15 /\ bl \in 0 .. 15
      /\ c = 64*ch + cl /\ ch \in 0 .. 3 /\ cl \in 0 .. 63
  BY DEF Byte
<1>7. /\ SextetOf(n, 0) = ah
      /\ SextetOf(n, 1) = 16*al + bh
      /\ SextetOf(n, 2) = 4*bl + ch
      /\ SextetOf(n, 3) = cl
  BY Cuts
<1> HIDE DEF ah, al, bh, bl, ch, cl
<1>8. \A r \in 0 .. 3 : SextetOf(n, r) \in Sextet
  BY <1>2, <1>7 DEF Sextet
<1>9. (16*al + bh) \div 16 = al /\ (4*bl + ch) \div 4 = bl
  BY <1>2
<1>10. /\ (ah*4 + al) % 256 = a
       /\ ((16*al + bh) * 16 + bl) % 256 = b
       /\ ((4*bl + ch) * 64 + cl) % 256 = c
  BY <1>2
<1> QED BY <1>7, <1>8, <1>9, <1>10

\* The sextet of a place of a text.
SextetAt(data, k) == SextetOf(Group(data, (k - 1) \div 4), (k - 1) % 4)

\* The text of some bytes.
LEMMA Texts ==
    ASSUME NEW data \in Seq(Byte)
    PROVE  /\ Len(Encode(data)) \in Nat
           /\ Len(Encode(data)) = EncodedLen(Len(data))
           /\ \A k \in 1 .. Len(Encode(data)) :
                 /\ Encode(data)[k] \in Alphabet
                 /\ Encode(data)[k] # Padding
                 /\ Value(Encode(data)[k]) = SextetAt(data, k)
<1> DEFINE n == Len(data)
           V(k) == SextetOf(Group(data, (k - 1) \div 4), (k - 1) % 4)
<1>1. n \in Nat /\ EncodedLen(n) \in Nat
  BY Lengths
<1>2. \A i \in Nat \ {0} : At(data, i) \in Byte
  <2>1. 0 \in Byte
    BY DEF Byte
  <2> QED BY <2>1 DEF At
<1>3. ASSUME NEW k \in 1 .. EncodedLen(n)
      PROVE  V(k) \in Sextet
  <2> DEFINE g == (k - 1) \div 4    r == (k - 1) % 4
  <2>1. g \in Nat /\ r \in 0 .. 3
    BY <1>1, <1>3, Fourths
  <2> HIDE DEF g, r
  <2>2. SextetOf(Group(data, g), r) \in Sextet
    BY <1>2, <2>1, Sextets DEF Group
  <2> QED BY <2>2 DEF g, r
<1>4. \A k \in 1 .. EncodedLen(n) : Encode(data)[k] = Char(V(k))
  BY DEF Encode
<1>5. \A k \in 1 .. EncodedLen(n) :
         /\ Char(V(k)) \in Alphabet /\ Char(V(k)) # Padding
         /\ Value(Char(V(k))) = V(k)
  BY <1>3, TableInverse
<1>6. Alphabet \subseteq Nat
  BY DEF Alphabet
<1>7. Encode(data) \in Seq(Nat) /\ Len(Encode(data)) = EncodedLen(n)
  <2> DEFINE f == [k \in 1 .. EncodedLen(n) |-> Char(V(k))]
  <2>1. Encode(data) = f
    BY DEF Encode
  <2>2. \A k \in 1 .. EncodedLen(n) : f[k] \in Nat
    BY <1>5, <1>6
  <2> HIDE DEF f, V
  <2>3. f \in [1 .. EncodedLen(n) -> Nat]
    BY <2>2 DEF f
  <2> QED BY <1>1, <2>1, <2>3
<1>8. \A k \in 1 .. EncodedLen(n) : V(k) = SextetAt(data, k)
  BY DEF SextetAt
<1> HIDE DEF V
<1> QED BY <1>1, <1>4, <1>5, <1>7, <1>8

\* No padding is written, so none is trimmed.
LEMMA NothingTrimmed ==
    ASSUME NEW data \in Seq(Byte)
    PROVE  TrimmedLen(Encode(data)) = Len(Encode(data))
<1> DEFINE text == Encode(data)
           Trims(m) == /\ m > 0 => text[m] # Padding
                       /\ \A i \in m + 1 .. Len(text) : text[i] = Padding
<1>1. Len(text) \in Nat /\ \A k \in 1 .. Len(text) : text[k] # Padding
  BY Texts
<1> HIDE DEF text
<1>2. Trims(Len(text)) /\ Len(text) \in 0 .. Len(text)
  BY <1>1
<1>3. \A m \in 0 .. Len(text) : Trims(m) => m = Len(text)
  BY <1>1
<1>4. TrimmedLen(text) = CHOOSE m \in 0 .. Len(text) : Trims(m)
  BY DEF TrimmedLen
<1> HIDE DEF Trims
<1>5. TrimmedLen(text) = Len(text)
  BY <1>2, <1>3, <1>4
<1> QED BY <1>5 DEF text

\* What oauth.rs encodes it can decode, and it decodes it to what it was: a
\* header, a set of claims or a signature of any length, whatever its last
\* group lacks.
THEOREM ReadsBack == \A data \in Seq(Byte) : RoundTrip(data)
<1> SUFFICES ASSUME NEW data \in Seq(Byte)
             PROVE  RoundTrip(data)
  OBVIOUS
<1> DEFINE n == Len(data)
           text == Encode(data)
           S(g) == [r \in 0 .. 3 |-> SextetOf(Group(data, g), r)]
           s == [i \in 1 .. Len(text) |-> Value(text[i])]
<1> HIDE DEF text, S, s
<1>1. /\ n \in Nat /\ Len(text) = EncodedLen(n) /\ Len(text) \in Nat
      /\ TrimmedLen(text) = Len(text)
      /\ DecodedLen(Len(text)) = n
      /\ Len(text) = 4 * (n \div 3) + <<0, 2, 3>>[(n % 3) + 1]
  <2>1. n \in Nat
    OBVIOUS
  <2>2. Len(text) \in Nat /\ Len(text) = EncodedLen(n)
    BY Texts DEF text
  <2>3. TrimmedLen(text) = Len(text)
    BY NothingTrimmed DEF text
  <2>4. /\ DecodedLen(EncodedLen(n)) = n
        /\ EncodedLen(n) = 4 * (n \div 3) + <<0, 2, 3>>[(n % 3) + 1]
    BY <2>1, Lengths
  <2> HIDE DEF n
  <2> QED BY <2>1, <2>2, <2>3, <2>4
<1>2. Decodable(text)
  <2>1. \A k \in 1 .. Len(text) : text[k] \in Alphabet
    BY Texts DEF text
  <2> QED BY <1>1, <2>1 DEF Decodable
<1>3. /\ Len(s) = Len(text)
      /\ \A k \in 1 .. Len(text) : s[k] = S((k - 1) \div 4)[(k - 1) % 4]
  <2>1. Len(s) = Len(text)
    BY <1>1 DEF s
  <2>2. ASSUME NEW k \in 1 .. Len(text)
        PROVE  s[k] = S((k - 1) \div 4)[(k - 1) % 4]
    <3>1. s[k] = Value(text[k])
      BY DEF s
    <3>2. Value(text[k]) = SextetAt(data, k)
      BY Texts DEF text
    <3>3. (k - 1) % 4 \in 0 .. 3
      BY <1>1, <2>2, Fourths
    <3> QED BY <3>1, <3>2, <3>3 DEF S, SextetAt
  <2> QED BY <2>1, <2>2
<1>4. ASSUME NEW j \in 1 .. n
      PROVE  ByteOf(s, j) = data[j]
  <2> DEFINE g == (j - 1) \div 3    r == (j - 1) % 3
             a == At(data, 3*g + 1)  b == At(data, 3*g + 2)  c == At(data, 3*g + 3)
  <2>1. j = 3*g + r + 1 /\ g \in Nat /\ r \in 0 .. 2
    <3>1. j - 1 \in Nat
      BY <1>1, <1>4
    <3>2. j - 1 = 3 * ((j - 1) \div 3) + ((j - 1) % 3)
      BY <3>1, Thirds
    <3>3. (j - 1) \div 3 \in Nat /\ (j - 1) % 3 \in 0 .. 2
      BY <3>1, Thirds
    <3> QED BY <1>1, <1>4, <3>2, <3>3
  <2>2. n = 3 * (n \div 3) + (n % 3) /\ n \div 3 \in Nat /\ (n % 3) \in 0 .. 2
    BY <1>1, Thirds
  <2> HIDE DEF g, r
  \* The two sextets of the byte are both there.
  <2>3. 4*g + r + 2 <= Len(text)
    <3>1. CASE g < n \div 3
      <4>1. Len(text) >= 4 * (n \div 3)
        BY <1>1, <2>2
      <4> QED BY <1>1, <2>1, <2>2, <3>1, <4>1
    <3>2. CASE g >= n \div 3
      <4>1. g = n \div 3 /\ r < n % 3
        BY <1>1, <1>4, <2>1, <2>2, <3>2
      <4>2. PICK q \in 0 .. 2 : q = n % 3
        BY <2>2
      <4>3. r < q /\ Len(text) = 4*g + <<0, 2, 3>>[q + 1]
        BY <1>1, <4>1, <4>2, Zenon
      <4>4. q = 1 \/ q = 2
        BY <2>1, <4>3
      <4>5. CASE q = 1
        BY <2>1, <4>3, <4>5
      <4>6. CASE q = 2
        BY <2>1, <4>3, <4>6
      <4> QED BY <4>4, <4>5, <4>6
    <3>3. PICK h \in Nat : h = n \div 3
      BY <2>2
    <3> QED BY <2>1, <3>1, <3>2, <3>3
  <2>4. /\ At(s, 4*g + r + 1) = S(g)[r]
        /\ At(s, 4*g + r + 2) = S(g)[r + 1]
    <3>1. /\ 4*g + r + 1 \in 1 .. Len(text) /\ 4*g + r + 2 \in 1 .. Len(text)
          /\ ((4*g + r + 1) - 1) \div 4 = g /\ ((4*g + r + 1) - 1) % 4 = r
          /\ ((4*g + r + 2) - 1) \div 4 = g /\ ((4*g + r + 2) - 1) % 4 = r + 1
      <4>1. /\ (4*g + r) \div 4 = g /\ (4*g + r) % 4 = r
            /\ (4*g + (r + 1)) \div 4 = g /\ (4*g + (r + 1)) % 4 = r + 1
        <5>1. r \in 0 .. 3 /\ r + 1 \in 0 .. 3
          BY <2>1
        <5> QED BY <2>1, <5>1, InFourth
      <4>2. (4*g + r + 1) - 1 = 4*g + r /\ (4*g + r + 2) - 1 = 4*g + (r + 1)
        BY <2>1
      <4>3. 4*g + r + 1 \in 1 .. Len(text) /\ 4*g + r + 2 \in 1 .. Len(text)
        BY <1>1, <2>1, <2>3
      <4> QED BY <4>1, <4>2, <4>3, Zenon
    <3>2. /\ s[4*g + r + 1] = S(g)[r]
          /\ s[4*g + r + 2] = S(g)[r + 1]
      BY <1>3, <3>1
    <3>3. 4*g + r + 1 <= Len(s) /\ 4*g + r + 2 <= Len(s)
      BY <1>3, <3>1
    <3> QED BY <3>2, <3>3 DEF At
  <2>5. a \in Byte /\ b \in Byte /\ c \in Byte
    <3>1. 0 \in Byte
      BY DEF Byte
    <3> QED BY <2>1, <3>1 DEF At
  <2>6. Group(data, g) = a * 65536 + b * 256 + c
    BY DEF Group
  <2> HIDE DEF a, b, c
  <2>7. /\ (S(g)[0] * 4 + S(g)[1] \div 16) % 256 = a
        /\ (S(g)[1] * 16 + S(g)[2] \div 4) % 256 = b
        /\ (S(g)[2] * 64 + S(g)[3]) % 256 = c
    BY <2>5, <2>6, Sextets DEF S
  <2>8. /\ r = 0 => ByteOf(s, j) = (S(g)[0] * 4 + S(g)[1] \div 16) % 256
        /\ r = 1 => ByteOf(s, j) = (S(g)[1] * 16 + S(g)[2] \div 4) % 256
        /\ r = 2 => ByteOf(s, j) = (S(g)[2] * 64 + S(g)[3]) % 256
    <3> DEFINE x == At(s, 4*g + r + 1)    y == At(s, 4*g + r + 2)
    <3>1. /\ r = 0 => ByteOf(s, j) = (x*4 + y \div 16) % 256
          /\ r = 1 => ByteOf(s, j) = (x*16 + y \div 4) % 256
          /\ r = 2 => ByteOf(s, j) = (x*64 + y) % 256
      <4> USE DEF g, r
      <4>1. CASE r = 0
        BY <4>1 DEF ByteOf
      <4>2. CASE r = 1
        BY <4>2 DEF ByteOf
      <4>3. CASE r = 2
        BY <4>3 DEF ByteOf
      <4> HIDE DEF g, r
      <4> QED BY <2>1, <4>1, <4>2, <4>3
    <3>2. x = S(g)[r] /\ y = S(g)[r + 1]
      BY <2>4
    <3> HIDE DEF x, y
    <3> QED BY <2>1, <3>1, <3>2
  <2>9. /\ r = 0 => a = data[j]
        /\ r = 1 => b = data[j]
        /\ r = 2 => c = data[j]
    BY <1>1, <1>4, <2>1 DEF a, b, c, At
  <2> QED BY <2>1, <2>7, <2>8, <2>9
<1>5. Decode(text) = [j \in 1 .. n |-> ByteOf(s, j)]
  BY <1>1, <1>3 DEF Decode, s
<1>6. [j \in 1 .. n |-> ByteOf(s, j)] = data
  BY <1>1, <1>4
<1> QED BY <1>2, <1>5, <1>6 DEF RoundTrip, text

-----------------------------------------------------------------------------
(* The encoding against the bits of RFC 4648.                              *)

\* The bits of a byte.
LEMMA Bits ==
    ASSUME NEW x \in Byte
    PROVE  /\ x \div 4 = 32 * ((x \div 128) % 2) + 16 * ((x \div 64) % 2)
                          + 8 * ((x \div 32) % 2) + 4 * ((x \div 16) % 2)
                          + 2 * ((x \div 8) % 2) + ((x \div 4) % 2)
           /\ x \div 16 = 8 * ((x \div 128) % 2) + 4 * ((x \div 64) % 2)
                          + 2 * ((x \div 32) % 2) + ((x \div 16) % 2)
           /\ x \div 64 = 2 * ((x \div 128) % 2) + ((x \div 64) % 2)
           /\ x % 64 = 32 * ((x \div 32) % 2) + 16 * ((x \div 16) % 2)
                          + 8 * ((x \div 8) % 2) + 4 * ((x \div 4) % 2)
                          + 2 * ((x \div 2) % 2) + ((x \div 1) % 2)
           /\ x % 16 = 8 * ((x \div 8) % 2) + 4 * ((x \div 4) % 2)
                          + 2 * ((x \div 2) % 2) + ((x \div 1) % 2)
           /\ x % 4 = 2 * ((x \div 2) % 2) + ((x \div 1) % 2)
<1> DEFINE h1 == x \div 2     h2 == x \div 4     h3 == x \div 8     h4 == x \div 16
           h5 == x \div 32    h6 == x \div 64    h7 == x \div 128
<1>1. x \in 0 .. 255 /\ x \div 1 = x
  BY DEF Byte
<1>2. /\ h1 \in 0 .. 127 /\ h2 \in 0 .. 63 /\ h3 \in 0 .. 31 /\ h4 \in 0 .. 15
      /\ h5 \in 0 .. 7 /\ h6 \in 0 .. 3 /\ h7 \in 0 .. 1
  BY <1>1
<1>3. x = 2*h1 + (x % 2) /\ h1 = 2*h2 + (h1 % 2) /\ h2 = 2*h3 + (h2 % 2)
  BY <1>1
<1>4. h3 = 2*h4 + (h3 % 2) /\ h4 = 2*h5 + (h4 % 2)
  BY <1>1
<1>5. h5 = 2*h6 + (h5 % 2) /\ h6 = 2*h7 + (h6 % 2) /\ h7 % 2 = h7
  BY <1>1
<1>6. x = 64*h6 + (x % 64) /\ x = 16*h4 + (x % 16) /\ x = 4*h2 + (x % 4)
  BY <1>1
<1>7. x % 64 \in Int /\ x % 16 \in Int /\ x % 4 \in Int
  BY <1>1
<1> DEFINE b0 == h7 % 2  b1 == h6 % 2  b2 == h5 % 2  b3 == h4 % 2
           b4 == h3 % 2  b5 == h2 % 2  b6 == h1 % 2  b7 == x % 2
           m64 == x % 64   m16 == x % 16   m4 == x % 4
<1>8. /\ b0 \in Int /\ b1 \in Int /\ b2 \in Int /\ b3 \in Int
      /\ b4 \in Int /\ b5 \in Int /\ b6 \in Int /\ b7 \in Int
  BY <1>1, <1>2
<1> HIDE DEF h1, h2, h3, h4, h5, h6, h7, b0, b1, b2, b3, b4, b5, b6, b7, m64, m16, m4
<1>9. /\ x = 2*h1 + b7 /\ h1 = 2*h2 + b6 /\ h2 = 2*h3 + b5 /\ h3 = 2*h4 + b4
      /\ h4 = 2*h5 + b3 /\ h5 = 2*h6 + b2 /\ h6 = 2*h7 + b1 /\ b0 = h7
      /\ x = 64*h6 + m64 /\ x = 16*h4 + m16 /\ x = 4*h2 + m4
      /\ m64 \in Int /\ m16 \in Int /\ m4 \in Int
  BY <1>3, <1>4, <1>5, <1>6, <1>7 DEF b0, b1, b2, b3, b4, b5, b6, b7, m64, m16, m4
<1>10. /\ h2 = 32*b0 + 16*b1 + 8*b2 + 4*b3 + 2*b4 + b5
       /\ h4 = 8*b0 + 4*b1 + 2*b2 + b3
       /\ h6 = 2*b0 + b1
       /\ m64 = 32*b2 + 16*b3 + 8*b4 + 4*b5 + 2*b6 + b7
       /\ m16 = 8*b4 + 4*b5 + 2*b6 + b7
       /\ m4 = 2*b6 + b7
  BY <1>1, <1>2, <1>8, <1>9
<1> QED
  BY <1>1, <1>10
  DEF h1, h2, h3, h4, h5, h6, h7, b0, b1, b2, b3, b4, b5, b6, b7, m64, m16, m4

LEMMA BitTypes ==
    ASSUME NEW x \in Byte
    PROVE  /\ (x \div 128) % 2 \in Int /\ (x \div 64) % 2 \in Int
           /\ (x \div 32) % 2 \in Int /\ (x \div 16) % 2 \in Int
           /\ (x \div 8) % 2 \in Int /\ (x \div 4) % 2 \in Int
           /\ (x \div 2) % 2 \in Int /\ (x \div 1) % 2 \in Int
<1>1. \A y \in Int : (y % 2) \in Int
  OBVIOUS
<1>2. x \in Int
  BY DEF Byte
<1>3. /\ x \div 128 \in Int /\ x \div 64 \in Int /\ x \div 32 \in Int /\ x \div 16 \in Int
      /\ x \div 8 \in Int /\ x \div 4 \in Int /\ x \div 2 \in Int /\ x \div 1 \in Int
  BY <1>2
<1> QED
  BY <1>1, <1>3

\* The bits of a group of three bytes.
LEMMA BitOfGroup ==
    ASSUME NEW data, NEW g \in Nat, NEW m \in 0 .. 23
    PROVE  Bit(data, 24*g + m) =
             (At(data, 3*g + (m \div 8) + 1) \div <<128, 64, 32, 16, 8, 4, 2, 1>>[(m % 8) + 1]) % 2
<1>1. ((24*g + m) \div 8) + 1 = 3*g + (m \div 8) + 1 /\ (24*g + m) % 8 = m % 8
  OBVIOUS
<1> QED
  BY <1>1 DEF Bit

\* Every sextet of a group is the six bits of its place.
LEMMA SextetIsBits ==
    ASSUME NEW data \in Seq(Byte), NEW g \in Nat, NEW r \in 0 .. 3
    PROVE  SextetOf(Group(data, g), r) = SextetByBits(data, 4*g + r)
<1> DEFINE a == At(data, 3*g + 1)  b == At(data, 3*g + 2)  c == At(data, 3*g + 3)
           B(m) == Bit(data, 24*g + m)
<1>1. a \in Byte /\ b \in Byte /\ c \in Byte
  <2>1. 0 \in Byte
    BY DEF Byte
  <2> QED BY <2>1 DEF At
<1>2. Group(data, g) = a * 65536 + b * 256 + c
  BY DEF Group
<1>3. /\ B(0) = (a \div 128) % 2 /\ B(1) = (a \div 64) % 2
      /\ B(2) = (a \div 32) % 2 /\ B(3) = (a \div 16) % 2
      /\ B(4) = (a \div 8) % 2 /\ B(5) = (a \div 4) % 2
      /\ B(6) = (a \div 2) % 2 /\ B(7) = (a \div 1) % 2
  BY BitOfGroup
<1>4. /\ B(8) = (b \div 128) % 2 /\ B(9) = (b \div 64) % 2
      /\ B(10) = (b \div 32) % 2 /\ B(11) = (b \div 16) % 2
      /\ B(12) = (b \div 8) % 2 /\ B(13) = (b \div 4) % 2
      /\ B(14) = (b \div 2) % 2 /\ B(15) = (b \div 1) % 2
  BY BitOfGroup
<1>5. /\ B(16) = (c \div 128) % 2 /\ B(17) = (c \div 64) % 2
      /\ B(18) = (c \div 32) % 2 /\ B(19) = (c \div 16) % 2
      /\ B(20) = (c \div 8) % 2 /\ B(21) = (c \div 4) % 2
      /\ B(22) = (c \div 2) % 2 /\ B(23) = (c \div 1) % 2
  BY BitOfGroup
<1>6. SextetByBits(data, 4*g + r) =
        32 * B(6*r) + 16 * B(6*r + 1) + 8 * B(6*r + 2)
          + 4 * B(6*r + 3) + 2 * B(6*r + 4) + B(6*r + 5)
  <2>1. /\ 6 * (4*g + r) = 24*g + 6*r
        /\ 24*g + 6*r + 1 = 24*g + (6*r + 1) /\ 24*g + 6*r + 2 = 24*g + (6*r + 2)
        /\ 24*g + 6*r + 3 = 24*g + (6*r + 3) /\ 24*g + 6*r + 4 = 24*g + (6*r + 4)
        /\ 24*g + 6*r + 5 = 24*g + (6*r + 5)
    OBVIOUS
  <2> QED
    BY <2>1 DEF SextetByBits
<1> HIDE DEF a, b, c, B
<1>t. /\ \A m \in {6, 7} : B(m) \in Int
      /\ \A m \in {8, 9, 10, 11, 12, 13, 14, 15} : B(m) \in Int
      /\ \A m \in {16, 17} : B(m) \in Int
  <2>1. B(6) \in Int /\ B(7) \in Int
    BY <1>1, <1>3, BitTypes
  <2>2. /\ B(8) \in Int /\ B(9) \in Int /\ B(10) \in Int /\ B(11) \in Int
        /\ B(12) \in Int /\ B(13) \in Int /\ B(14) \in Int /\ B(15) \in Int
    BY <1>1, <1>4, BitTypes
  <2>3. B(16) \in Int /\ B(17) \in Int
    BY <1>1, <1>5, BitTypes
  <2> QED
    BY <2>1, <2>2, <2>3
<1>7. CASE r = 0
  <2>1. SextetByBits(data, 4*g + r) =
          32 * B(0) + 16 * B(1) + 8 * B(2) + 4 * B(3) + 2 * B(4) + B(5)
    BY <1>6, <1>7
  <2> QED
    BY <1>1, <1>2, <1>3, <1>7, <2>1, Cuts, Bits
<1>8. CASE r = 1
  <2>1. SextetByBits(data, 4*g + r) =
          32 * B(6) + 16 * B(7) + 8 * B(8) + 4 * B(9) + 2 * B(10) + B(11)
    BY <1>6, <1>8
  <2>2. a % 4 = 2 * B(6) + B(7) /\ b \div 16 = 8 * B(8) + 4 * B(9) + 2 * B(10) + B(11)
    BY <1>1, <1>3, <1>4, Bits
  <2>3. SextetOf(Group(data, g), 1) = 16 * (a % 4) + (b \div 16)
    BY <1>1, <1>2, Cuts
  <2>4. 16 * (2 * B(6) + B(7)) + (8 * B(8) + 4 * B(9) + 2 * B(10) + B(11))
          = 32 * B(6) + 16 * B(7) + 8 * B(8) + 4 * B(9) + 2 * B(10) + B(11)
    <3>1. PICK p \in Int : p = B(6)
      BY <1>t
    <3>2. PICK q \in Int : q = B(7)
      BY <1>t
    <3>3. PICK u \in Int : u = B(8)
      BY <1>t
    <3>4. PICK v \in Int : v = B(9)
      BY <1>t
    <3>5. PICK x \in Int : x = B(10)
      BY <1>t
    <3>6. PICK y \in Int : y = B(11)
      BY <1>t
    <3>7. 16 * (2*p + q) + (8*u + 4*v + 2*x + y) = 32*p + 16*q + 8*u + 4*v + 2*x + y
      OBVIOUS
    <3> QED
      BY <3>1, <3>2, <3>3, <3>4, <3>5, <3>6, <3>7, Zenon
  <2>5. SextetOf(Group(data, g), 1)
          = 16 * (2 * B(6) + B(7)) + (8 * B(8) + 4 * B(9) + 2 * B(10) + B(11))
    BY <2>2, <2>3
  <2>6. SextetOf(Group(data, g), 1) = SextetByBits(data, 4*g + r)
    BY <2>1, <2>4, <2>5
  <2> QED
    BY <1>8, <2>6
<1>9. CASE r = 2
  <2>1. SextetByBits(data, 4*g + r) =
          32 * B(12) + 16 * B(13) + 8 * B(14) + 4 * B(15) + 2 * B(16) + B(17)
    BY <1>6, <1>9
  <2>2. b % 16 = 8 * B(12) + 4 * B(13) + 2 * B(14) + B(15) /\ c \div 64 = 2 * B(16) + B(17)
    BY <1>1, <1>4, <1>5, Bits
  <2>3. SextetOf(Group(data, g), 2) = 4 * (b % 16) + (c \div 64)
    BY <1>1, <1>2, Cuts
  <2>4. 4 * (8 * B(12) + 4 * B(13) + 2 * B(14) + B(15)) + (2 * B(16) + B(17))
          = 32 * B(12) + 16 * B(13) + 8 * B(14) + 4 * B(15) + 2 * B(16) + B(17)
    <3>1. PICK p \in Int : p = B(12)
      BY <1>t
    <3>2. PICK q \in Int : q = B(13)
      BY <1>t
    <3>3. PICK u \in Int : u = B(14)
      BY <1>t
    <3>4. PICK v \in Int : v = B(15)
      BY <1>t
    <3>5. PICK x \in Int : x = B(16)
      BY <1>t
    <3>6. PICK y \in Int : y = B(17)
      BY <1>t
    <3>7. 4 * (8*p + 4*q + 2*u + v) + (2*x + y) = 32*p + 16*q + 8*u + 4*v + 2*x + y
      OBVIOUS
    <3> QED
      BY <3>1, <3>2, <3>3, <3>4, <3>5, <3>6, <3>7, Zenon
  <2>5. SextetOf(Group(data, g), 2)
          = 4 * (8 * B(12) + 4 * B(13) + 2 * B(14) + B(15)) + (2 * B(16) + B(17))
    BY <2>2, <2>3
  <2>6. SextetOf(Group(data, g), 2) = SextetByBits(data, 4*g + r)
    BY <2>1, <2>4, <2>5
  <2> QED
    BY <1>9, <2>6
<1>10. CASE r = 3
  <2>1. SextetByBits(data, 4*g + r) =
          32 * B(18) + 16 * B(19) + 8 * B(20) + 4 * B(21) + 2 * B(22) + B(23)
    BY <1>6, <1>10
  <2> QED
    BY <1>1, <1>2, <1>5, <1>10, <2>1, Cuts, Bits
<1> QED
  BY <1>7, <1>8, <1>9, <1>10

\* What oauth.rs writes is base64url as RFC 4648 defines it, bit by bit and
\* without padding, for bytes of any number.
THEOREM WritesBase64url == \A data \in Seq(Byte) : EncodesBits(data)
<1> SUFFICES ASSUME NEW data \in Seq(Byte)
             PROVE  EncodesBits(data)
  OBVIOUS
<1> DEFINE n == Len(data)
           text == Encode(data)
<1>1. /\ n \in Nat /\ Len(text) \in Nat /\ Len(text) = EncodedLen(n)
      /\ \A k \in 1 .. Len(text) : Value(text[k]) = SextetAt(data, k)
  BY Texts
<1>2. DOMAIN text = 1 .. Len(text)
  BY <1>1 DEF Encode
<1> HIDE DEF n, text
<1>3. 6 * Len(text) \in 8 * n .. 8 * n + 5
  BY <1>1 DEF EncodedLen
<1>4. ASSUME NEW k \in 1 .. Len(text)
      PROVE  SextetAt(data, k) = SextetByBits(data, k - 1)
  <2> DEFINE g == (k - 1) \div 4    r == (k - 1) % 4
  <2>1. k - 1 = 4*g + r /\ g \in Nat /\ r \in 0 .. 3
    BY <1>1, <1>4, Fourths
  <2> HIDE DEF g, r
  <2>2. SextetOf(Group(data, g), r) = SextetByBits(data, 4*g + r)
    BY <2>1, SextetIsBits
  <2> QED
    BY <2>1, <2>2 DEF SextetAt, g, r
<1> QED
  BY <1>1, <1>2, <1>3, <1>4 DEF EncodesBits, n, text

-----------------------------------------------------------------------------

\* verify_signature compares the texts of two signatures: they are equal
\* exactly when the signatures are.
THEOREM TextsTellApart ==
    \A c, d \in Seq(Byte) : Encode(c) = Encode(d) <=> c = d
  BY ReadsBack DEF RoundTrip
=============================================================================
