-------------------------------- MODULE Codec --------------------------------
(***************************************************************************)
(* base64url as oauth.rs writes and reads it: base64url_encode and         *)
(* base64url_decode with the two functions they call.  The parts of a      *)
(* token are read with the one, and a signature is checked by comparing    *)
(* what the other makes of the expected one with what the token has.       *)
(*                                                                         *)
(* A text is the sequence of its bytes.  Texts with a newline, which the   *)
(* code drops before it decodes, are left out.                             *)
(***************************************************************************)
EXTENDS Integers, Sequences

Byte == 0 .. 255
Sextet == 0 .. 63

Padding == 61           \* '='

\* The character of a sextet: the table of base64_encode, after the two
\* replacements of base64url_encode.
Char(v) ==
    CASE v \in 0 .. 25  -> v + 65       \* 'A' .. 'Z'
      [] v \in 26 .. 51 -> v + 71       \* 'a' .. 'z'
      [] v \in 52 .. 61 -> v - 4        \* '0' .. '9'
      [] v = 62         -> 45           \* '-'
      [] v = 63         -> 95           \* '_'

\* What decode_char reads, after the two replacements of base64url_decode:
\* the characters of both alphabets.
Alphabet == (65 .. 90) \cup (97 .. 122) \cup (48 .. 57) \cup {43, 45, 47, 95}

Value(c) ==
    CASE c \in 65 .. 90  -> c - 65
      [] c \in 97 .. 122 -> c - 71
      [] c \in 48 .. 57  -> c + 4
      [] c \in {43, 45}  -> 62
      [] c \in {47, 95}  -> 63

\* The item at a place, 0 behind the end.
At(s, i) == IF i <= Len(s) THEN s[i] ELSE 0

\* Three bytes are four sextets; the bytes that the last group lacks are 0,
\* and the sextets that come from nothing else are padding, which is trimmed.
Group(data, g) ==
    At(data, 3*g + 1) * 65536 + At(data, 3*g + 2) * 256 + At(data, 3*g + 3)

SextetOf(n, r) ==
    CASE r = 0 -> n \div 262144
      [] r = 1 -> (n \div 4096) % 64
      [] r = 2 -> (n \div 64) % 64
      [] r = 3 -> n % 64

EncodedLen(n) == (4*n + 2) \div 3

Encode(data) ==
    [k \in 1 .. EncodedLen(Len(data)) |->
        Char(SextetOf(Group(data, (k - 1) \div 4), (k - 1) % 4))]

\* Four sextets are three bytes, and a byte is made of two neighbours; a
\* lone sextet at the end still makes a byte.
ByteOf(s, j) ==
    LET g == (j - 1) \div 3
        r == (j - 1) % 3
        a == At(s, 4*g + r + 1)
        b == At(s, 4*g + r + 2)
    IN  CASE r = 0 -> (a*4 + b \div 16) % 256
          [] r = 1 -> (a*16 + b \div 4) % 256
          [] r = 2 -> (a*64 + b) % 256

DecodedLen(m) == 3 * (m \div 4) + <<0, 1, 1, 2>>[(m % 4) + 1]

\* The padding at the end, the token's own or what base64url_decode adds.
TrimmedLen(text) ==
    CHOOSE m \in 0 .. Len(text) :
        /\ m > 0 => text[m] # Padding
        /\ \A i \in m + 1 .. Len(text) : text[i] = Padding

Decodable(text) == \A i \in 1 .. TrimmedLen(text) : text[i] \in Alphabet

\* The bytes of a decodable text.
Decode(text) ==
    LET s == [i \in 1 .. TrimmedLen(text) |-> Value(text[i])]
    IN  [j \in 1 .. DecodedLen(Len(s)) |-> ByteOf(s, j)]

-----------------------------------------------------------------------------
(* What the codec is held against.                                         *)

\* RFC 4648 by its bits: bit i of the data, counted from the front.
Bit(data, i) ==
    (At(data, (i \div 8) + 1) \div <<128, 64, 32, 16, 8, 4, 2, 1>>[(i % 8) + 1]) % 2

SextetByBits(data, k) ==
    32 * Bit(data, 6*k) + 16 * Bit(data, 6*k + 1) + 8 * Bit(data, 6*k + 2)
        + 4 * Bit(data, 6*k + 3) + 2 * Bit(data, 6*k + 4) + Bit(data, 6*k + 5)

\* Every character stands for six bits of the data, and there are as many as
\* it takes.
EncodesBits(data) ==
    /\ 6 * Len(Encode(data)) \in 8 * Len(data) .. 8 * Len(data) + 5
    /\ \A k \in DOMAIN Encode(data) : Value(Encode(data)[k]) = SextetByBits(data, k - 1)

\* What was encoded is decoded to itself.
RoundTrip(data) == Decodable(Encode(data)) /\ Decode(Encode(data)) = data
=============================================================================
