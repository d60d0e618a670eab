------------------------------- MODULE QRFormat ------------------------------
(***************************************************************************)
(* The two words that a QR code repeats: the format (level and mask) and   *)
(* the version, as MatrixUtil.cpp computes them and FormatInformation and  *)
(* Version read them back from a damaged code.  A word is a sequence of    *)
(* bits, the most significant one first.                                   *)
(***************************************************************************)
EXTENDS Integers, SequencesExt

\* BitArray::appendBits, BitSource::readBits.
BitsOf(value, n) == [i \in 1 .. n |-> (value \div 2 ^ (n - i)) % 2]

Value(bits) == FoldLeft(LAMBDA v, bit : 2 * v + bit, 0, bits)

\* Bytes as bits, and the whole bytes of some bits.
BitsOfBytes(bytes) ==
    [i \in 1 .. 8 * Len(bytes) |-> (bytes[(i + 7) \div 8] \div 2 ^ ((0 - i) % 8)) % 2]
BytesOf(bits) ==
    [i \in 1 .. Len(bits) \div 8 |-> Value([j \in 1 .. 8 |-> bits[8 * (i - 1) + j]])]

\* Eight bits hold a byte.
ASSUME ByteOfBits ==
    \A byte \in 0 .. 255 :
        BitsOf(byte, 8) \in [1 .. 8 -> {0, 1}] /\ Value(BitsOf(byte, 8)) = byte

XorBits(a, b) == [i \in DOMAIN a |-> (a[i] + b[i]) % 2]

NumBitsDiffering(a, b) == Cardinality({i \in DOMAIN a : a[i] # b[i]})

\* calculateBCHCode(): the remainder of the value, shifted, by the polynomial.
DivisionStep(bits, poly) ==
    Tail(IF Head(bits) = 0 THEN bits
         ELSE [i \in DOMAIN bits |->
                 IF i \in DOMAIN poly THEN (bits[i] + poly[i]) % 2 ELSE bits[i]])
Remainder(bits, poly) ==
    FoldLeft(LAMBDA rest, i : DivisionStep(rest, poly), bits,
             [i \in 1 .. Len(bits) - Len(poly) + 1 |-> i])

CalculateBCHCode(bits, poly) == Remainder(bits \o [i \in 1 .. Len(poly) - 1 |-> 0], poly)

-----------------------------------------------------------------------------
(* What the encoder writes.                                                *)

TYPE_INFO_POLY == BitsOf(1335, 11)
TYPE_INFO_MASK_PATTERN == BitsOf(21522, 15)
VERSION_INFO_POLY == BitsOf(7973, 13)

Formats == 0 .. 31      \* two bits of the level, three of the mask

MakeTypeInfoBits(format) ==
    LET bits == BitsOf(format, 5)
    IN XorBits(bits \o CalculateBCHCode(bits, TYPE_INFO_POLY), TYPE_INFO_MASK_PATTERN)

MakeVersionInfoBits(version) ==
    LET bits == BitsOf(version, 6)
    IN bits \o CalculateBCHCode(bits, VERSION_INFO_POLY)

-----------------------------------------------------------------------------
(* What the decoder reads.  Its tables hold the words that the encoder     *)
(* computes; the assumptions say so.                                       *)

FORMAT_INFO_DECODE_LOOKUP ==
    <<21522, 20773, 24188, 23371, 17913, 16590, 20375, 19104, 30660, 29427, 32170,
      30877, 26159, 25368, 27713, 26998, 5769, 5054, 7399, 6608, 1890, 597, 3340,
      2107, 13663, 12392, 16177, 14854, 9396, 8579, 11994, 11245>>

VERSION_DECODE_INFO ==
    <<31892, 34236, 39577, 42195, 48118, 51042, 55367, 58893, 63784, 68472, 70749,
      76311, 79154, 84390, 87683, 92361, 96236, 102084, 102881, 110507, 110734,
      117786, 119615, 126325, 127568, 133589, 136944, 141498, 145311, 150283, 152622,
      158308, 161089, 167017>>

ASSUME SameFormats ==
    \A f \in Formats : MakeTypeInfoBits(f) = BitsOf(FORMAT_INFO_DECODE_LOOKUP[f + 1], 15)
ASSUME SameVersions ==
    \A v \in 7 .. 40 : MakeVersionInfoBits(v) = BitsOf(VERSION_DECODE_INFO[v - 6], 18)

formatWord == [f \in Formats |-> BitsOf(FORMAT_INFO_DECODE_LOOKUP[f + 1], 15)]
versionWord == [v \in 7 .. 40 |-> BitsOf(VERSION_DECODE_INFO[v - 6], 18)]

\* The distance of the codes: more than twice the errors that are to be corrected.
ASSUME WordsApart ==
    /\ \A f, g \in Formats :
          f # g => NumBitsDiffering(formatWord[f], formatWord[g]) >= 7
    /\ \A v, w \in 7 .. 40 :
          v # w => NumBitsDiffering(versionWord[v], versionWord[w]) >= 7

\* Of the words that have the least distance the first, if it is near enough.
Nearest(distance) ==
    LET nearest(w) == \A u \in DOMAIN distance :
                          \/ distance[w] < distance[u]
                          \/ distance[w] = distance[u] /\ w <= u
    IN {w \in DOMAIN distance : nearest(w) /\ distance[w] <= 3}

Lesser(a, b) == IF a < b THEN a ELSE b

\* doDecodeFormatInformation(): of the two copies, the one that is nearer counts.
DoDecodeFormat(bits1, bits2) ==
    Nearest([f \in Formats |-> Lesser(NumBitsDiffering(bits1, formatWord[f]),
                                      NumBitsDiffering(bits2, formatWord[f]))])

\* decodeFormatInformation(): a code that did not mask the word is tried, too.
DecodeFormatInformation(bits1, bits2) ==
    LET found == DoDecodeFormat(bits1, bits2)
    IN IF found # {} THEN found
       ELSE DoDecodeFormat(XorBits(bits1, TYPE_INFO_MASK_PATTERN),
                           XorBits(bits2, TYPE_INFO_MASK_PATTERN))

DecodeVersionInformation(bits) ==
    Nearest([v \in 7 .. 40 |-> NumBitsDiffering(bits, versionWord[v])])
=============================================================================
