-------------------------------- MODULE QRCode -------------------------------
(***************************************************************************)
(* QR codes as the applications make and read them: Encoder.cpp, which the *)
(* administrator's pages use to show the codes of members and settings,    *)
(* and Decoder.cpp with the parts it calls, which reads what the camera    *)
(* has seen.  A text is a sequence of ASCII codes.                         *)
(***************************************************************************)
EXTENDS ReedSolomon, QRMatrix, QRBlocks

-----------------------------------------------------------------------------
(* Modes.                                                                  *)

NUMERIC == 1   ALPHANUMERIC == 2   BYTE == 4   TERMINATOR == 0

CharacterCountBits(mode, version) ==
    LET i == IF version <= 9 THEN 1 ELSE IF version <= 26 THEN 2 ELSE 3
    IN CASE mode = NUMERIC -> <<10, 12, 14>>[i]
         [] mode = ALPHANUMERIC -> <<9, 11, 13>>[i]
         [] mode = BYTE -> <<8, 16, 16>>[i]

\* 0-9, A-Z, and the blank and $%*+-./:
ALPHANUMERIC_CHARS ==
    [i \in 1 .. 10 |-> 47 + i] \o [i \in 1 .. 26 |-> 64 + i]
        \o <<32, 36, 37, 42, 43, 45, 46, 47, 58>>
AlphanumericCode(c) == CHOOSE i \in 0 .. 44 : ALPHANUMERIC_CHARS[i + 1] = c

Digits == 48 .. 57
ChooseMode(text) ==
    IF text = <<>> \/ ~ Range(text) \subseteq Range(ALPHANUMERIC_CHARS) THEN BYTE
    ELSE IF Range(text) \subseteq Digits THEN NUMERIC
    ELSE ALPHANUMERIC

-----------------------------------------------------------------------------
(* Encoder.                                                                *)

\* The text in pieces of n characters, and what is left over.
Pieces(text, n) ==
    [i \in 1 .. (Len(text) + n - 1) \div n |->
        SubSeq(text, n * (i - 1) + 1, Lesser(n * i, Len(text)))]

NumericBits(piece) ==
    BitsOf(FoldLeft(LAMBDA v, c : 10 * v + (c - 48), 0, piece), 3 * Len(piece) + 1)
AlphanumericBits(piece) ==
    BitsOf(FoldLeft(LAMBDA v, c : 45 * v + AlphanumericCode(c), 0, piece),
           IF Len(piece) = 2 THEN 11 ELSE 6)

AppendBytes(text, mode) ==
    LET Bits(pieces, Of(_)) == FlattenSeq([i \in DOMAIN pieces |-> Of(pieces[i])])
    IN CASE mode = NUMERIC -> Bits(Pieces(text, 3), NumericBits)
         [] mode = ALPHANUMERIC -> Bits(Pieces(text, 2), AlphanumericBits)
         [] mode = BYTE -> BitsOfBytes(text)

WillFit(numInputBits, version, level) ==
    NumDataBytes(version, level) >= (numInputBits + 7) \div 8

\* chooseVersion(): none for "Data too big".
ChooseVersion(numInputBits, level) ==
    {v \in 1 .. 40 : /\ WillFit(numInputBits, v, level)
                     /\ \A w \in 1 .. v - 1 : ~ WillFit(numInputBits, w, level)}

CalculateBitsNeeded(mode, dataBits, version) ==
    4 + CharacterCountBits(mode, version) + dataBits

RecommendVersion(level, mode, dataBits) ==
    UNION {ChooseVersion(CalculateBitsNeeded(mode, dataBits, provisional), level) :
              provisional \in ChooseVersion(CalculateBitsNeeded(mode, dataBits, 1), level)}

Lengths(text, mode, dataBits) == IF mode = BYTE THEN (dataBits + 7) \div 8 ELSE Len(text)

\* Up to four zeros, zeros up to a whole byte, and the two bytes that fill.
TerminateBits(numDataBytes, bits) ==
    LET ended == bits \o [i \in 1 .. Lesser(4, 8 * numDataBytes - Len(bits)) |-> 0]
        whole == ended \o [i \in 1 .. (8 - (Len(ended) % 8)) % 8 |-> 0]
    IN whole \o BitsOfBytes([i \in 1 .. numDataBytes - (Len(whole) \div 8) |->
                                IF i % 2 = 1 THEN 236 ELSE 17])

InterleaveWithECBytes(bytes, version, level) ==
    LET data == DivideBytes(bytes, DataBytesOfBlocks(version, level))
        generator == BuildGenerator(ECBytesOfBlock(version, level))
        ec == FoldLeft(LAMBDA done, block : Append(done, ECBytes(block, generator)),
                       <<>>, data)
    IN InterleaveBlocks(data, ec)

\* Mode, number of characters, and the characters.
HeaderAndData(text, version) ==
    LET mode == ChooseMode(text)
        data == AppendBytes(text, mode)
    IN BitsOf(mode, 4)
           \o BitsOf(Lengths(text, mode, Len(data)), CharacterCountBits(mode, version))
           \o data

Codewords(text, version, level) ==
    InterleaveWithECBytes(
        BytesOf(TerminateBits(NumDataBytes(version, level), HeaderAndData(text, version))),
        version, level)

\* What stands in the code: none for "Data too big".
Contents(text, level) ==
    LET mode == ChooseMode(text)
    IN {[version |-> version, codewords |-> Codewords(text, version, level)] :
           version \in RecommendVersion(level, mode, Len(AppendBytes(text, mode)))}

\* encode(): the code in a set, or the empty set for an exception.
Encode(text, level) ==
    {[version |-> c.version, dimension |-> DimensionForVersion(c.version)]
         @@ BuildMatrix(BitsOfBytes(c.codewords), level, c.version) :
       c \in Contents(text, level)}

-----------------------------------------------------------------------------
(* Decoder.                                                                *)

\* The text of a segment, or none: a value out of range is an exception.
DecodeNumeric(piece) ==
    LET digits == (Len(piece) - 1) \div 3
        v == Value(piece)
    IN IF v >= 10 ^ digits THEN {}
       ELSE {[i \in 1 .. digits |-> 48 + ((v \div 10 ^ (digits - i)) % 10)]}

DecodeAlphanumeric(piece) ==
    LET v == Value(piece)
        n == IF Len(piece) = 11 THEN 2 ELSE 1
    IN IF v >= 45 ^ n THEN {}
       ELSE {[i \in 1 .. n |-> ALPHANUMERIC_CHARS[((v \div 45 ^ (n - i)) % 45) + 1]]}

\* How many bits the next characters take, and how many characters they are.
NextBits(mode, count) ==
    CASE mode = NUMERIC -> IF count >= 3 THEN <<10, 3>> ELSE <<3 * count + 1, count>>
      [] mode = ALPHANUMERIC -> IF count >= 2 THEN <<11, 2>> ELSE <<6, 1>>
      [] mode = BYTE -> <<8, 1>>

DecodePiece(mode, piece) ==
    CASE mode = NUMERIC -> DecodeNumeric(piece)
      [] mode = ALPHANUMERIC -> DecodeAlphanumeric(piece)
      [] mode = BYTE -> {<<Value(piece)>>}

Rest(bits, n) == SubSeq(bits, n + 1, Len(bits))

RECURSIVE DecodeSegment(_, _, _, _, _), DecodeBits(_, _, _)
DecodeSegment(bits, mode, count, version, text) ==
    LET next == NextBits(mode, count)
        piece == DecodePiece(mode, SubSeq(bits, 1, next[1]))
    IN IF count = 0 THEN DecodeBits(bits, version, text)
       ELSE IF Len(bits) < next[1] \/ piece = {} THEN {}
       ELSE DecodeSegment(Rest(bits, next[1]), mode, count - next[2], version,
                          text \o CHOOSE p \in piece : TRUE)

\* decode(), until the terminator or the end.  Segments of other modes, which the
\* encoder does not write, are not modelled.
DecodeBits(bits, version, text) ==
    LET mode == IF Len(bits) < 4 THEN TERMINATOR ELSE Value(SubSeq(bits, 1, 4))
        n == CharacterCountBits(mode, version)
    IN IF mode = TERMINATOR THEN {text}
       ELSE IF mode \notin {NUMERIC, ALPHANUMERIC, BYTE} \/ Len(bits) < 4 + n THEN {}
       ELSE DecodeSegment(Rest(bits, 4 + n), mode, Value(SubSeq(bits, 5, 4 + n)),
                          version, text)

CorrectErrors(block) ==
    {SubSeq(corrected, 1, block.data) :
        corrected \in RSDecode(block.codewords, Len(block.codewords) - block.data)}

DecodeCodewords(raw, version, level) ==
    LET data == FoldLeft(LAMBDA done, block :
                             {d \o c : d \in done, c \in CorrectErrors(block)},
                         {<<>>}, GetDataBlocks(raw, version, level))
    IN UNION {DecodeBits(BitsOfBytes(bytes), version, <<>>) : bytes \in data}

\* decode(): the text in a set, or the empty set for an exception.
Decode(symbol) ==
    UNION {DecodeCodewords(ReadCodewords(symbol.modules, version, format % 8), version,
                           LevelForBits(format \div 8)) :
              version \in ReadVersion(symbol.modules, symbol.dimension),
              format \in ReadFormatInformation(symbol.modules, symbol.dimension)}
=============================================================================
