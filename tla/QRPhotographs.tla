---------------------------- MODULE QRPhotographs ----------------------------
(***************************************************************************)
(* Codes as the camera may see them: texts that the encoder has made codes *)
(* of, with some damage, and what the decoder reads of them.  TLC computes *)
(* the readings once.                                                      *)
(***************************************************************************)
EXTENDS QRCode

L == 0   M == 1   Q == 2   H == 3

\* n letters, which only the mode of bytes can write.
Letters(n) == [i \in 1 .. n |-> 97 + ((7 * i) % 26)]
Number == <<50, 48, 50, 49, 49, 50, 51>>          \* 2021123
Words == <<81, 82, 32, 36, 57>>                     \* QR $9

Shown(text, level, damage) == [text |-> text, level |-> level, damage |-> damage]

\* Every mode, every level, one block and several, of one length and of two, with and
\* without a version on the code; of each block as many codewords spoilt as can be
\* corrected, or one more.
Codes ==
    <<Shown(Number, L, "none"), Shown(Number, Q, "codewords"), Shown(Words, M, "format"),
      Shown(Letters(7), H, "codewords"), Shown(Letters(7), H, "too much"),
      Shown(Letters(14), M, "codewords"), Shown(Letters(30), H, "format"),
      Shown(Letters(40), H, "codewords"), Shown(Letters(62), H, "version"),
      Shown(<<>>, M, "none")>>

-----------------------------------------------------------------------------
(* Damage.                                                                 *)

Spoil(symbol, cells) ==
    [symbol EXCEPT !.modules =
        [c \in DOMAIN @ |-> IF c \in cells THEN 1 - @[c] ELSE @[c]]]

\* The cells of the first n codewords.
CodewordCells(symbol, n) ==
    LET pattern == FunctionPattern(symbol.version)
    IN Range(SubSeq(SelectSeq(ZigZag(symbol.dimension), LAMBDA c : c \notin pattern),
                    1, 8 * n))

\* How many codewords to spoil in each block.
Correctable(symbol, level) ==
    ECBlocksForLevel(symbol.version, level).ecCodewordsPerBloc \div 2

SpoiltCells(symbol, level, damage) ==
    LET d == symbol.dimension
        n == NumBlocks(symbol.version, level)
    IN CASE damage = "none" -> {}
         [] damage = "codewords" -> CodewordCells(symbol, n * Correctable(symbol, level))
         [] damage = "too much" -> CodewordCells(symbol, n * (Correctable(symbol, level) + 1))
         \* three bits of the one copy, and the other one half gone
         [] damage = "format" -> {<<8, 0>>, <<8, 2>>, <<8, 7>>} \cup Region(d - 8, 8, 8, 1)
         \* all of the one copy, three bits of the other
         [] damage = "version" -> Region(d - 11, 0, 3, 6)
                                      \cup {<<0, d - 11>>, <<2, d - 10>>, <<5, d - 9>>}

Photographs(code) ==
    {Spoil(symbol, SpoiltCells(symbol, code.level, code.damage)) :
        symbol \in Encode(code.text, code.level)}

-----------------------------------------------------------------------------
Shots == DOMAIN Codes

Seen(shot) == UNION {Decode(photograph) : photograph \in Photographs(Codes[shot])}
readings == [shot \in Shots |-> Seen(shot)]

\* Without drawing them: a larger version with blocks of two lengths, and those where the
\* number of characters takes more bits.
ASSUME BlocksComeBack ==
    DecodeCodewords(Codewords(Letters(108), 10, H), 10, H) = {Letters(108)}
ASSUME CountsComeBack ==
    \A version \in {9, 10, 26, 27}, text \in {Number, Words, Letters(5)} :
        DecodeBits(TerminateBits(NumDataBytes(version, H), HeaderAndData(text, version)),
                   version, <<>>) = {text}
=============================================================================
