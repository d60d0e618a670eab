------------------------------ MODULE QRVersion ------------------------------
(***************************************************************************)
(* The table of the 40 versions (sizes) of a QR code in                    *)
(* zxing/qrcode/QRVersion.cpp: the centres of the alignment patterns and,  *)
(* for each error correction level, how many blocks the codewords make.    *)
(* Encoder and decoder of the library both read this table.                *)
(***************************************************************************)
EXTENDS Naturals, Sequences, TLC

\* ErrorCorrectionLevel.ordinal(): L, M, Q, H.
Levels == 0..3

\* ErrorCorrectionLevel.bits() and ErrorCorrectionLevel::forBits().
LevelBits == (0 :> 1) @@ (1 :> 0) @@ (2 :> 3) @@ (3 :> 2)
LevelForBits(bits) == CHOOSE level \in Levels : LevelBits[level] = bits

\* Of each version the alignment pattern centres, and for each level the numbers of its
\* ECBlocks: ecCodewordsPerBloc, and of one or two ECBs the count and dataCodewords.
Versions1To14 ==
  <<<<<<>>,
       <<7, 1, 19>>, <<10, 1, 16>>, <<13, 1, 13>>, <<17, 1, 9>>>>,
    <<<<6, 18>>,
       <<10, 1, 34>>, <<16, 1, 28>>, <<22, 1, 22>>, <<28, 1, 16>>>>,
    <<<<6, 22>>,
       <<15, 1, 55>>, <<26, 1, 44>>, <<18, 2, 17>>, <<22, 2, 13>>>>,
    <<<<6, 26>>,
       <<20, 1, 80>>, <<18, 2, 32>>, <<26, 2, 24>>, <<16, 4, 9>>>>,
    <<<<6, 30>>,
       <<26, 1, 108>>, <<24, 2, 43>>, <<18, 2, 15, 2, 16>>, <<22, 2, 11, 2, 12>>>>,
    <<<<6, 34>>,
       <<18, 2, 68>>, <<16, 4, 27>>, <<24, 4, 19>>, <<28, 4, 15>>>>,
    <<<<6, 22, 38>>,
       <<20, 2, 78>>, <<18, 4, 31>>, <<18, 2, 14, 4, 15>>, <<26, 4, 13, 1, 14>>>>,
    <<<<6, 24, 42>>,
       <<24, 2, 97>>, <<22, 2, 38, 2, 39>>, <<22, 4, 18, 2, 19>>, <<26, 4, 14, 2, 15>>>>,
    <<<<6, 26, 46>>,
       <<30, 2, 116>>, <<22, 3, 36, 2, 37>>, <<20, 4, 16, 4, 17>>, <<24, 4, 12, 4, 13>>>>,
    <<<<6, 28, 50>>,
       <<18, 2, 68, 2, 69>>, <<26, 4, 43, 1, 44>>, <<24, 6, 19, 2, 20>>, <<28, 6, 15, 2, 16>>>>,
    <<<<6, 30, 54>>,
       <<20, 4, 81>>, <<30, 1, 50, 4, 51>>, <<28, 4, 22, 4, 23>>, <<24, 3, 12, 8, 13>>>>,
    <<<<6, 32, 58>>,
       <<24, 2, 92, 2, 93>>, <<22, 6, 36, 2, 37>>, <<26, 4, 20, 6, 21>>, <<28, 7, 14, 4, 15>>>>,
    <<<<6, 34, 62>>,
       <<26, 4, 107>>, <<22, 8, 37, 1, 38>>, <<24, 8, 20, 4, 21>>, <<22, 12, 11, 4, 12>>>>,
    <<<<6, 26, 46, 66>>,
       <<30, 3, 115, 1, 116>>, <<24, 4, 40, 5, 41>>, <<20, 11, 16, 5, 17>>, <<24, 11, 12, 5, 13>>>>>>

Versions15To27 ==
  <<<<<<6, 26, 48, 70>>,
       <<22, 5, 87, 1, 88>>, <<24, 5, 41, 5, 42>>, <<30, 5, 24, 7, 25>>, <<24, 11, 12, 7, 13>>>>,
    <<<<6, 26, 50, 74>>,
       <<24, 5, 98, 1, 99>>, <<28, 7, 45, 3, 46>>, <<24, 15, 19, 2, 20>>, <<30, 3, 15, 13, 16>>>>,
    <<<<6, 30, 54, 78>>,
       <<28, 1, 107, 5, 108>>, <<28, 10, 46, 1, 47>>, <<28, 1, 22, 15, 23>>, <<28, 2, 14, 17, 15>>>>,
    <<<<6, 30, 56, 82>>,
       <<30, 5, 120, 1, 121>>, <<26, 9, 43, 4, 44>>, <<28, 17, 22, 1, 23>>, <<28, 2, 14, 19, 15>>>>,
    <<<<6, 30, 58, 86>>,
       <<28, 3, 113, 4, 114>>, <<26, 3, 44, 11, 45>>, <<26, 17, 21, 4, 22>>, <<26, 9, 13, 16, 14>>>>,
    <<<<6, 34, 62, 90>>,
       <<28, 3, 107, 5, 108>>, <<26, 3, 41, 13, 42>>, <<30, 15, 24, 5, 25>>, <<28, 15, 15, 10, 16>>>>,
    <<<<6, 28, 50, 72, 94>>,
       <<28, 4, 116, 4, 117>>, <<26, 17, 42>>, <<28, 17, 22, 6, 23>>, <<30, 19, 16, 6, 17>>>>,
    <<<<6, 26, 50, 74, 98>>,
       <<28, 2, 111, 7, 112>>, <<28, 17, 46>>, <<30, 7, 24, 16, 25>>, <<24, 34, 13>>>>,
    <<<<6, 30, 54, 78, 102>>,
       <<30, 4, 121, 5, 122>>, <<28, 4, 47, 14, 48>>, <<30, 11, 24, 14, 25>>, <<30, 16, 15, 14, 16>>>>,
    <<<<6, 28, 54, 80, 106>>,
       <<30, 6, 117, 4, 118>>, <<28, 6, 45, 14, 46>>, <<30, 11, 24, 16, 25>>, <<30, 30, 16, 2, 17>>>>,
    <<<<6, 32, 58, 84, 110>>,
       <<26, 8, 106, 4, 107>>, <<28, 8, 47, 13, 48>>, <<30, 7, 24, 22, 25>>, <<30, 22, 15, 13, 16>>>>,
    <<<<6, 30, 58, 86, 114>>,
       <<28, 10, 114, 2, 115>>, <<28, 19, 46, 4, 47>>, <<28, 28, 22, 6, 23>>, <<30, 33, 16, 4, 17>>>>,
    <<<<6, 34, 62, 90, 118>>,
       <<30, 8, 122, 4, 123>>, <<28, 22, 45, 3, 46>>, <<30, 8, 23, 26, 24>>, <<30, 12, 15, 28, 16>>>>>>

Versions28To40 ==
  <<<<<<6, 26, 50, 74, 98, 122>>,
       <<30, 3, 117, 10, 118>>, <<28, 3, 45, 23, 46>>, <<30, 4, 24, 31, 25>>, <<30, 11, 15, 31, 16>>>>,
    <<<<6, 30, 54, 78, 102, 126>>,
       <<30, 7, 116, 7, 117>>, <<28, 21, 45, 7, 46>>, <<30, 1, 23, 37, 24>>, <<30, 19, 15, 26, 16>>>>,
    <<<<6, 26, 52, 78, 104, 130>>,
       <<30, 5, 115, 10, 116>>, <<28, 19, 47, 10, 48>>, <<30, 15, 24, 25, 25>>, <<30, 23, 15, 25, 16>>>>,
    <<<<6, 30, 56, 82, 108, 134>>,
       <<30, 13, 115, 3, 116>>, <<28, 2, 46, 29, 47>>, <<30, 42, 24, 1, 25>>, <<30, 23, 15, 28, 16>>>>,
    <<<<6, 34, 60, 86, 112, 138>>,
       <<30, 17, 115>>, <<28, 10, 46, 23, 47>>, <<30, 10, 24, 35, 25>>, <<30, 19, 15, 35, 16>>>>,
    <<<<6, 30, 58, 86, 114, 142>>,
       <<30, 17, 115, 1, 116>>, <<28, 14, 46, 21, 47>>, <<30, 29, 24, 19, 25>>, <<30, 11, 15, 46, 16>>>>,
    <<<<6, 34, 62, 90, 118, 146>>,
       <<30, 13, 115, 6, 116>>, <<28, 14, 46, 23, 47>>, <<30, 44, 24, 7, 25>>, <<30, 59, 16, 1, 17>>>>,
    <<<<6, 30, 54, 78, 102, 126, 150>>,
       <<30, 12, 121, 7, 122>>, <<28, 12, 47, 26, 48>>, <<30, 39, 24, 14, 25>>, <<30, 22, 15, 41, 16>>>>,
    <<<<6, 24, 50, 76, 102, 128, 154>>,
       <<30, 6, 121, 14, 122>>, <<28, 6, 47, 34, 48>>, <<30, 46, 24, 10, 25>>, <<30, 2, 15, 64, 16>>>>,
    <<<<6, 28, 54, 80, 106, 132, 158>>,
       <<30, 17, 122, 4, 123>>, <<28, 29, 46, 14, 47>>, <<30, 49, 24, 10, 25>>, <<30, 24, 15, 46, 16>>>>,
    <<<<6, 32, 58, 84, 110, 136, 162>>,
       <<30, 4, 122, 18, 123>>, <<28, 13, 46, 32, 47>>, <<30, 48, 24, 14, 25>>, <<30, 42, 15, 32, 16>>>>,
    <<<<6, 26, 54, 82, 110, 138, 166>>,
       <<30, 20, 117, 4, 118>>, <<28, 40, 47, 7, 48>>, <<30, 43, 24, 22, 25>>, <<30, 10, 15, 67, 16>>>>,
    <<<<6, 30, 58, 86, 114, 142, 170>>,
       <<30, 19, 118, 6, 119>>, <<28, 18, 47, 31, 48>>, <<30, 34, 24, 34, 25>>, <<30, 20, 15, 61, 16>>>>>>

VERSIONS == Versions1To14 \o Versions15To27 \o Versions28To40

AlignmentPatternCenters(version) == VERSIONS[version][1]

ECBlocks(numbers) ==
  [ecCodewordsPerBloc |-> numbers[1],
   ecb |-> [k \in 1 .. Len(numbers) \div 2 |-> <<numbers[2 * k], numbers[2 * k + 1]>>]]

ECBlocksForLevel(version, level) == ECBlocks(VERSIONS[version][level + 2])

SumOfECBs(blocks, Of(_)) ==
  Of(blocks.ecb[1]) + (IF Len(blocks.ecb) = 2 THEN Of(blocks.ecb[2]) ELSE 0)

NumBlocks(version, level) ==
  SumOfECBs(ECBlocksForLevel(version, level), LAMBDA ecb : ecb[1])

TotalECCodewords(version, level) ==
  ECBlocksForLevel(version, level).ecCodewordsPerBloc * NumBlocks(version, level)

\* The constructor counts the codewords of the first level; the others have to agree.
TotalCodewords(version) ==
  LET blocks == ECBlocksForLevel(version, 0)
  IN SumOfECBs(blocks, LAMBDA ecb : ecb[1] * (ecb[2] + blocks.ecCodewordsPerBloc))

DimensionForVersion(version) == 17 + 4 * version
=============================================================================
