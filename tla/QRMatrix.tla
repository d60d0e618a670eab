------------------------------- MODULE QRMatrix ------------------------------
(***************************************************************************)
(* The modules of a QR code: how MatrixUtil and MaskUtil draw them, and    *)
(* how BitMatrixParser, DataMask and Version::buildFunctionPattern() read  *)
(* them.  A matrix maps the cells <<x, y>> that are drawn to 0 or 1.       *)
(***************************************************************************)
EXTENDS QRVersion, QRFormat, Functions

Region(x, y, width, height) == (x .. x + width - 1) \X (y .. y + height - 1)
Cells(d) == Region(0, 0, d, d)
Uniform(cells, bit) == [c \in cells |-> bit]

\* A matrix with the cells of another one drawn over it.
Over(top, below) ==
    LET drawn == DOMAIN top
    IN [c \in drawn \cup DOMAIN below |-> IF c \in drawn THEN top[c] ELSE below[c]]

Greater(a, b) == IF a > b THEN a ELSE b
Distance(a, b) == IF a > b THEN a - b ELSE b - a

-----------------------------------------------------------------------------
(* Drawing: the patterns.                                                  *)

\* Squares in each other: all cells are dark but one ring around the centre.
Pattern(cx, cy, radius, ring) ==
    [c \in Region(cx - radius, cy - radius, 2 * radius + 1, 2 * radius + 1) |->
        IF Greater(Distance(c[1], cx), Distance(c[2], cy)) = ring THEN 0 ELSE 1]

PositionDetectionPatterns(d) ==
    LET Separators == Region(0, 7, 8, 1) \cup Region(d - 8, 7, 8, 1)
                          \cup Region(0, d - 8, 8, 1) \cup Region(7, 0, 1, 7)
                          \cup Region(d - 8, 0, 1, 7) \cup Region(7, d - 7, 1, 7)
    IN Pattern(3, 3, 3, 2) @@ Pattern(d - 4, 3, 3, 2) @@ Pattern(3, d - 4, 3, 2)
           @@ Uniform(Separators, 0)

DarkDot(d) == Uniform({<<8, d - 8>>}, 1)

\* Around each crossing of the coordinates that is still empty.  MatrixUtil has a copy of
\* the table of QRVersion, with the same numbers.
PositionAdjustmentPatterns(version, drawn) ==
    LET coordinates == Range(AlignmentPatternCenters(version))
        centers == (coordinates \X coordinates) \ DOMAIN drawn
        covered == UNION {Region(c[1] - 2, c[2] - 2, 5, 5) : c \in centers}
    IN [c \in covered |->
          LET center == CHOOSE m \in centers : c \in Region(m[1] - 2, m[2] - 2, 5, 5)
          IN Pattern(center[1], center[2], 2, 1)[c]]

TimingPatterns(d) ==
    [c \in Region(8, 6, d - 16, 1) \cup Region(6, 8, 1, d - 16) |->
        (c[1] + c[2] + 1) % 2]

BasicPatterns(version) ==
    LET d == DimensionForVersion(version)
        squares == PositionDetectionPatterns(d) @@ DarkDot(d)
    IN PositionAdjustmentPatterns(version, squares) @@ squares @@ TimingPatterns(d)

\* Where the bits of the format go, the least significant one first.
TYPE_INFO_COORDINATES ==
    <<<<8, 0>>, <<8, 1>>, <<8, 2>>, <<8, 3>>, <<8, 4>>, <<8, 5>>, <<8, 7>>, <<8, 8>>,
      <<7, 8>>, <<5, 8>>, <<4, 8>>, <<3, 8>>, <<2, 8>>, <<1, 8>>, <<0, 8>>>>

SecondCopy(d, i) == IF i < 8 THEN <<d - i - 1, 8>> ELSE <<8, d - 7 + (i - 8)>>

TypeInfo(d, format) ==
    LET bits == MakeTypeInfoBits(format)
        first == {<<TYPE_INFO_COORDINATES[i + 1], bits[15 - i]>> : i \in 0 .. 14}
        second == {<<SecondCopy(d, i), bits[15 - i]>> : i \in 0 .. 14}
    IN [c \in {w[1] : w \in first \cup second} |->
          (CHOOSE w \in first \cup second : w[1] = c)[2]]

VersionInfo(version) ==
    LET d == DimensionForVersion(version)
        bits == MakeVersionInfoBits(version)
        Bit(i, j) == bits[18 - (3 * i + j)]
    IN IF version < 7 THEN <<>>
       ELSE [c \in Region(0, d - 11, 6, 3) |-> Bit(c[1], c[2] - (d - 11))]
                @@ [c \in Region(d - 11, 0, 3, 6) |-> Bit(c[2], c[1] - (d - 11))]

FunctionPatterns(version, format) ==
    Over(TypeInfo(DimensionForVersion(version), format),
         BasicPatterns(version) @@ VersionInfo(version))

-----------------------------------------------------------------------------
(* Drawing: the data.                                                      *)

\* Pairs of columns from right to left, up and down in turn, without the column of
\* the vertical timing pattern.
ZigZag(d) ==
    [k \in 1 .. d * (d - 1) |->
        LET pair == (k - 1) \div (2 * d)
            row == ((k - 1) % (2 * d)) \div 2
            right == IF d - 1 - 2 * pair <= 6 THEN d - 2 - 2 * pair ELSE d - 1 - 2 * pair
        IN <<right - ((k - 1) % 2), IF pair % 2 = 0 THEN d - 1 - row ELSE row>>]

Free(d, taken) == SelectSeq(ZigZag(d), LAMBDA c : c \notin taken)

GetDataMaskBit(maskPattern, x, y) ==
    LET intermediate ==
            CASE maskPattern = 0 -> (y + x) % 2
              [] maskPattern = 1 -> y % 2
              [] maskPattern = 2 -> x % 3
              [] maskPattern = 3 -> (y + x) % 3
              [] maskPattern = 4 -> ((y \div 2) + (x \div 3)) % 2
              [] maskPattern = 5 -> ((y * x) % 2) + ((y * x) % 3)
              [] maskPattern = 6 -> (((y * x) % 2) + ((y * x) % 3)) % 2
              [] maskPattern = 7 -> (((y * x) % 3) + ((y + x) % 2)) % 2
    IN intermediate = 0

\* The bits along the cells, and 0 where there are none left.
DataBits(bits, cells) ==
    [c \in Range(cells) |->
        LET i == CHOOSE i \in DOMAIN cells : cells[i] = c
        IN IF i <= Len(bits) THEN bits[i] ELSE 0]

\* embedDataBits(): the mask turns bits around, also the ones left over.
Masked(plain, maskPattern) ==
    [c \in DOMAIN plain |->
        IF GetDataMaskBit(maskPattern, c[1], c[2]) THEN 1 - plain[c] ELSE plain[c]]

\* buildMatrix(): the patterns, and the data where there are none.
Drawn(version, format, data, maskPattern) ==
    Over(FunctionPatterns(version, format), Masked(data, maskPattern))

-----------------------------------------------------------------------------
(* Drawing: the mask with the least penalty.                               *)

N1 == 3   N2 == 3   N3 == 40   N4 == 10

Rows(m, d) == [i \in 0 .. d - 1 |-> [j \in 0 .. d - 1 |-> m[<<j, i>>]]]
Columns(m, d) == [i \in 0 .. d - 1 |-> [j \in 0 .. d - 1 |-> m[<<i, j>>]]]

\* Five cells of a colour cost N1 and each further one 1: every five cells in a
\* line cost 1, and the first five of a run N1 - 1 more.
Rule1Internal(lines, d) ==
    LET Same(i, j) == \A k \in 1 .. 4 : lines[i][j + k] = lines[i][j]
        fives == {c \in Region(0, 0, d, d - 4) : Same(c[1], c[2])}
        runs == {c \in fives : c[2] = 0 \/ lines[c[1]][c[2] - 1] # lines[c[1]][c[2]]}
    IN Cardinality(fives) + (N1 - 1) * Cardinality(runs)

Rule2(rows, d) ==
    N2 * Cardinality({c \in Cells(d - 1) :
        LET value == rows[c[2]][c[1]]
        IN rows[c[2]][c[1] + 1] = value /\ rows[c[2] + 1][c[1]] = value
               /\ rows[c[2] + 1][c[1] + 1] = value})

Rule3Internal(lines, d) ==
    LET finder == <<1, 0, 1, 1, 1, 0, 1>>
        IsWhite(i, from, to) == \A j \in from .. to - 1 : j \in 0 .. d - 1 => lines[i][j] = 0
    IN N3 * Cardinality({c \in Region(0, 0, d, d - 6) :
               /\ \A k \in 1 .. 7 : lines[c[1]][c[2] + k - 1] = finder[k]
               /\ IsWhite(c[1], c[2] - 4, c[2]) \/ IsWhite(c[1], c[2] + 7, c[2] + 11)})

Rule4(m, d) ==
    N4 * ((10 * Distance(2 * Cardinality({c \in Cells(d) : m[c] = 1}), d * d)) \div (d * d))

CalculateMaskPenalty(m, d) ==
    LET rows == Rows(m, d)
        columns == Columns(m, d)
    IN Rule1Internal(rows, d) + Rule1Internal(columns, d) + Rule2(rows, d)
           + Rule3Internal(rows, d) + Rule3Internal(columns, d) + Rule4(m, d)

\* The same function; TLC computes it here, and not each time it is applied.
Computed(f) == f @@ <<>>

\* The mask that chooseMaskPattern() takes: the first of the best.
BuildMatrix(bits, level, version) ==
    LET d == DimensionForVersion(version)
        cells == Free(d, DOMAIN FunctionPatterns(version, 0))
        data == Computed(DataBits(bits, cells))
        Matrix(mask) == Computed(Drawn(version, 8 * LevelBits[level] + mask, data, mask))
        penalties == {<<CalculateMaskPenalty(Matrix(mask), d), mask>> : mask \in 0 .. 7}
        best == CHOOSE p \in penalties : \A q \in penalties :
                    p[1] < q[1] \/ (p[1] = q[1] /\ p[2] <= q[2])
    IN [mask |-> best[2], modules |-> Matrix(best[2])]

-----------------------------------------------------------------------------
(* Reading.                                                                *)

\* buildFunctionPattern(): the cells that hold no data.
FunctionPattern(version) ==
    LET d == DimensionForVersion(version)
        centers == AlignmentPatternCenters(version)
        n == Len(centers)
        aligned == {p \in (1 .. n) \X (1 .. n) : p \notin {<<1, 1>>, <<1, n>>, <<n, 1>>}}
    IN Region(0, 0, 9, 9) \cup Region(d - 8, 0, 8, 9) \cup Region(0, d - 8, 9, 8)
         \cup (UNION {Region(centers[p[2]] - 2, centers[p[1]] - 2, 5, 5) : p \in aligned})
         \cup Region(6, 9, 1, d - 17) \cup Region(9, 6, d - 17, 1)
         \cup (IF version > 6 THEN Region(d - 11, 0, 3, 6) \cup Region(0, d - 11, 6, 3)
               ELSE {})

\* isMasked(y, x) of the mask with this number.
IsMasked(reference, x, y) ==
    CASE reference = 0 -> (x + y) % 2 = 0
      [] reference = 1 -> x % 2 = 0
      [] reference = 2 -> y % 3 = 0
      [] reference = 3 -> (x + y) % 3 = 0
      [] reference = 4 -> ((x \div 2) + (y \div 3)) % 2 = 0
      [] reference = 5 -> ((x * y) % 2) + ((x * y) % 3) = 0
      [] reference = 6 -> (((x * y) % 2) + ((x * y) % 3)) % 2 = 0
      [] reference = 7 -> (((x + y) % 2) + ((x * y) % 3)) % 2 = 0

\* copyBit() along a list of cells.
CopyBits(m, cells) == [i \in DOMAIN cells |-> m[cells[i]]]

FormatCells ==
    <<<<0, 8>>, <<1, 8>>, <<2, 8>>, <<3, 8>>, <<4, 8>>, <<5, 8>>, <<7, 8>>, <<8, 8>>,
      <<8, 7>>, <<8, 5>>, <<8, 4>>, <<8, 3>>, <<8, 2>>, <<8, 1>>, <<8, 0>>>>
OtherFormatCells(d) ==
    [i \in 1 .. 15 |-> IF i <= 7 THEN <<8, d - i>> ELSE <<d - 16 + i, 8>>]

ReadFormatInformation(m, d) ==
    DecodeFormatInformation(CopyBits(m, FormatCells), CopyBits(m, OtherFormatCells(d)))

TopRight(d) == [i \in 1 .. 18 |-> <<d - 9 - ((i - 1) % 3), 5 - ((i - 1) \div 3)>>]
BottomLeft(d) == [i \in 1 .. 18 |-> <<5 - ((i - 1) \div 3), d - 9 - ((i - 1) % 3)>>]

\* The one copy, and if it is no version of this size, the other.
ReadVersion(m, d) ==
    LET OfSize(versions) == {v \in versions : DimensionForVersion(v) = d}
        found == OfSize(DecodeVersionInformation(CopyBits(m, TopRight(d))))
    IN IF (d - 17) \div 4 <= 6 THEN {(d - 17) \div 4}
       ELSE IF found # {} THEN found
       ELSE OfSize(DecodeVersionInformation(CopyBits(m, BottomLeft(d))))

\* The bits along a list of cells, with the mask undone.
Unmasked(m, cells, mask) ==
    [i \in DOMAIN cells |->
        IF IsMasked(mask, cells[i][2], cells[i][1]) THEN 1 - m[cells[i]] ELSE m[cells[i]]]

\* The codewords along the same way; bits that make no whole one are dropped.
DataCells(version) == Free(DimensionForVersion(version), FunctionPattern(version))
ReadCodewords(m, version, mask) == BytesOf(Unmasked(m, DataCells(version), mask))

\* What the encoder draws as patterns is what the decoder skips.
ASSUME SamePatterns ==
    \A version \in 1 .. 40 : DOMAIN FunctionPatterns(version, 0) = FunctionPattern(version)
\* The words are read where they are drawn.
ASSUME SameCells ==
    \A version \in 1 .. 40 :
        LET d == DimensionForVersion(version)
        IN /\ \A format \in Formats : \A cells \in {FormatCells, OtherFormatCells(d)} :
                 CopyBits(TypeInfo(d, format), cells) = formatWord[format]
           /\ version >= 7 => \A cells \in {TopRight(d), BottomLeft(d)} :
                 CopyBits(FunctionPatterns(version, 0), cells) = versionWord[version]
\* The way through the free cells takes none twice, ...
ASSUME CellsOnce ==
    \A version \in 1 .. 40 :
        LET d == DimensionForVersion(version)
            cells == DataCells(version)
        IN /\ cells \in Seq(Cells(d))
           /\ Range(cells) = Cells(d) \ FunctionPattern(version)
           /\ Cardinality(Range(cells)) = Len(cells)
\* ... and all codewords of a version find room, with fewer than 8 bits left.
ASSUME RoomForCodewords ==
    \A version \in 1 .. 40 : Len(DataCells(version)) \div 8 = TotalCodewords(version)
=============================================================================
