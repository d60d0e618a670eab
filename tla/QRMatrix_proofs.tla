--------------------------- MODULE QRMatrix_proofs ----------------------------
(***************************************************************************)
(* Proofs about what is drawn and what is read of a QR code: the words     *)
(* that are written twice, for all damage, and the data, for codes of any  *)
(* size and any contents; and that the blocks of the codewords, which the  *)
(* encoder interleaves, are what the decoder takes out of a photograph.    *)
(***************************************************************************)
EXTENDS QRMatrix, QRBlocks, FiniteSetTheorems, WellFoundedInduction, TLAPS

-----------------------------------------------------------------------------
(* The words of the format and of the version.                             *)

Differing(a, b) == {i \in DOMAIN a : a[i] # b[i]}

LEMMA DistanceType ==
    ASSUME NEW n \in Nat, NEW a, DOMAIN a = 1 .. n, NEW b
    PROVE  /\ IsFiniteSet(Differing(a, b))
           /\ NumBitsDiffering(a, b) = Cardinality(Differing(a, b))
           /\ NumBitsDiffering(a, b) \in Nat
  <1>1. IsFiniteSet(Differing(a, b))
    <2>1. IsFiniteSet(1 .. n)
      BY FS_Interval
    <2> QED
      BY <2>1, FS_Subset DEF Differing
  <1> QED
    BY <1>1, FS_CardinalityType DEF NumBitsDiffering, Differing

\* Two words that are near a third one are not far from each other.
LEMMA Triangle ==
    ASSUME NEW n \in Nat, NEW a, NEW b, NEW c, DOMAIN a = 1 .. n, DOMAIN b = 1 .. n
    PROVE  NumBitsDiffering(a, c) <= NumBitsDiffering(b, a) + NumBitsDiffering(b, c)
  <1> DEFINE ac == Differing(a, c)
             ba == Differing(b, a)
             bc == Differing(b, c)
  <1>1. ac \subseteq ba \cup bc
    BY DEF Differing
  <1>2. /\ IsFiniteSet(ac) /\ NumBitsDiffering(a, c) = Cardinality(ac)
        /\ IsFiniteSet(ba) /\ NumBitsDiffering(b, a) = Cardinality(ba)
        /\ IsFiniteSet(bc) /\ NumBitsDiffering(b, c) = Cardinality(bc)
    BY DistanceType
  <1> HIDE DEF ac, ba, bc
  <1>3. /\ IsFiniteSet(ba \cup bc) /\ IsFiniteSet(ba \cap bc)
        /\ Cardinality(ba \cup bc)
             = Cardinality(ba) + Cardinality(bc) - Cardinality(ba \cap bc)
    BY <1>2, FS_Union, FS_Intersection
  <1>4. Cardinality(ac) <= Cardinality(ba \cup bc)
    BY <1>1, <1>3, FS_Subset
  <1>5. /\ Cardinality(ac) \in Nat /\ Cardinality(ba) \in Nat /\ Cardinality(bc) \in Nat
        /\ Cardinality(ba \cap bc) \in Nat
    BY <1>2, <1>3, FS_CardinalityType
  <1> QED
    BY <1>2, <1>3, <1>4, <1>5

LEMMA WordLengths ==
    /\ \A f \in Formats : DOMAIN formatWord[f] = 1 .. 15
    /\ \A v \in 7 .. 40 : DOMAIN versionWord[v] = 1 .. 18
  BY DEF formatWord, versionWord, BitsOf

\* The one word within three bits is found, if all others are farther away.
LEMMA NearestIsFound ==
    ASSUME NEW S, S \subseteq Nat, NEW w \in S, NEW dist \in [S -> Nat],
           dist[w] <= 3, \A u \in S : u # w => dist[u] > 3
    PROVE  Nearest(dist) = {w}
  <1>1. \A u \in S : u # w => dist[w] < dist[u]
    OBVIOUS
  <1>2. dist[w] = dist[w] /\ w <= w
    OBVIOUS
  <1>3. w \in Nearest(dist)
    <2>1. \A u \in S : dist[w] < dist[u] \/ (dist[w] = dist[u] /\ w <= u)
      BY <1>1, <1>2
    <2> QED
      BY <2>1 DEF Nearest
  <1>4. \A x \in Nearest(dist) : x = w
    <2>1. \A x \in Nearest(dist) : x \in S /\ dist[x] <= 3
      BY DEF Nearest
    <2>2. \A x \in S : x # w => ~ (dist[x] <= 3)
      OBVIOUS
    <2> QED
      BY <2>1, <2>2
  <1> QED
    BY <1>3, <1>4

\* Of two words of a code, what is within three bits of the one is not of the other.
LEMMA OthersFarther ==
    ASSUME NEW n \in Nat, NEW v, NEW w, NEW b, DOMAIN b = 1 .. n,
           DOMAIN v = 1 .. n, NumBitsDiffering(v, w) >= 7,
           NumBitsDiffering(b, v) <= 3
    PROVE  NumBitsDiffering(b, w) > 3
  <1>1. /\ NumBitsDiffering(b, v) \in Nat /\ NumBitsDiffering(b, w) \in Nat
        /\ NumBitsDiffering(v, w) \in Nat
    BY DistanceType
  <1>2. NumBitsDiffering(v, w) <= NumBitsDiffering(b, v) + NumBitsDiffering(b, w)
    BY Triangle
  <1> QED
    BY <1>1, <1>2

LEMMA FormatOfWords ==
    ASSUME NEW f \in Formats, NEW bits1, NEW bits2,
           DOMAIN bits1 = 1 .. 15, DOMAIN bits2 = 1 .. 15,
           NumBitsDiffering(bits1, formatWord[f]) <= 3,
           NumBitsDiffering(bits2, formatWord[f]) <= 3
    PROVE  DecodeFormatInformation(bits1, bits2) = {f}
  <1> DEFINE dist == [g \in Formats |-> Lesser(NumBitsDiffering(bits1, formatWord[g]),
                                               NumBitsDiffering(bits2, formatWord[g]))]
  <1>0. 15 \in Nat
    OBVIOUS
  <1>1. ASSUME NEW g \in Formats
        PROVE  /\ NumBitsDiffering(bits1, formatWord[g]) \in Nat
               /\ NumBitsDiffering(bits2, formatWord[g]) \in Nat
               /\ g # f => /\ NumBitsDiffering(bits1, formatWord[g]) > 3
                           /\ NumBitsDiffering(bits2, formatWord[g]) > 3
    <2>1. /\ NumBitsDiffering(bits1, formatWord[g]) \in Nat
          /\ NumBitsDiffering(bits2, formatWord[g]) \in Nat
      BY <1>0, DistanceType
    <2>2. g # f => NumBitsDiffering(formatWord[f], formatWord[g]) >= 7
      BY WordsApart
    <2>3. DOMAIN formatWord[f] = 1 .. 15
      BY WordLengths
    <2> QED
      BY <1>0, <2>1, <2>2, <2>3, OthersFarther
  <1>2. dist \in [Formats -> Nat]
    BY <1>1 DEF Lesser
  <1>3. dist[f] <= 3 /\ \A g \in Formats : g # f => dist[g] > 3
    BY <1>1 DEF Lesser
  <1>4. Formats \subseteq Nat
    BY DEF Formats
  <1>5. DoDecodeFormat(bits1, bits2) = Nearest(dist)
    BY DEF DoDecodeFormat
  <1> HIDE DEF dist
  <1>6. DoDecodeFormat(bits1, bits2) = {f}
    BY <1>2, <1>3, <1>4, <1>5, NearestIsFound
  <1> QED
    BY <1>6 DEF DecodeFormatInformation

LEMMA VersionOfWord ==
    ASSUME NEW v \in 7 .. 40, NEW bits, DOMAIN bits = 1 .. 18,
           NumBitsDiffering(bits, versionWord[v]) <= 3
    PROVE  DecodeVersionInformation(bits) = {v}
  <1> DEFINE dist == [w \in 7 .. 40 |-> NumBitsDiffering(bits, versionWord[w])]
  <1>0. 18 \in Nat
    OBVIOUS
  <1>1. dist \in [7 .. 40 -> Nat]
    BY <1>0, DistanceType
  <1>2. ASSUME NEW w \in 7 .. 40, w # v PROVE dist[w] > 3
    <2>1. NumBitsDiffering(versionWord[v], versionWord[w]) >= 7
      BY <1>2, WordsApart
    <2>2. DOMAIN versionWord[v] = 1 .. 18
      BY WordLengths
    <2> QED
      BY <1>0, <2>1, <2>2, OthersFarther
  <1>3. DecodeVersionInformation(bits) = Nearest(dist)
    BY DEF DecodeVersionInformation
  <1>4. dist[v] <= 3
    OBVIOUS
  <1>5. 7 .. 40 \subseteq Nat
    OBVIOUS
  <1> HIDE DEF dist
  <1> QED
    BY <1>1, <1>2, <1>3, <1>4, <1>5, NearestIsFound

-----------------------------------------------------------------------------
(* The words in a photograph.                                              *)

\* A format of which each copy has lost up to three bits, any of them, is read:
\* readFormatInformation().
THEOREM FormatIsRead ==
    ASSUME NEW f \in Formats, NEW p, NEW d,
           \A cells \in {FormatCells, OtherFormatCells(d)} :
              NumBitsDiffering(CopyBits(p, cells), formatWord[f]) <= 3
    PROVE  ReadFormatInformation(p, d) = {f}
  <1>1. DOMAIN CopyBits(p, FormatCells) = 1 .. 15
    BY DEF CopyBits, FormatCells
  <1>2. DOMAIN CopyBits(p, OtherFormatCells(d)) = 1 .. 15
    BY DEF CopyBits, OtherFormatCells
  <1> QED
    BY <1>1, <1>2, FormatOfWords DEF ReadFormatInformation

LEMMA VersionCells ==
    ASSUME NEW p, NEW d, NEW cells \in {TopRight(d), BottomLeft(d)}
    PROVE  DOMAIN CopyBits(p, cells) = 1 .. 18
  <1>1. DOMAIN TopRight(d) = 1 .. 18
    BY DEF TopRight
  <1>2. DOMAIN BottomLeft(d) = 1 .. 18
    BY DEF BottomLeft
  <1> QED
    BY <1>1, <1>2 DEF CopyBits

\* A version is read although one of its copies may be lost altogether and the other has
\* lost up to three bits: the size of the code tells a wrong version from the right one
\* (Version::decodeVersionInformation(), readVersion()).
THEOREM VersionIsRead ==
    ASSUME NEW version \in 1 .. 40, NEW p, NEW d, d = DimensionForVersion(version),
           version >= 7 =>
              \E cells \in {TopRight(d), BottomLeft(d)} :
                 NumBitsDiffering(CopyBits(p, cells), versionWord[version]) <= 3
    PROVE  ReadVersion(p, d) = {version}
  <1> DEFINE OfSize(versions) == {v \in versions : DimensionForVersion(v) = d}
             Found(cells) == DecodeVersionInformation(CopyBits(p, cells))
  <1>1. (d - 17) \div 4 = version
    BY DEF DimensionForVersion
  <1>2. CASE version <= 6
    BY <1>1, <1>2 DEF ReadVersion
  <1>3. CASE version >= 7
    <2>1. version \in 7 .. 40
      BY <1>3
    <2>2. \A bits : DecodeVersionInformation(bits) \subseteq 7 .. 40
      BY DEF DecodeVersionInformation, Nearest
    <2>3. \A v \in 7 .. 40 : DimensionForVersion(v) = d => v = version
      BY DEF DimensionForVersion
    <2>4. \A cells : OfSize(Found(cells)) \subseteq {version}
      BY <2>2, <2>3
    <2>5. PICK cells \in {TopRight(d), BottomLeft(d)} : Found(cells) = {version}
      BY <1>3, <2>1, VersionCells, VersionOfWord
    <2>6. OfSize(Found(cells)) = {version}
      BY <2>5
    <2>7. ~ ((d - 17) \div 4 <= 6)
      BY <1>1, <1>3
    <2>8. ReadVersion(p, d) = IF OfSize(Found(TopRight(d))) # {}
                              THEN OfSize(Found(TopRight(d)))
                              ELSE OfSize(Found(BottomLeft(d)))
      BY <2>7 DEF ReadVersion
    <2> HIDE DEF Found, OfSize
    <2> QED
      BY <2>4, <2>5, <2>6, <2>8
  <1> QED
    BY <1>2, <1>3

-----------------------------------------------------------------------------
(* The data.                                                               *)

Masks == 0 .. 7
Places == Nat \X Nat

\* The decoder has formulas of its own, with the coordinates the other way round.
LEMMA SameMasks ==
    ASSUME NEW mask \in Masks, NEW x \in Nat, NEW y \in Nat
    PROVE  GetDataMaskBit(mask, x, y) <=> IsMasked(mask, y, x)
  <1>1. x * y = y * x /\ x + y = y + x
    OBVIOUS
  <1>2. mask \in {0, 1, 2, 3, 4, 5, 6, 7}
    BY DEF Masks
  <1>3. CASE mask = 0
    BY <1>1, <1>3 DEF GetDataMaskBit, IsMasked
  <1>4. CASE mask = 1
    BY <1>1, <1>4 DEF GetDataMaskBit, IsMasked
  <1>5. CASE mask = 2
    BY <1>1, <1>5 DEF GetDataMaskBit, IsMasked
  <1>6. CASE mask = 3
    BY <1>1, <1>6 DEF GetDataMaskBit, IsMasked
  <1>7. CASE mask = 4
    BY <1>1, <1>7 DEF GetDataMaskBit, IsMasked
  <1>8. CASE mask = 5
    BY <1>1, <1>8 DEF GetDataMaskBit, IsMasked
  <1>9. CASE mask = 6
    BY <1>1, <1>9 DEF GetDataMaskBit, IsMasked
  <1>10. CASE mask = 7
    BY <1>1, <1>10 DEF GetDataMaskBit, IsMasked
  <1> QED
    BY <1>2, <1>3, <1>4, <1>5, <1>6, <1>7, <1>8, <1>9, <1>10

\* A way takes no cell twice, and bits go along a way that is as long.
Way(cells) ==
    /\ cells \in Seq(Places)
    /\ \A i, j \in 1 .. Len(cells) : cells[i] = cells[j] => i = j
Fit(bits, cells) == bits \in Seq({0, 1}) /\ Len(bits) <= Len(cells)

\* A bit that is drawn where there are no patterns is read in the same place.
LEMMA DataIsRead ==
    ASSUME NEW mask \in Masks, NEW cells, Way(cells), NEW bits, Fit(bits, cells),
           NEW i \in 1 .. Len(bits), NEW patterns, cells[i] \notin DOMAIN patterns
    PROVE  Unmasked(Over(patterns, Masked(DataBits(bits, cells), mask)), cells, mask)[i]
              = bits[i]
  <1> DEFINE data == DataBits(bits, cells)
             masked == Masked(data, mask)
             p == Over(patterns, masked)
             c == cells[i]
  <1>0. /\ i \in DOMAIN cells /\ bits[i] \in {0, 1} /\ Len(bits) \in Nat /\ i <= Len(bits)
        /\ DOMAIN cells = 1 .. Len(cells)
    BY DEF Way, Fit
  <1> SUFFICES Unmasked(p, cells, mask)[i] = bits[i]
    OBVIOUS
  <1>1. c \in Range(cells) /\ c \in Places /\ c \notin DOMAIN patterns
    BY <1>0 DEF Range, Way
  <1>2. data[c] = bits[i] /\ DOMAIN data = Range(cells)
    <2>0. \A j \in DOMAIN cells : cells[j] = c => j = i
      BY <1>0 DEF Way
    <2> DEFINE At(x) == CHOOSE j \in DOMAIN cells : cells[j] = x
    <2>1. At(c) = i
      BY <1>0, <2>0, Zenon
    <2>2. DOMAIN data = Range(cells)
      BY DEF DataBits
    <2>3. \A x \in Range(cells) : data[x] = IF At(x) <= Len(bits) THEN bits[At(x)] ELSE 0
      BY DEF DataBits
    <2> HIDE DEF At, data
    <2> QED
      BY <1>0, <1>1, <2>1, <2>2, <2>3
  <1> HIDE DEF data
  <1>3. DOMAIN masked = DOMAIN data
    BY DEF Masked
  <1>4. masked[c] = IF GetDataMaskBit(mask, c[1], c[2]) THEN 1 - bits[i] ELSE bits[i]
    BY <1>1, <1>2 DEF Masked
  <1> HIDE DEF masked
  <1>5. p[c] = masked[c]
    BY <1>1, <1>2, <1>3 DEF Over
  <1> HIDE DEF p
  <1>6. Unmasked(p, cells, mask)[i] = IF IsMasked(mask, c[2], c[1]) THEN 1 - p[c] ELSE p[c]
    BY <1>0 DEF Unmasked
  <1>7. GetDataMaskBit(mask, c[1], c[2]) <=> IsMasked(mask, c[2], c[1])
    BY <1>1, SameMasks DEF Places
  <1> HIDE DEF c
  <1> QED
    BY <1>0, <1>4, <1>5, <1>6, <1>7

-----------------------------------------------------------------------------
(* The whole code.                                                         *)

\* The format has the same cells whatever it is, ...
TypeCells(d) ==
    {TYPE_INFO_COORDINATES[i + 1] : i \in 0 .. 14} \cup {SecondCopy(d, i) : i \in 0 .. 14}

LEMMA TypeInfoCells ==
    ASSUME NEW d, NEW f
    PROVE  DOMAIN TypeInfo(d, f) = TypeCells(d)
  <1> DEFINE bits == MakeTypeInfoBits(f)
             first == {<<TYPE_INFO_COORDINATES[i + 1], bits[15 - i]>> : i \in 0 .. 14}
             second == {<<SecondCopy(d, i), bits[15 - i]>> : i \in 0 .. 14}
  <1>1. DOMAIN TypeInfo(d, f) = {w[1] : w \in first \cup second}
    BY DEF TypeInfo
  <1>2. {w[1] : w \in first} = {TYPE_INFO_COORDINATES[i + 1] : i \in 0 .. 14}
    <2>1. \A w \in first : \E i \in 0 .. 14 : w[1] = TYPE_INFO_COORDINATES[i + 1]
      OBVIOUS
    <2>2. \A i \in 0 .. 14 : \E w \in first : w[1] = TYPE_INFO_COORDINATES[i + 1]
      <3> TAKE i \in 0 .. 14
      <3> WITNESS <<TYPE_INFO_COORDINATES[i + 1], bits[15 - i]>> \in first
      <3> QED
        OBVIOUS
    <2> HIDE DEF first
    <2> QED
      BY <2>1, <2>2
  <1>3. {w[1] : w \in second} = {SecondCopy(d, i) : i \in 0 .. 14}
    <2>1. \A w \in second : \E i \in 0 .. 14 : w[1] = SecondCopy(d, i)
      OBVIOUS
    <2>2. \A i \in 0 .. 14 : \E w \in second : w[1] = SecondCopy(d, i)
      <3> TAKE i \in 0 .. 14
      <3> WITNESS <<SecondCopy(d, i), bits[15 - i]>> \in second
      <3> QED
        OBVIOUS
    <2> HIDE DEF second
    <2> QED
      BY <2>1, <2>2
  <1> HIDE DEF first, second
  <1> QED
    BY <1>1, <1>2, <1>3 DEF TypeCells

\* ... and so have all the patterns.
LEMMA PatternCells ==
    ASSUME NEW version \in 1 .. 40, NEW f
    PROVE  DOMAIN FunctionPatterns(version, f) = FunctionPattern(version)
  <1>1. DOMAIN FunctionPatterns(version, f) = DOMAIN FunctionPatterns(version, 0)
    BY TypeInfoCells DEF FunctionPatterns, Over
  <1> QED
    BY <1>1, SamePatterns

LEMMA CardinalityUpTo ==
    ASSUME NEW n \in Nat
    PROVE  IsFiniteSet(1 .. n) /\ Cardinality(1 .. n) = n
  <1>1. IsFiniteSet(1 .. n) /\ Cardinality(1 .. n) = IF 1 > n THEN 0 ELSE n - 1 + 1
    BY FS_Interval
  <1> QED
    BY <1>1

LEMMA DataWay ==
    ASSUME NEW version \in 1 .. 40
    PROVE  Way(DataCells(version)) /\ FunctionPattern(version) \cap Range(DataCells(version)) = {}
  <1> DEFINE d == DimensionForVersion(version)
             cells == DataCells(version)
  <1>1. /\ cells \in Seq(Cells(d)) /\ Range(cells) = Cells(d) \ FunctionPattern(version)
        /\ Cardinality(Range(cells)) = Len(cells)
    BY CellsOnce
  <1>2. d \in Nat
    BY DEF DimensionForVersion
  <1>3. Cells(d) \subseteq Places
    BY <1>2 DEF Cells, Region, Places
  <1>4. /\ cells \in Seq(Places) /\ Len(cells) \in Nat
        /\ cells \in [1 .. Len(cells) -> Places]
    BY <1>1, <1>3
  <1>5. cells \in Surjection(1 .. Len(cells), Range(cells))
    BY <1>4 DEF Surjection, Range
  <1>6. cells \in Injection(1 .. Len(cells), Range(cells))
    <2>1. IsFiniteSet(1 .. Len(cells)) /\ Cardinality(1 .. Len(cells)) = Len(cells)
      BY <1>4, CardinalityUpTo
    <2> QED
      BY <1>1, <1>5, <2>1, FS_Surjection
  <1> QED
    BY <1>1, <1>4, <1>6 DEF Injection, IsInjective, Way

LEMMA Coordinates ==
    \A i \in 1 .. 15 : LET c == TYPE_INFO_COORDINATES[i] IN c[1] \in 0 .. 8 /\ c[2] \in 0 .. 8
  <1>1. /\ TYPE_INFO_COORDINATES[1] = <<8, 0>> /\ TYPE_INFO_COORDINATES[2] = <<8, 1>>
        /\ TYPE_INFO_COORDINATES[3] = <<8, 2>> /\ TYPE_INFO_COORDINATES[4] = <<8, 3>>
        /\ TYPE_INFO_COORDINATES[5] = <<8, 4>> /\ TYPE_INFO_COORDINATES[6] = <<8, 5>>
        /\ TYPE_INFO_COORDINATES[7] = <<8, 7>> /\ TYPE_INFO_COORDINATES[8] = <<8, 8>>
        /\ TYPE_INFO_COORDINATES[9] = <<7, 8>> /\ TYPE_INFO_COORDINATES[10] = <<5, 8>>
        /\ TYPE_INFO_COORDINATES[11] = <<4, 8>> /\ TYPE_INFO_COORDINATES[12] = <<3, 8>>
        /\ TYPE_INFO_COORDINATES[13] = <<2, 8>> /\ TYPE_INFO_COORDINATES[14] = <<1, 8>>
        /\ TYPE_INFO_COORDINATES[15] = <<0, 8>>
    BY DEF TYPE_INFO_COORDINATES
  <1>2. \A i \in 1 .. 15 :
           i \in {1, 2, 3, 4, 5, 6, 7, 8, 9, 10, 11, 12, 13, 14, 15}
    OBVIOUS
  <1> QED
    BY <1>1, <1>2

\* The first copy is read the other way round.
LEMMA Mirrored ==
    \A i \in 1 .. 15 : FormatCells[i] = TYPE_INFO_COORDINATES[16 - i]
  <1>1. /\ FormatCells[1] = TYPE_INFO_COORDINATES[15] /\ FormatCells[2] = TYPE_INFO_COORDINATES[14]
        /\ FormatCells[3] = TYPE_INFO_COORDINATES[13] /\ FormatCells[4] = TYPE_INFO_COORDINATES[12]
        /\ FormatCells[5] = TYPE_INFO_COORDINATES[11] /\ FormatCells[6] = TYPE_INFO_COORDINATES[10]
        /\ FormatCells[7] = TYPE_INFO_COORDINATES[9] /\ FormatCells[8] = TYPE_INFO_COORDINATES[8]
        /\ FormatCells[9] = TYPE_INFO_COORDINATES[7] /\ FormatCells[10] = TYPE_INFO_COORDINATES[6]
        /\ FormatCells[11] = TYPE_INFO_COORDINATES[5] /\ FormatCells[12] = TYPE_INFO_COORDINATES[4]
        /\ FormatCells[13] = TYPE_INFO_COORDINATES[3] /\ FormatCells[14] = TYPE_INFO_COORDINATES[2]
        /\ FormatCells[15] = TYPE_INFO_COORDINATES[1]
    BY DEF FormatCells, TYPE_INFO_COORDINATES
  <1>2. \A i \in 1 .. 15 :
           i \in {1, 2, 3, 4, 5, 6, 7, 8, 9, 10, 11, 12, 13, 14, 15}
    OBVIOUS
  <1> QED
    BY <1>1, <1>2

\* The words of a drawn code.
LEMMA WordsDrawn ==
    ASSUME NEW version \in 1 .. 40, NEW f \in Formats, NEW data, NEW mask, NEW d,
           d = DimensionForVersion(version), NEW m, m = Drawn(version, f, data, mask)
    PROVE  /\ \A cells \in {FormatCells, OtherFormatCells(d)} :
                 CopyBits(m, cells) = formatWord[f]
           /\ version >= 7 => \A cells \in {TopRight(d), BottomLeft(d)} :
                 CopyBits(m, cells) = versionWord[version]
  <1> DEFINE patterns(g) == FunctionPatterns(version, g)
             type(g) == TypeInfo(d, g)
  <1>0. d \in Nat /\ d = 17 + 4 * version
    BY DEF DimensionForVersion
  <1>1. \A c \in DOMAIN patterns(f) : m[c] = patterns(f)[c]
    BY DEF Drawn, Over
  <1>2. \A g : \A c \in DOMAIN type(g) : c \in DOMAIN patterns(g) /\ patterns(g)[c] = type(g)[c]
    BY DEF FunctionPatterns, Over
  <1>3. ASSUME NEW cells \in {FormatCells, OtherFormatCells(d)}
        PROVE  CopyBits(m, cells) = formatWord[f]
    <2>1. \A i \in DOMAIN cells : cells[i] \in DOMAIN type(f)
      <3>1. DOMAIN cells = 1 .. 15
        BY DEF FormatCells, OtherFormatCells
      <3>2. /\ \A k \in 0 .. 14 : TYPE_INFO_COORDINATES[k + 1] \in DOMAIN type(f)
            /\ \A k \in 0 .. 14 : SecondCopy(d, k) \in DOMAIN type(f)
        <4>1. DOMAIN type(f) = TypeCells(d)
          BY TypeInfoCells
        <4> HIDE DEF type
        <4> QED
          BY ONLY <4>1 DEF TypeCells
      <3>3. CASE cells = FormatCells
        <4>1. \A i \in 1 .. 15 : FormatCells[i] = TYPE_INFO_COORDINATES[16 - i]
          BY Mirrored
        <4>2. \A i \in 1 .. 15 : 15 - i \in 0 .. 14 /\ 16 - i = (15 - i) + 1
          OBVIOUS
        <4> QED
          BY <3>1, <3>2, <3>3, <4>1, <4>2
      <3>4. CASE cells = OtherFormatCells(d)
        <4>1. \A i \in 1 .. 15 : cells[i] = SecondCopy(d, 15 - i)
          BY <1>0, <3>4 DEF OtherFormatCells, SecondCopy
        <4>2. \A i \in 1 .. 15 : 15 - i \in 0 .. 14
          OBVIOUS
        <4> HIDE DEF type
        <4> QED
          BY <3>1, <3>2, <4>1, <4>2
      <3> QED
        BY <3>3, <3>4
    <2>2. \A i \in DOMAIN cells : m[cells[i]] = type(f)[cells[i]]
      BY <1>1, <1>2, <2>1
    <2>3. CopyBits(m, cells) = CopyBits(type(f), cells)
      BY <2>2 DEF CopyBits
    <2> QED
      BY <2>3, SameCells
  <1>4. ASSUME version >= 7, NEW cells \in {TopRight(d), BottomLeft(d)}
        PROVE  CopyBits(m, cells) = versionWord[version]
    <2>1. \A i \in DOMAIN cells : \A g : cells[i] \notin DOMAIN type(g)
      <3>1. \A i \in 0 .. 14 : LET c == TYPE_INFO_COORDINATES[i + 1]
                               IN c[1] \in 0 .. 8 /\ c[2] \in 0 .. 8
        <4>1. \A i \in 0 .. 14 : i + 1 \in 1 .. 15
          OBVIOUS
        <4> QED
          BY <4>1, Coordinates
      <3>2. \A i \in 0 .. 14 : LET c == SecondCopy(d, i) IN c[1] = 8 \/ c[2] = 8
        BY DEF SecondCopy
      <3>3. \A g : \A c \in DOMAIN type(g) :
               \/ c[1] \in 0 .. 8 /\ c[2] \in 0 .. 8
               \/ c[1] = 8 \/ c[2] = 8
        <4> TAKE g
        <4> TAKE c \in DOMAIN type(g)
        <4>1. c \in TypeCells(d)
          BY TypeInfoCells
        <4>2. CASE c \in {TYPE_INFO_COORDINATES[i + 1] : i \in 0 .. 14}
          <5>1. PICK i \in 0 .. 14 : c = TYPE_INFO_COORDINATES[i + 1]
            BY <4>2
          <5> QED
            BY <3>1, <5>1
        <4>3. CASE c \in {SecondCopy(d, i) : i \in 0 .. 14}
          <5>1. PICK i \in 0 .. 14 : c = SecondCopy(d, i)
            BY <4>3
          <5> QED
            BY <3>2, <5>1
        <4> QED
          BY <4>1, <4>2, <4>3 DEF TypeCells
      <3>4. \A i \in DOMAIN cells :
               \/ cells[i][1] > 8 /\ cells[i][1] # 8 /\ cells[i][2] \in 0 .. 5
               \/ cells[i][2] > 8 /\ cells[i][2] # 8 /\ cells[i][1] \in 0 .. 5
        <4>1. CASE cells = TopRight(d)
          BY <1>0, <1>4, <4>1 DEF TopRight
        <4>2. CASE cells = BottomLeft(d)
          BY <1>0, <1>4, <4>2 DEF BottomLeft
        <4> QED
          BY <4>1, <4>2
      <3> HIDE DEF type
      <3> QED
        BY <3>3, <3>4
    <2>2. \A i \in DOMAIN cells : cells[i] \in FunctionPattern(version)
      <3>1. \A i \in DOMAIN cells :
               \/ cells[i] \in Region(d - 11, 0, 3, 6)
               \/ cells[i] \in Region(0, d - 11, 6, 3)
        <4>1. CASE cells = TopRight(d)
          BY <1>0, <4>1 DEF TopRight, Region
        <4>2. CASE cells = BottomLeft(d)
          BY <1>0, <4>2 DEF BottomLeft, Region
        <4> QED
          BY <4>1, <4>2
      <3>2. Region(d - 11, 0, 3, 6) \cup Region(0, d - 11, 6, 3) \subseteq FunctionPattern(version)
        <4>1. version > 6
          BY <1>4
        <4>2. LET e == DimensionForVersion(version)
              IN Region(e - 11, 0, 3, 6) \cup Region(0, e - 11, 6, 3)
                    \subseteq FunctionPattern(version)
          BY <4>1 DEF FunctionPattern
        <4> QED
          BY <4>2
      <3> QED
        BY <3>1, <3>2
    <2>3. \A g : \A i \in DOMAIN cells : cells[i] \in DOMAIN patterns(g)
      BY <2>2, PatternCells
    <2>4. \A i \in DOMAIN cells : patterns(f)[cells[i]] = patterns(0)[cells[i]]
      <3>1. \A g : \A c \in DOMAIN patterns(g) \ DOMAIN type(g) :
               patterns(g)[c] = (BasicPatterns(version) @@ VersionInfo(version))[c]
        BY DEF FunctionPatterns, Over
      <3> SUFFICES ASSUME NEW i \in DOMAIN cells
                   PROVE  patterns(f)[cells[i]] = patterns(0)[cells[i]]
        OBVIOUS
      <3>2. /\ cells[i] \in DOMAIN patterns(f) \ DOMAIN type(f)
            /\ cells[i] \in DOMAIN patterns(0) \ DOMAIN type(0)
        BY <2>1, <2>3
      <3> HIDE DEF patterns, type
      <3> QED
        BY <3>1, <3>2
    <2>5. CopyBits(m, cells) = CopyBits(patterns(0), cells)
      BY <1>1, <2>3, <2>4 DEF CopyBits
    <2> QED
      BY <1>4, <2>5, SameCells
  <1> QED
    BY <1>3, <1>4

\* One bit of a drawn code.
BitIsRead(version, f, mask, bits, i) ==
    LET cells == DataCells(version)
        m == Drawn(version, f, DataBits(bits, cells), mask)
    IN i \in DOMAIN cells /\ Unmasked(m, cells, mask)[i] = bits[i]

LEMMA BitDrawn ==
    ASSUME NEW version \in 1 .. 40, NEW f \in Formats, NEW mask \in Masks,
           NEW bits, Fit(bits, DataCells(version)), NEW i \in 1 .. Len(bits)
    PROVE  BitIsRead(version, f, mask, bits, i)
  <1> DEFINE patterns == FunctionPatterns(version, f)
             cells == DataCells(version)
  <1>1. Way(cells) /\ FunctionPattern(version) \cap Range(cells) = {}
    BY DataWay
  <1>0. i \in DOMAIN cells
    BY <1>1 DEF Way, Fit
  <1>2. cells[i] \notin DOMAIN patterns
    <2>1. cells[i] \in Range(cells)
      BY <1>0 DEF Range
    <2> QED
      BY <1>1, <2>1, PatternCells
  <1>3. Drawn(version, f, DataBits(bits, cells), mask)
           = Over(patterns, Masked(DataBits(bits, cells), mask))
    BY DEF Drawn
  <1> HIDE DEF patterns
  <1>4. Unmasked(Over(patterns, Masked(DataBits(bits, cells), mask)), cells, mask)[i] = bits[i]
    BY <1>1, <1>2, DataIsRead
  <1> QED
    BY <1>0, <1>3, <1>4 DEF BitIsRead

\* What is drawn of a format and of any bits that find room, with any mask, is read of a
\* photograph p of it: the format, while each of its copies has lost at most three bits;
\* the version, while one of its copies has; and of the bits each one whose cell is as it
\* was drawn (BitMatrixParser against MatrixUtil, for every version).
THEOREM PhotographIsRead ==
    ASSUME NEW version \in 1 .. 40, NEW f \in Formats, NEW mask \in Masks,
           NEW bits, Fit(bits, DataCells(version)), NEW p
    PROVE  LET d == DimensionForVersion(version)
               cells == DataCells(version)
               m == Drawn(version, f,
                          DataBits(bits, Free(d, DOMAIN FunctionPatterns(version, 0))), mask)
               Damage(copy) == NumBitsDiffering(CopyBits(p, copy), CopyBits(m, copy))
           IN /\ (\A copy \in {FormatCells, OtherFormatCells(d)} : Damage(copy) <= 3)
                    => ReadFormatInformation(p, d) = {f}
              /\ (version >= 7 => \E copy \in {TopRight(d), BottomLeft(d)} : Damage(copy) <= 3)
                    => ReadVersion(p, d) = {version}
              /\ \A i \in 1 .. Len(bits) :
                    p[cells[i]] = m[cells[i]] => Unmasked(p, cells, mask)[i] = bits[i]
  <1> DEFINE d == DimensionForVersion(version)
             cells == DataCells(version)
             m == Drawn(version, f, DataBits(bits, cells), mask)
             Damage(copy) == NumBitsDiffering(CopyBits(p, copy), CopyBits(m, copy))
  <1>1. cells = Free(d, DOMAIN FunctionPatterns(version, 0))
    BY SamePatterns DEF DataCells
  <1>2. ASSUME \A copy \in {FormatCells, OtherFormatCells(d)} : Damage(copy) <= 3
        PROVE  ReadFormatInformation(p, d) = {f}
    <2>1. \A copy \in {FormatCells, OtherFormatCells(d)} : CopyBits(m, copy) = formatWord[f]
      BY WordsDrawn
    <2> HIDE DEF m
    <2> QED
      BY <1>2, <2>1, FormatIsRead
  <1>3. ASSUME version >= 7 => \E copy \in {TopRight(d), BottomLeft(d)} : Damage(copy) <= 3
        PROVE  ReadVersion(p, d) = {version}
    <2>1. version >= 7 => \A copy \in {TopRight(d), BottomLeft(d)} :
                             CopyBits(m, copy) = versionWord[version]
      BY WordsDrawn
    <2> HIDE DEF m
    <2> QED
      BY <1>3, <2>1, VersionIsRead
  <1>4. ASSUME NEW i \in 1 .. Len(bits), p[cells[i]] = m[cells[i]]
        PROVE  Unmasked(p, cells, mask)[i] = bits[i]
    <2>1. BitIsRead(version, f, mask, bits, i)
      BY BitDrawn
    <2>2. i \in DOMAIN cells /\ Unmasked(m, cells, mask)[i] = bits[i]
      BY <2>1 DEF BitIsRead
    <2> QED
      BY <1>4, <2>2 DEF Unmasked
  <1> QED
    BY <1>1, <1>2, <1>3, <1>4

-----------------------------------------------------------------------------
(* Numbers, and sequences put one after the other.                         *)

\* Every set of numbers has a least one.
LEMMA LeastNumber ==
    ASSUME NEW S, S \subseteq Nat, S # {}
    PROVE  \E x \in S : \A y \in S : ~ (y < x)
  <1> DEFINE R == {p \in Nat \X Nat : p[1] < p[2]}
  <1>1. IsWellFoundedOn(R, Nat)
    <2>1. R = OpToRel(<, Nat)
      BY Zenon DEF OpToRel
    <2> QED
      BY <2>1, NatLessThanWellFounded, Zenon
  <1>2. \E x \in S : \A y \in S : ~ (<<y, x>> \in R)
    <2> HIDE DEF R
    <2> QED
      BY <1>1, WFMin
  <1> QED
    BY <1>2

\* Induction, for a set in the place of a predicate.
LEMMA AllNumbers ==
    ASSUME NEW S, 0 \in S, \A n \in Nat : n \in S => n + 1 \in S
    PROVE  \A n \in Nat : n \in S
  <1> SUFFICES ASSUME Nat \ S # {} PROVE FALSE
    OBVIOUS
  <1>1. PICK x \in Nat \ S : \A y \in Nat \ S : ~ (y < x)
    BY LeastNumber
  <1>2. x # 0 /\ x - 1 \in Nat /\ x - 1 < x /\ (x - 1) + 1 = x
    BY <1>1
  <1> QED
    BY <1>1, <1>2

\* Induction up to a number.
LEMMA UpTo ==
    ASSUME NEW n \in Nat \ {0}, NEW S, 1 \in S, \A k \in 1 .. n - 1 : k \in S => k + 1 \in S
    PROVE  \A k \in 1 .. n : k \in S
  <1> DEFINE T == {k \in Nat : k + 1 \in 1 .. n => k + 1 \in S}
  <1>1. 0 \in T
    OBVIOUS
  <1>2. ASSUME NEW k \in Nat, k \in T PROVE k + 1 \in T
    <2> SUFFICES ASSUME k + 1 + 1 \in 1 .. n PROVE k + 1 + 1 \in S
      OBVIOUS
    <2>1. k + 1 \in 1 .. n - 1 /\ k + 1 \in S
      BY <1>2
    <2> QED
      BY <2>1
  <1>3. \A k \in Nat : k \in T
    <2> HIDE DEF T
    <2> QED
      BY <1>1, <1>2, AllNumbers
  <1> TAKE k \in 1 .. n
  <1>4. k - 1 \in Nat /\ k - 1 + 1 = k
    OBVIOUS
  <1> QED
    BY <1>3, <1>4

\* The local function of FlattenSeq is defined.
LEMMA FlattenDefined ==
    ASSUME NEW seqs, NEW n \in Nat
    PROVE  \E f : f = [i \in 1 .. n |-> IF i = 1 THEN seqs[i] ELSE f[i - 1] \o seqs[i]]
  <1> DEFINE Flatten(f, k) ==
                 f = [i \in 1 .. k |-> IF i = 1 THEN seqs[i] ELSE f[i - 1] \o seqs[i]]
             S == {k \in Nat : \E f : Flatten(f, k)}
  <1>1. 0 \in S
    <2> DEFINE e == [i \in 1 .. 0 |-> seqs[i]]
    <2>1. Flatten(e, 0)
      OBVIOUS
    <2> HIDE DEF Flatten
    <2> QED
      BY <2>1
  <1>2. ASSUME NEW k \in Nat, k \in S PROVE k + 1 \in S
    <2>1. PICK f : Flatten(f, k)
      <3> HIDE DEF Flatten
      <3> QED
        BY <1>2
    <2> DEFINE g == [i \in 1 .. k + 1 |-> IF i = 1 THEN seqs[i] ELSE f[i - 1] \o seqs[i]]
    <2>2. \A i \in 1 .. k : g[i] = f[i]
      <3> TAKE i \in 1 .. k
      <3>1. f[i] = IF i = 1 THEN seqs[i] ELSE f[i - 1] \o seqs[i]
        BY <2>1
      <3> QED
        BY <3>1
    <2>3. Flatten(g, k + 1)
      <3>1. \A i \in 1 .. k + 1 : i # 1 => g[i - 1] = f[i - 1]
        <4> HIDE DEF g
        <4> QED
          BY <2>2
      <3> QED
        BY <3>1
    <2> HIDE DEF g, Flatten
    <2> QED
      BY <2>3
  <1>3. n \in S
    <2> HIDE DEF S
    <2> QED
      BY <1>1, <1>2, AllNumbers
  <1> QED
    BY <1>3

\* Sequences put one after the other: end says where each one ends.
EndsAt(end, seqs, n) ==
    /\ end[0] = 0
    /\ \A i \in 0 .. n : end[i] \in Nat
    /\ \A i \in 0 .. n - 1 : end[i + 1] = end[i] + Len(seqs[i + 1])

Joined(s, A, end, seqs, n) ==
    /\ s \in Seq(A)
    /\ Len(s) = end[n]
    /\ \A i \in 0 .. n - 1 : \A j \in 1 .. Len(seqs[i + 1]) :
          end[i] + j \in 1 .. end[n] /\ s[end[i] + j] = seqs[i + 1][j]

Flattened(g, seqs, n) ==
    /\ g[1] = seqs[1]
    /\ \A i \in 1 .. n - 1 : g[i + 1] = g[i] \o seqs[i + 1]

LEMMA JoinedWithNext ==
    ASSUME NEW A, NEW seqs, NEW end, NEW k \in Nat, NEW s \in Seq(A), NEW t \in Seq(A),
           t = seqs[k + 1], end[k] \in Nat, end[k + 1] = end[k] + Len(t),
           Joined(s, A, end, seqs, k)
    PROVE  Joined(s \o t, A, end, seqs, k + 1)
  <1> DEFINE r == s \o t
  <1>1. Len(s) = end[k]
    BY DEF Joined
  <1>2. /\ r \in Seq(A)
        /\ Len(t) \in Nat /\ Len(r) = end[k + 1]
        /\ \A j \in 1 .. end[k] : r[j] = s[j]
        /\ \A j \in 1 .. Len(t) : r[end[k] + j] = t[j]
    <2>1. /\ r \in Seq(A)
          /\ Len(s) \in Nat /\ Len(t) \in Nat /\ Len(r) = Len(s) + Len(t)
          /\ \A j \in 1 .. Len(s) : r[j] = s[j]
          /\ \A j \in 1 .. Len(t) : r[Len(s) + j] = t[j]
      OBVIOUS
    <2> HIDE DEF r
    <2> QED
      BY <1>1, <2>1
  <1>3. ASSUME NEW i \in 0 .. k, NEW j \in 1 .. Len(seqs[i + 1])
        PROVE  end[i] + j \in 1 .. end[k + 1] /\ r[end[i] + j] = seqs[i + 1][j]
    <2>1. CASE i = k
      <3> HIDE DEF r
      <3>1. seqs[i + 1] = t /\ end[i] = end[k] /\ j \in 1 .. Len(t)
        BY <2>1
      <3>2. r[end[k] + j] = t[j]
        BY <1>2, <3>1
      <3>3. end[k] + j \in 1 .. end[k + 1]
        BY <1>2, <3>1
      <3> QED
        BY <3>1, <3>2, <3>3
    <2>2. CASE i \in 0 .. k - 1
      <3> DEFINE x == end[i] + j
      <3>1. x \in 1 .. end[k] /\ s[x] = seqs[i + 1][j]
        BY <2>2 DEF Joined
      <3> HIDE DEF r, x
      <3>2. r[x] = seqs[i + 1][j]
        BY <1>2, <3>1, Zenon
      <3>3. x \in 1 .. end[k + 1]
        BY <1>2, <3>1
      <3> QED
        BY <3>2, <3>3 DEF x
    <2>3. i = k \/ i \in 0 .. k - 1
      OBVIOUS
    <2> QED
      BY <2>1, <2>2, <2>3
  <1> QED
    BY <1>2, <1>3 DEF Joined

LEMMA EntriesInOrder ==
    ASSUME NEW A, NEW n \in Nat \ {0}, NEW seqs, \A i \in 1 .. n : seqs[i] \in Seq(A),
           NEW g, Flattened(g, seqs, n), NEW end, EndsAt(end, seqs, n)
    PROVE  Joined(g[n], A, end, seqs, n)
  <1>1. Joined(g[1], A, end, seqs, 1)
    <2>1. g[1] = seqs[1]
      BY DEF Flattened
    <2>2. seqs[1] \in Seq(A)
      OBVIOUS
    <2>3. end[0] = 0 /\ 0 \in 0 .. n - 1
      BY DEF EndsAt
    <2>4. end[0 + 1] = end[0] + Len(seqs[0 + 1])
      BY <2>3, Zenon DEF EndsAt
    <2> QED
      BY <2>1, <2>2, <2>3, <2>4 DEF Joined
  <1>2. ASSUME NEW k \in 1 .. n - 1, Joined(g[k], A, end, seqs, k)
        PROVE  Joined(g[k + 1], A, end, seqs, k + 1)
    <2>1. g[k + 1] = g[k] \o seqs[k + 1]
      BY Zenon DEF Flattened
    <2>2. k \in 0 .. n - 1 /\ k \in 0 .. n /\ k + 1 \in 1 .. n /\ k \in Nat
      OBVIOUS
    <2>3. end[k] \in Nat /\ end[k + 1] = end[k] + Len(seqs[k + 1])
      BY <2>2, Zenon DEF EndsAt
    <2>4. seqs[k + 1] \in Seq(A)
      BY <2>2
    <2>5. g[k] \in Seq(A)
      BY <1>2 DEF Joined
    <2> QED
      BY <1>2, <2>1, <2>2, <2>3, <2>4, <2>5, JoinedWithNext
  <1> DEFINE S == {k \in 1 .. n : Joined(g[k], A, end, seqs, k)}
  <1>3. 1 \in S /\ (\A k \in 1 .. n - 1 : k \in S => k + 1 \in S) /\ n \in 1 .. n
    BY <1>1, <1>2
  <1>4. n \in S
    <2> HIDE DEF S
    <2> QED
      BY <1>3, UpTo
  <1> QED
    BY <1>4

\* FlattenSeq puts sequences one after the other.
LEMMA FlattenSeqJoins ==
    ASSUME NEW A, NEW n \in Nat, NEW seqs \in [1 .. n -> Seq(A)],
           NEW end, EndsAt(end, seqs, n)
    PROVE  Joined(FlattenSeq(seqs), A, end, seqs, n)
  <1> DEFINE Flatten(f) ==
                 f = [i \in 1 .. n |-> IF i = 1 THEN seqs[i] ELSE f[i - 1] \o seqs[i]]
             g == CHOOSE f : Flatten(f)
  <1>1. Len(seqs) = n
    OBVIOUS
  <1>2. CASE n = 0
    <2>1. FlattenSeq(seqs) = seqs
      BY <1>1, <1>2 DEF FlattenSeq
    <2>2. seqs \in Seq(A)
      BY <1>2
    <2>3. end[0] = 0
      BY DEF EndsAt
    <2> QED
      BY <1>1, <1>2, <2>1, <2>2, <2>3 DEF Joined
  <1>3. CASE n # 0
    <2>1. FlattenSeq(seqs) = g[n]
      BY <1>1, <1>3, Zenon DEF FlattenSeq
    <2>2. Flatten(g)
      <3>1. \E f : Flatten(f)
        BY FlattenDefined
      <3> HIDE DEF Flatten
      <3> QED
        BY <3>1
    <2> HIDE DEF g
    <2>3. /\ g[1] = seqs[1]
          /\ \A i \in 1 .. n : i # 1 => g[i] = g[i - 1] \o seqs[i]
      <3>1. 1 \in 1 .. n
        BY <1>3
      <3>2. \A i \in 1 .. n : g[i] = IF i = 1 THEN seqs[i] ELSE g[i - 1] \o seqs[i]
        BY <2>2
      <3> HIDE DEF Flatten
      <3> QED
        BY <3>1, <3>2
    <2> HIDE DEF Flatten
    <2>4. Flattened(g, seqs, n)
      <3>1. ASSUME NEW i \in 1 .. n - 1 PROVE g[i + 1] = g[i] \o seqs[i + 1]
        <4> DEFINE k == i + 1
        <4>1. k \in 1 .. n /\ k # 1 /\ k - 1 = i
          OBVIOUS
        <4> HIDE DEF k
        <4>2. g[k] = g[k - 1] \o seqs[k]
          BY <2>3, <4>1, Zenon
        <4>3. g[k] = g[i] \o seqs[k]
          BY <4>1, <4>2, Zenon
        <4> QED
          BY <4>3, Zenon DEF k
      <3> QED
        BY <2>3, <3>1, Zenon DEF Flattened
    <2>5. n \in Nat \ {0} /\ \A i \in 1 .. n : seqs[i] \in Seq(A)
      BY <1>3
    <2> QED
      BY <2>1, <2>4, <2>5, EntriesInOrder, Zenon
  <1> QED
    BY <1>2, <1>3

Concatenated(r, s, t, A) ==
    /\ r \in Seq(A)
    /\ Len(s) \in Nat /\ Len(t) \in Nat /\ Len(r) = Len(s) + Len(t)
    /\ \A i \in 1 .. Len(s) : r[i] = s[i]
    /\ \A i \in 1 .. Len(t) : r[Len(s) + i] = t[i]

LEMMA Concatenation ==
    ASSUME NEW A, NEW s \in Seq(A), NEW t \in Seq(A)
    PROVE  Concatenated(s \o t, s, t, A)
  BY DEF Concatenated

LEMMA TwoParts ==
    ASSUME NEW A, NEW a \in Nat, NEW b \in Nat, NEW w \in [1 .. a + b -> A]
    PROVE  [i \in 1 .. a |-> w[i]] \o [i \in 1 .. b |-> w[a + i]] = w
  <1> DEFINE s == [i \in 1 .. a |-> w[i]]
             t == [i \in 1 .. b |-> w[a + i]]
             r == s \o t
  <1>1. s \in Seq(A) /\ Len(s) = a /\ \A i \in 1 .. a : s[i] = w[i]
    OBVIOUS
  <1>2. t \in Seq(A) /\ Len(t) = b /\ \A i \in 1 .. b : t[i] = w[a + i]
    <2>1. \A i \in 1 .. b : a + i \in 1 .. a + b
      OBVIOUS
    <2> QED
      BY <2>1
  <1> HIDE DEF s, t
  <1>3. /\ r \in Seq(A) /\ Len(r) = a + b
        /\ \A i \in 1 .. a : r[i] = s[i]
        /\ \A i \in 1 .. b : r[a + i] = t[i]
    <2>1. Concatenated(r, s, t, A)
      BY <1>1, <1>2, Concatenation
    <2> HIDE DEF r
    <2> QED
      BY <1>1, <1>2, <2>1 DEF Concatenated
  <1> HIDE DEF r
  <1>4. ASSUME NEW i \in 1 .. a + b PROVE r[i] = w[i]
    <2>1. CASE i \in 1 .. a
      BY <1>1, <1>3, <2>1
    <2>2. CASE i - a \in 1 .. b
      <3> DEFINE k == i - a
      <3>1. a + k = i /\ k \in 1 .. b
        BY <2>2
      <3> HIDE DEF k
      <3>2. r[a + k] = w[a + k]
        BY <1>2, <1>3, <3>1
      <3> QED
        BY <3>1, <3>2
    <2> QED
      BY <2>1, <2>2
  <1>5. r \in [1 .. a + b -> A]
    BY <1>3
  <1>6. r = w
    BY <1>4, <1>5
  <1> QED
    BY <1>6 DEF r, s, t

-----------------------------------------------------------------------------
(* Interleaving: one byte of each block in turn.                           *)

\* The lengths of n blocks: the first m have q bytes, the others one more.
Sizes(blocks, n, m, q) ==
    \A j \in 1 .. n : Len(blocks[j]) = IF j <= m THEN q ELSE q + 1

\* The bytes that Encoder::interleaveWithECBytes() takes of the blocks in one turn.
TurnOf(blocks, i) ==
    [j \in DOMAIN blocks |-> IF i <= Len(blocks[j]) THEN <<blocks[j][i]>> ELSE <<>>]

LongestOf(blocks) == Max({0} \cup {Len(blocks[j]) : j \in DOMAIN blocks})

LEMMA Longest ==
    ASSUME NEW n \in Nat \ {0}, NEW m \in 1 .. n, NEW q \in Nat, NEW blocks,
           DOMAIN blocks = 1 .. n, Sizes(blocks, n, m, q)
    PROVE  LongestOf(blocks) = IF m < n THEN q + 1 ELSE q
  <1> DEFINE S == {0} \cup {Len(blocks[j]) : j \in DOMAIN blocks}
             max == IF m < n THEN q + 1 ELSE q
  <1>1. \A x \in S : x \in Nat /\ x <= max
    BY DEF Sizes
  <1>2. max \in S
    <2>1. n \in 1 .. n /\ Len(blocks[n]) = max
      BY DEF Sizes
    <2> QED
      BY <2>1
  <1> HIDE DEF S, max
  <1>3. max \in Nat
    BY DEF max
  <1>4. Max(S) \in S /\ \A y \in S : Max(S) >= y
    <2>1. \E x \in S : \A y \in S : x >= y
      BY <1>1, <1>2, <1>3
    <2> QED
      BY <2>1, Zenon DEF Max
  <1>5. Max(S) = max
    <2> DEFINE x == Max(S)
    <2> HIDE DEF x
    <2>1. x \in S /\ \A y \in S : x >= y
      BY <1>4 DEF x
    <2>2. x = max
      BY <1>1, <1>2, <1>3, <2>1
    <2> QED
      BY <2>2 DEF x
  <1> QED
    BY <1>5 DEF S, max, LongestOf

LEMMA OneElement ==
    ASSUME NEW A, NEW x \in A
    PROVE  <<x>> \in Seq(A) /\ Len(<<x>>) = 1 /\ <<x>>[1] = x
  OBVIOUS

OneTurnOf(bytes, n, m) == [j \in 1 .. n |-> IF j <= m THEN <<>> ELSE <<bytes[j]>>]

\* The bytes after the first m of n, one after the other.
Taken(s, A, bytes, n, m) ==
    s \in Seq(A) /\ Len(s) = n - m /\ \A j \in m + 1 .. n : s[j - m] = bytes[j]

\* A turn that begins with the block after the first m.
LEMMA OneTurn ==
    ASSUME NEW A, NEW n \in Nat, NEW m \in 0 .. n,
           NEW bytes, \A j \in m + 1 .. n : bytes[j] \in A
    PROVE  Taken(FlattenSeq(OneTurnOf(bytes, n, m)), A, bytes, n, m)
  <1> DEFINE turn == OneTurnOf(bytes, n, m)
             end == [j \in 0 .. n |-> IF j <= m THEN 0 ELSE j - m]
             s == FlattenSeq(turn)
  <1>1. /\ \A j \in 0 .. m : end[j] = 0
        /\ \A j \in m .. n : end[j] = j - m
    OBVIOUS
  <1>2. /\ \A j \in 1 .. m : turn[j] = <<>>
        /\ \A j \in m + 1 .. n : turn[j] = <<bytes[j]>>
        /\ turn = [j \in 1 .. n |-> turn[j]]
    BY DEF OneTurnOf
  <1> HIDE DEF end, turn
  <1>3. ASSUME NEW j \in 1 .. m PROVE turn[j] \in Seq(A) /\ Len(turn[j]) = 0
    <2>1. turn[j] = <<>>
      BY <1>2
    <2> QED
      BY <2>1
  <1>4. ASSUME NEW j \in m + 1 .. n
        PROVE  turn[j] \in Seq(A) /\ Len(turn[j]) = 1 /\ turn[j][1] = bytes[j]
    <2>1. bytes[j] \in A /\ turn[j] = <<bytes[j]>>
      BY <1>2
    <2> QED
      BY <2>1, OneElement
  <1>5. \A j \in 1 .. n : j \in 1 .. m \/ j \in m + 1 .. n
    OBVIOUS
  <1>6. turn \in [1 .. n -> Seq(A)]
    BY <1>2, <1>3, <1>4, <1>5
  <1>7. EndsAt(end, turn, n)
    <2>1. end[0] = 0 /\ \A j \in 0 .. n : end[j] \in Nat
      BY <1>1
    <2>2. ASSUME NEW j \in 0 .. n - 1 PROVE end[j + 1] = end[j] + Len(turn[j + 1])
      <3>1. CASE j + 1 \in 1 .. m
        BY <1>1, <1>3, <3>1
      <3>2. CASE j + 1 \in m + 1 .. n
        <4>1. Len(turn[j + 1]) = 1
          BY <1>4, <3>2
        <4>2. end[j + 1] = j + 1 - m /\ end[j] = j - m
          BY <1>1, <3>2
        <4> QED
          BY <4>1, <4>2
      <3> QED
        BY <3>1, <3>2
    <2> QED
      BY <2>1, <2>2 DEF EndsAt
  <1>8. Joined(s, A, end, turn, n)
    BY <1>6, <1>7, FlattenSeqJoins
  <1> HIDE DEF s
  <1>9. s \in Seq(A) /\ Len(s) = n - m
    BY <1>1, <1>8 DEF Joined
  <1>10. ASSUME NEW j \in m + 1 .. n PROVE s[j - m] = bytes[j]
    <2> DEFINE i == j - 1
    <2>1. /\ i \in 0 .. n - 1 /\ end[i] + 1 = j - m
          /\ 1 \in 1 .. Len(turn[i + 1]) /\ turn[i + 1][1] = bytes[j]
      <3>1. i \in 0 .. n - 1 /\ i \in m .. n /\ i + 1 = j
        OBVIOUS
      <3> HIDE DEF i
      <3> QED
        BY <1>1, <1>4, <3>1
    <2> HIDE DEF i
    <2>2. s[end[i] + 1] = turn[i + 1][1]
      BY <1>8, <2>1, Zenon DEF Joined
    <2> QED
      BY <2>1, <2>2
  <1> QED
    BY <1>9, <1>10 DEF s, turn, Taken

\* The blocks after the first ones have a byte for turn i.
TakePart(blocks, A, n, first, i) ==
    /\ DOMAIN blocks = 1 .. n
    /\ \A j \in 1 .. first : ~ (i <= Len(blocks[j]))
    /\ \A j \in first + 1 .. n : i <= Len(blocks[j]) /\ blocks[j][i] \in A

BytesAt(blocks, n, i) == [j \in 1 .. n |-> blocks[j][i]]

LEMMA TurnEntries ==
    ASSUME NEW A, NEW n \in Nat, NEW first \in 0 .. n, NEW i \in Nat,
           NEW blocks, TakePart(blocks, A, n, first, i)
    PROVE  Taken(FlattenSeq(TurnOf(blocks, i)), A, BytesAt(blocks, n, i), n, first)
  <1> DEFINE bytes == BytesAt(blocks, n, i)
             turn == OneTurnOf(bytes, n, first)
  <1>1. TurnOf(blocks, i) = turn
    BY DEF TurnOf, OneTurnOf, TakePart, BytesAt
  <1>2. \A j \in first + 1 .. n : bytes[j] \in A
    BY DEF TakePart, BytesAt
  <1> HIDE DEF bytes
  <1>3. Taken(FlattenSeq(turn), A, bytes, n, first)
    BY <1>2, OneTurn
  <1> HIDE DEF turn
  <1> QED
    BY <1>1, <1>3 DEF bytes

InTurns(s, A, turns, n, q, rest) ==
    /\ s \in Seq(A) /\ Len(s) = n * q + rest
    /\ \A i \in 1 .. q : \A j \in 1 .. n : s[n * (i - 1) + j] = turns[i][j]
    /\ \A j \in 1 .. rest : s[n * q + j] = turns[q + 1][j]

FullAndRest(turns, A, n, q, rest) ==
    /\ turns = [i \in 1 .. IF rest = 0 THEN q ELSE q + 1 |-> turns[i]]
    /\ \A i \in 1 .. q : turns[i] \in Seq(A) /\ Len(turns[i]) = n
    /\ rest # 0 => turns[q + 1] \in Seq(A) /\ Len(turns[q + 1]) = rest

\* Full turns of n bytes, and perhaps a last one of fewer, put one after the other.
LEMMA TurnsEntries ==
    ASSUME NEW A, NEW n \in Nat \ {0}, NEW q \in Nat, NEW rest \in 0 .. n - 1,
           NEW turns, FullAndRest(turns, A, n, q, rest)
    PROVE  InTurns(FlattenSeq(turns), A, turns, n, q, rest)
  <1> DEFINE longest == IF rest = 0 THEN q ELSE q + 1
             end == [i \in 0 .. longest |-> IF i <= q THEN n * i ELSE n * q + rest]
             s == FlattenSeq(turns)
  <1>1. /\ longest \in Nat /\ q \in 0 .. longest
        /\ rest # 0 => longest = q + 1
        /\ rest = 0 => longest = q
    OBVIOUS
  <1>2. /\ \A i \in 0 .. q : end[i] = n * i
        /\ rest # 0 => end[q + 1] = n * q + rest
    BY <1>1
  <1> HIDE DEF end
  <1>3. turns = [i \in 1 .. longest |-> turns[i]]
    BY DEF FullAndRest
  <1>4. /\ \A i \in 1 .. q : turns[i] \in Seq(A) /\ Len(turns[i]) = n
        /\ rest # 0 => turns[q + 1] \in Seq(A) /\ Len(turns[q + 1]) = rest
    BY DEF FullAndRest
  <1> HIDE DEF longest
  <1>5. end[longest] = n * q + rest
    BY <1>1, <1>2
  <1>6. \A i \in Nat : n * i \in Nat /\ n * (i + 1) = n * i + n
    OBVIOUS
  <1>7. \A i \in 1 .. longest : i \in 1 .. q \/ (rest # 0 /\ i = q + 1)
    BY <1>1
  <1>8. turns \in [1 .. longest -> Seq(A)]
    <2>1. \A i \in 1 .. longest : turns[i] \in Seq(A)
      BY <1>7, <1>4
    <2> QED
      BY <1>3, <2>1
  <1>9. EndsAt(end, turns, longest)
    <2>1. end[0] = 0
      BY <1>1, <1>2
    <2>2. \A i \in 0 .. longest : end[i] \in Nat
      <3> TAKE i \in 0 .. longest
      <3>1. i \in 0 .. q \/ (rest # 0 /\ i = q + 1)
        BY <1>1
      <3> QED
        BY <1>2, <1>6, <3>1
    <2>3. ASSUME NEW i \in 0 .. longest - 1 PROVE end[i + 1] = end[i] + Len(turns[i + 1])
      <3>1. CASE i + 1 \in 1 .. q
        <4>1. end[i + 1] = n * (i + 1) /\ end[i] = n * i
          BY <1>2, <3>1
        <4>2. n * (i + 1) = n * i + n
          BY <1>6
        <4>3. Len(turns[i + 1]) = n
          BY <1>4, <3>1
        <4> QED
          BY <4>1, <4>2, <4>3
      <3>2. CASE rest # 0 /\ i = q
        <4>1. end[q + 1] = n * q + rest /\ end[q] = n * q /\ Len(turns[q + 1]) = rest
          BY <1>2, <1>4, <3>2
        <4> QED
          BY <3>2, <4>1
      <3> QED
        BY <1>1, <3>1, <3>2
    <2> QED
      BY <2>1, <2>2, <2>3 DEF EndsAt
  <1>10. Joined(s, A, end, turns, longest)
    BY <1>1, <1>8, <1>9, FlattenSeqJoins
  <1> HIDE DEF s
  <1>11. s \in Seq(A) /\ Len(s) = n * q + rest
    BY <1>5, <1>10 DEF Joined
  <1>12. ASSUME NEW i \in 0 .. longest - 1, NEW j \in 1 .. Len(turns[i + 1])
         PROVE  s[end[i] + j] = turns[i + 1][j]
    BY <1>10, Zenon DEF Joined
  <1>13. ASSUME NEW i \in 1 .. q, NEW j \in 1 .. n PROVE s[n * (i - 1) + j] = turns[i][j]
    <2> DEFINE k == i - 1
    <2>1. k \in 0 .. longest - 1 /\ k \in 0 .. q /\ k + 1 = i
      BY <1>1
    <2>2. j \in 1 .. Len(turns[i])
      BY <1>4
    <2> HIDE DEF k
    <2>3. end[k] = n * k
      BY <1>2, <2>1
    <2>4. s[end[k] + j] = turns[i][j]
      BY <1>12, <2>1, <2>2
    <2> QED
      BY <2>3, <2>4 DEF k
  <1>14. ASSUME NEW j \in 1 .. rest PROVE s[n * q + j] = turns[q + 1][j]
    <2>1. q \in 0 .. longest - 1 /\ q \in 0 .. q /\ j \in 1 .. Len(turns[q + 1])
      BY <1>1, <1>4
    <2> QED
      BY <1>2, <1>12, <2>1
  <1> QED
    BY <1>11, <1>13, <1>14 DEF s, InTurns

BlocksOf(blocks, A, n, m, q) ==
    /\ DOMAIN blocks = 1 .. n
    /\ \A j \in 1 .. n : blocks[j] \in Seq(A)
    /\ Sizes(blocks, n, m, q)

Interleaved(s, A, blocks, n, m, q) ==
    /\ s \in Seq(A) /\ Len(s) = n * q + (n - m)
    /\ \A i \in 1 .. q : \A j \in 1 .. n : s[n * (i - 1) + j] = blocks[j][i]
    /\ \A j \in m + 1 .. n : s[n * q + (j - m)] = blocks[j][q + 1]

\* Encoder::interleaveWithECBytes() takes one byte of each block in turn.
LEMMA RoundRobinEntries ==
    ASSUME NEW A, NEW n \in Nat \ {0}, NEW m \in 1 .. n, NEW q \in Nat,
           NEW blocks, BlocksOf(blocks, A, n, m, q)
    PROVE  Interleaved(RoundRobin(blocks), A, blocks, n, m, q)
  <1> USE DEF BlocksOf
  <1> DEFINE longest == IF m < n THEN q + 1 ELSE q
             turns == [i \in 1 .. longest |-> FlattenSeq(TurnOf(blocks, i))]
             s == FlattenSeq(turns)
  <1>1. RoundRobin(blocks) = s
    <2>1. LongestOf(blocks) = longest
      BY Longest
    <2> HIDE DEF longest
    <2> QED
      BY <2>1, Zenon DEF RoundRobin, TurnOf, LongestOf
  <1>2. \A i \in 1 .. longest : turns[i] = FlattenSeq(TurnOf(blocks, i))
    OBVIOUS
  <1>3. turns = [i \in 1 .. longest |-> turns[i]]
    OBVIOUS
  <1> HIDE DEF turns
  <1>4. ASSUME NEW i \in 1 .. q
        PROVE  /\ turns[i] \in Seq(A) /\ Len(turns[i]) = n
               /\ \A j \in 1 .. n : turns[i][j] = blocks[j][i]
    <2>1. \A j \in 1 .. n : i <= Len(blocks[j]) /\ blocks[j][i] \in A
      BY DEF Sizes
    <2>2. TakePart(blocks, A, n, 0, i)
      BY <2>1 DEF TakePart
    <2>3. 0 \in 0 .. n /\ n \in Nat /\ i \in Nat
      OBVIOUS
    <2>4. Taken(turns[i], A, BytesAt(blocks, n, i), n, 0)
      <3>1. turns[i] = FlattenSeq(TurnOf(blocks, i))
        BY <1>2
      <3> QED
        BY <2>2, <2>3, <3>1, TurnEntries
    <2>5. \A j \in 1 .. n : j \in 0 + 1 .. n /\ j - 0 = j
      OBVIOUS
    <2> QED
      BY <2>4, <2>5 DEF Taken, BytesAt
  <1>5. ASSUME m < n
        PROVE  /\ turns[q + 1] \in Seq(A) /\ Len(turns[q + 1]) = n - m
               /\ \A j \in m + 1 .. n : turns[q + 1][j - m] = blocks[j][q + 1]
    <2>1. /\ \A j \in 1 .. m : ~ (q + 1 <= Len(blocks[j]))
          /\ \A j \in m + 1 .. n : q + 1 <= Len(blocks[j]) /\ blocks[j][q + 1] \in A
      BY DEF Sizes
    <2>2. turns[q + 1] = FlattenSeq(TurnOf(blocks, q + 1))
      BY <1>2, <1>5
    <2>3. m \in 0 .. n /\ q + 1 \in Nat /\ n \in Nat
      OBVIOUS
    <2>4. TakePart(blocks, A, n, m, q + 1)
      BY <2>1 DEF TakePart
    <2>5. Taken(turns[q + 1], A, BytesAt(blocks, n, q + 1), n, m)
      BY <2>2, <2>3, <2>4, TurnEntries
    <2>6. \A j \in m + 1 .. n : BytesAt(blocks, n, q + 1)[j] = blocks[j][q + 1]
      BY DEF BytesAt
    <2> QED
      BY <2>5, <2>6 DEF Taken
  <1>6. InTurns(s, A, turns, n, q, n - m)
    <2>1. n - m \in 0 .. n - 1 /\ (n - m # 0 => m < n)
      OBVIOUS
    <2>2. longest = IF n - m = 0 THEN q ELSE q + 1
      OBVIOUS
    <2> HIDE DEF longest
    <2>3. turns = [i \in 1 .. IF n - m = 0 THEN q ELSE q + 1 |-> turns[i]]
      BY <1>3, <2>2
    <2>4. FullAndRest(turns, A, n, q, n - m)
      BY <1>4, <1>5, <2>1, <2>3 DEF FullAndRest
    <2> QED
      BY <2>1, <2>4, TurnsEntries
  <1> HIDE DEF s
  <1>7. ASSUME NEW j \in m + 1 .. n PROVE s[n * q + (j - m)] = blocks[j][q + 1]
    <2>1. j - m \in 1 .. n - m /\ m < n
      OBVIOUS
    <2>2. s[n * q + (j - m)] = turns[q + 1][j - m]
      BY <1>6, <2>1 DEF InTurns
    <2>3. turns[q + 1][j - m] = blocks[j][q + 1]
      BY <1>5, <2>1
    <2> QED
      BY <2>2, <2>3
  <1> QED
    BY <1>1, <1>4, <1>6, <1>7 DEF InTurns, Interleaved

-----------------------------------------------------------------------------
(* The places of the codewords.                                            *)

\* How many blocks a code has, how many of them are the shorter ones, and how many bytes
\* of data and of error correction a shorter one has.
Shorter(version, level) == NumBlocks(version, level)
                               - (TotalCodewords(version) % NumBlocks(version, level))
DataBytes(version, level) == NumDataBytes(version, level) \div NumBlocks(version, level)
DataLength(j, m, q) == IF j <= m THEN q ELSE q + 1

LEMMA Table ==
    ASSUME NEW version \in 1 .. 40, NEW level \in Levels
    PROVE  LET n == NumBlocks(version, level)
               m == Shorter(version, level)
               q == DataBytes(version, level)
               e == ECBytesOfBlock(version, level)
           IN /\ n \in Nat \ {0} /\ m \in 1 .. n /\ q \in Nat /\ e \in Nat
              /\ DataBytesOfBlocks(version, level) = [j \in 1 .. n |-> DataLength(j, m, q)]
              /\ NumDataBytes(version, level) = n * q + (n - m)
              /\ TotalCodewords(version) = n * q + (n - m) + n * e
  <1> DEFINE n == NumBlocks(version, level)
             total == TotalCodewords(version)
             data == NumDataBytes(version, level)
             m == Shorter(version, level)
             q == DataBytes(version, level)
             e == ECBytesOfBlock(version, level)
  <1>1. /\ n \in 1 .. total /\ data \in n .. total /\ e \in 1 .. total
        /\ data = n * (data \div n) + (total % n)
        /\ total = data + n * e
    BY BytesMatch
  <1>2. m = n - (total % n) /\ q = data \div n
    BY DEF Shorter, DataBytes
  <1>3. DataBytesOfBlocks(version, level)
            = [j \in 1 .. n |-> q + (IF j <= m THEN 0 ELSE 1)]
    BY <1>2 DEF DataBytesOfBlocks
  <1> HIDE DEF n, total, data, m, q, e
  <1>4. total \in Nat /\ n \in Nat \ {0} /\ data \in Nat /\ e \in Nat
    BY <1>1
  <1>5. total % n \in 0 .. n - 1 /\ data \div n \in Nat
    BY <1>4
  <1>6. m \in 1 .. n /\ q \in Nat /\ n - m = total % n
    BY <1>2, <1>4, <1>5
  <1>7. data = n * q + (n - m) /\ total = n * q + (n - m) + n * e
    BY <1>1, <1>2, <1>6
  <1>8. \A j \in 1 .. n : q + (IF j <= m THEN 0 ELSE 1) = DataLength(j, m, q)
    BY <1>6 DEF DataLength
  <1> QED
    BY <1>3, <1>4, <1>6, <1>7, <1>8 DEF n, total, data, m, q, e

\* Where the decoder finds codeword i of block j (DataBlock::getDataBlocks()).
Place(n, m, q, j, i) ==
    IF i <= q THEN n * (i - 1) + j
    ELSE IF i <= DataLength(j, m, q) THEN n * q + (j - m)
    ELSE n * q + (n - m) + n * (i - DataLength(j, m, q) - 1) + j

LEMMA PlaceInCode ==
    ASSUME NEW n \in Nat \ {0}, NEW m \in 1 .. n, NEW q \in Nat, NEW e \in Nat,
           NEW j \in 1 .. n, NEW i \in 1 .. DataLength(j, m, q) + e
    PROVE  Place(n, m, q, j, i) \in 1 .. n * q + (n - m) + n * e
  <1> DEFINE b == DataLength(j, m, q)
  <1>1. \A x, y \in Nat : x <= y => n * x \in Nat /\ n * x <= n * y /\ n * y \in Nat
    OBVIOUS
  <1>2. \A x \in Nat : n * (x + 1) = n * x + n
    OBVIOUS
  <1>3. b \in {q, q + 1} /\ (b = q + 1 => j > m)
    BY DEF DataLength
  <1>4. CASE i <= q
    <2> DEFINE x == i - 1
    <2>1. x \in Nat /\ x + 1 <= q /\ x + 1 \in Nat
      BY <1>4, <1>3
    <2>2. Place(n, m, q, j, i) = n * x + j
      BY <1>4 DEF Place
    <2> HIDE DEF x
    <2>3. n * x \in Nat /\ n * x + n <= n * q /\ n * q \in Nat /\ n * e \in Nat
      BY <1>1, <1>2, <2>1
    <2> QED
      BY <2>2, <2>3
  <1>5. CASE ~ (i <= q) /\ i <= b
    <2>1. Place(n, m, q, j, i) = n * q + (j - m) /\ j > m
      BY <1>3, <1>5 DEF Place
    <2>2. n * q \in Nat /\ n * e \in Nat
      BY <1>1
    <2> QED
      BY <2>1, <2>2
  <1>6. CASE ~ (i <= q) /\ ~ (i <= b)
    <2> DEFINE x == i - b - 1
    <2>1. x \in Nat /\ x + 1 <= e /\ x + 1 \in Nat
      BY <1>3, <1>6
    <2>2. Place(n, m, q, j, i) = n * q + (n - m) + n * x + j
      BY <1>6 DEF Place
    <2> HIDE DEF x
    <2>3. n * x \in Nat /\ n * x + n <= n * e /\ n * q \in Nat /\ n * e \in Nat
      BY <1>1, <1>2, <2>1
    <2> QED
      BY <2>2, <2>3
  <1> QED
    BY <1>4, <1>5, <1>6

\* What the code holds at the place of codeword i of block j.
Placed(sent, A, data, ec, n, m, q, e) ==
    /\ sent \in Seq(A) /\ Len(sent) = n * q + (n - m) + n * e
    /\ \A j \in 1 .. n : \A i \in 1 .. DataLength(j, m, q) + e :
          sent[Place(n, m, q, j, i)] = IF i <= DataLength(j, m, q) THEN data[j][i]
                                       ELSE ec[j][i - DataLength(j, m, q)]

LEMMA SentIsPlaced ==
    ASSUME NEW A, NEW n \in Nat \ {0}, NEW m \in 1 .. n, NEW q \in Nat, NEW e \in Nat,
           NEW data, BlocksOf(data, A, n, m, q), NEW ec, BlocksOf(ec, A, n, n, e)
    PROVE  Placed(InterleaveBlocks(data, ec), A, data, ec, n, m, q, e)
  <1> DEFINE s == RoundRobin(data)
             t == RoundRobin(ec)
             sent == s \o t
  <1>0. Interleaved(s, A, data, n, m, q) /\ Interleaved(t, A, ec, n, n, e)
    BY RoundRobinEntries
  <1> HIDE DEF s, t
  <1>3. n * q \in Nat /\ n * e \in Nat
    OBVIOUS
  <1>1. /\ s \in Seq(A) /\ Len(s) = n * q + (n - m)
        /\ \A i \in 1 .. q : \A j \in 1 .. n : s[n * (i - 1) + j] = data[j][i]
        /\ \A j \in m + 1 .. n : s[n * q + (j - m)] = data[j][q + 1]
    BY <1>0 DEF Interleaved
  <1>2. /\ t \in Seq(A) /\ Len(t) = n * e
        /\ \A i \in 1 .. e : \A j \in 1 .. n : t[n * (i - 1) + j] = ec[j][i]
    <2>1. Len(t) = n * e + (n - n)
      BY <1>0 DEF Interleaved
    <2>2. Len(t) = n * e
      BY <1>3, <2>1
    <2>3. /\ t \in Seq(A)
          /\ \A i \in 1 .. e : \A j \in 1 .. n : t[n * (i - 1) + j] = ec[j][i]
      BY <1>0 DEF Interleaved
    <2> QED
      BY <2>2, <2>3
  <1>4. /\ sent \in Seq(A) /\ Len(sent) = Len(s) + Len(t)
        /\ \A k \in 1 .. Len(s) : sent[k] = s[k]
        /\ \A k \in 1 .. Len(t) : sent[Len(s) + k] = t[k]
    <2>1. s \in Seq(A) /\ t \in Seq(A)
      BY <1>0 DEF Interleaved
    <2> QED
      BY <2>1
  <1> HIDE DEF sent
  <1>5. sent = InterleaveBlocks(data, ec)
    BY DEF sent, s, t, InterleaveBlocks
  <1>6. ASSUME NEW j \in 1 .. n, NEW i \in 1 .. DataLength(j, m, q) + e
        PROVE  sent[Place(n, m, q, j, i)]
                   = IF i <= DataLength(j, m, q) THEN data[j][i]
                     ELSE ec[j][i - DataLength(j, m, q)]
    <2> DEFINE b == DataLength(j, m, q)
    <2>1. b \in {q, q + 1} /\ (b = q + 1 => j > m)
      BY DEF DataLength
    <2>2. \A x, y \in Nat : x <= y => n * x \in Nat /\ n * x <= n * y /\ n * y \in Nat
      OBVIOUS
    <2>3. \A x \in Nat : n * (x + 1) = n * x + n
      OBVIOUS
    <2>4. CASE i <= q
      <3> DEFINE x == i - 1
      <3>1. x \in Nat /\ x + 1 <= q /\ x + 1 \in Nat /\ i \in 1 .. q
        BY <2>1, <2>4
      <3>2. Place(n, m, q, j, i) = n * x + j
        BY <2>4 DEF Place
      <3>3. s[n * x + j] = data[j][i]
        BY <1>1, <3>1
      <3> HIDE DEF x
      <3>4. n * x \in Nat /\ n * x + n <= n * q
        BY <2>2, <2>3, <3>1
      <3>5. n * x + j \in 1 .. Len(s)
        <4>1. Len(s) = n * q + (n - m)
          BY <1>1
        <4> QED
          BY <1>3, <3>4, <4>1
      <3>6. sent[n * x + j] = data[j][i]
        BY <1>4, <3>3, <3>5
      <3>7. i <= b
        BY <2>1, <2>4
      <3> QED
        BY <3>2, <3>6, <3>7
    <2>5. CASE ~ (i <= q) /\ i <= b
      <3>1. Place(n, m, q, j, i) = n * q + (j - m) /\ j \in m + 1 .. n /\ i = q + 1
        BY <2>1, <2>5 DEF Place
      <3>2. s[n * q + (j - m)] = data[j][i]
        BY <1>1, <3>1
      <3>3. n * q + (j - m) \in 1 .. Len(s)
        BY <1>1, <1>3, <3>1
      <3>4. sent[n * q + (j - m)] = data[j][i]
        BY <1>4, <3>2, <3>3
      <3> QED
        BY <2>5, <3>1, <3>4
    <2>6. CASE ~ (i <= q) /\ ~ (i <= b)
      <3> DEFINE y == i - b
                 x == y - 1
      <3>1. x \in Nat /\ x + 1 = y /\ y \in 1 .. e /\ y \in Nat /\ y <= e
        <4>1. b \in Nat /\ i \in 1 .. b + e
          BY <2>1
        <4> HIDE DEF b
        <4> QED
          BY <2>6, <4>1
      <3>2. Place(n, m, q, j, i) = n * q + (n - m) + n * x + j
        BY <2>6 DEF Place
      <3>3. t[n * x + j] = ec[j][y]
        <4> HIDE DEF y
        <4> QED
          BY <1>2, <3>1
      <3> HIDE DEF x
      <3>4. n * x \in Nat /\ n * x + n <= n * e
        BY <2>2, <2>3, <3>1
      <3>5. n * x + j \in 1 .. Len(t)
        <4>1. Len(t) = n * e
          BY <1>2
        <4> HIDE DEF y
        <4> QED
          BY <1>3, <3>4, <4>1
      <3>6. sent[Len(s) + (n * x + j)] = ec[j][y]
        BY <1>4, <3>3, <3>5
      <3>7. Len(s) + (n * x + j) = n * q + (n - m) + n * x + j
        BY <1>1, <1>3, <3>4
      <3> QED
        BY <2>6, <3>2, <3>6, <3>7
    <2> QED
      BY <2>4, <2>5, <2>6
  <1>7. Len(sent) = n * q + (n - m) + n * e
    BY <1>1, <1>2, <1>3, <1>4
  <1> QED
    BY <1>4, <1>5, <1>6, <1>7 DEF Placed

\* What the decoder takes of a code as block j.
BlockRead(raw, n, m, q, e, j) ==
    [data |-> DataLength(j, m, q),
     codewords |-> [i \in 1 .. DataLength(j, m, q) + e |-> raw[Place(n, m, q, j, i)]]]

LEMMA LongerBlocks ==
    ASSUME NEW n \in Nat \ {0}, NEW m \in 1 .. n, NEW q \in Nat
    PROVE  Cardinality({j \in 1 .. n : DataLength(j, m, q) > q}) = n - m
  <1>1. {j \in 1 .. n : DataLength(j, m, q) > q} = m + 1 .. n
    BY DEF DataLength
  <1>2. Cardinality(m + 1 .. n) = n - m
    BY FS_Interval
  <1> QED
    BY <1>1, <1>2

LEMMA BlocksAreRead ==
    ASSUME NEW version \in 1 .. 40, NEW level \in Levels, NEW A,
           NEW raw \in Seq(A), Len(raw) = TotalCodewords(version)
    PROVE  LET n == NumBlocks(version, level)
               m == Shorter(version, level)
               q == DataBytes(version, level)
               e == ECBytesOfBlock(version, level)
           IN GetDataBlocks(raw, version, level)
                  = [j \in 1 .. n |-> BlockRead(raw, n, m, q, e, j)]
  <1> DEFINE n == NumBlocks(version, level)
             m == Shorter(version, level)
             q == DataBytes(version, level)
             e == ECBytesOfBlock(version, level)
             lengths == [j \in 1 .. n |-> DataLength(j, m, q)]
             DataAt(j, i) == IF i <= q THEN raw[n * (i - 1) + j]
                             ELSE raw[n * q + j - (n - (n - m))]
             ECAt(j, i) == raw[n * q + (n - m) + n * (i - 1) + j]
  <1>1. /\ n \in Nat \ {0} /\ m \in 1 .. n /\ q \in Nat /\ e \in Nat
        /\ Len(raw) = n * q + (n - m) + n * e
    BY Table
  <1>2. BlockLengths(version, level) = lengths
    BY Table, SameBlocks
  <1>3. ECBlocksForLevel(version, level).ecCodewordsPerBloc = e
    BY SameBlocks
  <1> HIDE DEF n, m, q, e
  <1>4. Len(lengths) = n /\ lengths[1] = q /\ \A j \in 1 .. n : lengths[j] = DataLength(j, m, q)
    BY <1>1 DEF DataLength
  <1> HIDE DEF lengths
  <1>5. Cardinality({j \in 1 .. n : lengths[j] > q}) = n - m
    <2>1. {j \in 1 .. n : lengths[j] > q} = {j \in 1 .. n : DataLength(j, m, q) > q}
      BY <1>4
    <2> QED
      BY <1>1, <2>1, LongerBlocks
  <1>6. GetDataBlocks(raw, version, level)
            = [j \in 1 .. n |->
                 [data |-> lengths[j],
                  codewords |-> [i \in 1 .. lengths[j] |-> DataAt(j, i)]
                                    \o [i \in 1 .. e |-> ECAt(j, i)]]]
    BY <1>2, <1>3, <1>4, <1>5, Zenon DEF GetDataBlocks
  <1>7. ASSUME NEW j \in 1 .. n
        PROVE  [i \in 1 .. lengths[j] |-> DataAt(j, i)] \o [i \in 1 .. e |-> ECAt(j, i)]
                   = [i \in 1 .. lengths[j] + e |-> raw[Place(n, m, q, j, i)]]
    <2> DEFINE b == lengths[j]
               s == [i \in 1 .. b |-> DataAt(j, i)]
               t == [i \in 1 .. e |-> ECAt(j, i)]
               u == [i \in 1 .. b + e |-> raw[Place(n, m, q, j, i)]]
    <2>1. b = DataLength(j, m, q) /\ b \in {q, q + 1} /\ b \in Nat
      BY <1>1, <1>4 DEF DataLength
    <2> HIDE DEF b
    <2>2. ASSUME NEW i \in 1 .. b + e PROVE raw[Place(n, m, q, j, i)] \in A
      <3>1. Place(n, m, q, j, i) \in 1 .. n * q + (n - m) + n * e
        BY <1>1, <2>1, PlaceInCode
      <3> QED
        BY <1>1, <3>1
    <2>3. \A i \in 1 .. b : DataAt(j, i) = raw[Place(n, m, q, j, i)]
      BY <1>1, <2>1 DEF Place
    <2>4. ASSUME NEW i \in 1 .. e PROVE ECAt(j, i) = raw[Place(n, m, q, j, b + i)]
      <3> DEFINE k == b + i
      <3>1. ~ (k <= q) /\ ~ (k <= b) /\ k - b - 1 = i - 1
        BY <1>1, <2>1
      <3> HIDE DEF k
      <3>2. Place(n, m, q, j, k) = n * q + (n - m) + n * (k - b - 1) + j
        BY <2>1, <3>1, Zenon DEF Place
      <3> QED
        BY <3>1, <3>2 DEF k
    <2> HIDE DEF DataAt, ECAt
    <2>5. /\ u \in [1 .. b + e -> A]
          /\ \A i \in 1 .. b + e : u[i] = raw[Place(n, m, q, j, i)]
      BY <2>2
    <2>6. \A i \in 1 .. b : i \in 1 .. b + e
      BY <1>1, <2>1
    <2>7. \A i \in 1 .. e : b + i \in 1 .. b + e
      BY <1>1, <2>1
    <2> HIDE DEF u
    <2>8. s = [i \in 1 .. b |-> u[i]]
      BY <2>3, <2>5, <2>6
    <2>9. t = [i \in 1 .. e |-> u[b + i]]
      BY <2>4, <2>5, <2>7
    <2> HIDE DEF s, t
    <2>10. s \o t = u
      BY <1>1, <2>1, <2>5, <2>8, <2>9, TwoParts
    <2> QED
      BY <2>10 DEF s, t, u, b
  <1> DEFINE Read(j) == [data |-> lengths[j],
                         codewords |-> [i \in 1 .. lengths[j] |-> DataAt(j, i)]
                                           \o [i \in 1 .. e |-> ECAt(j, i)]]
  <1>8. ASSUME NEW j \in 1 .. n PROVE Read(j) = BlockRead(raw, n, m, q, e, j)
    BY <1>4, <1>7 DEF BlockRead
  <1>9. GetDataBlocks(raw, version, level) = [j \in 1 .. n |-> Read(j)]
    BY <1>6, Zenon
  <1> HIDE DEF Read
  <1>10. GetDataBlocks(raw, version, level) = [j \in 1 .. n |-> BlockRead(raw, n, m, q, e, j)]
    BY <1>8, <1>9
  <1> QED
    BY <1>10, Zenon DEF n, m, q, e

-----------------------------------------------------------------------------
(* Dividing the bytes.                                                     *)

AllIn(seqs, A, n) == \A i \in 1 .. n : seqs[i] \in Seq(A)

\* Every entry of sequences that are put one after the other is an entry of one of them.
LEMMA EntryOfOne ==
    ASSUME NEW A, NEW n \in Nat, NEW seqs, AllIn(seqs, A, n),
           NEW end, EndsAt(end, seqs, n), NEW k \in 1 .. end[n]
    PROVE  \E i \in 0 .. n - 1 : \E j \in 1 .. Len(seqs[i + 1]) : k = end[i] + j
  <1> DEFINE S == {i \in 0 .. n : k <= end[i]}
  <1>1. S \subseteq Nat /\ S # {}
    <2>1. end[n] \in Nat
      BY DEF EndsAt
    <2>2. n \in S
      BY <2>1
    <2> QED
      BY <2>2
  <1>2. PICK x \in S : \A y \in S : ~ (y < x)
    <2> HIDE DEF S
    <2> QED
      BY <1>1, LeastNumber
  <1>3. x \in 0 .. n /\ k <= end[x] /\ k \in Nat \ {0}
    <2>1. end[n] \in Nat
      BY DEF EndsAt
    <2> QED
      BY <1>2, <2>1
  <1>4. x # 0
    <2>1. end[0] = 0
      BY DEF EndsAt
    <2> QED
      BY <1>3, <2>1
  <1> DEFINE i == x - 1
  <1>5. i \in 0 .. n - 1 /\ i + 1 = x /\ i < x /\ i \in 0 .. n
    BY <1>3, <1>4
  <1>6. ~ (i \in S)
    <2> HIDE DEF S, i
    <2> QED
      BY <1>2, <1>5
  <1> HIDE DEF i
  <1>7. ~ (k <= end[i])
    BY <1>5, <1>6
  <1> HIDE DEF S
  <1>8. end[i] \in Nat /\ end[x] \in Nat
    BY <1>3, <1>5, Zenon DEF EndsAt
  <1>9. end[i + 1] = end[i] + Len(seqs[i + 1])
    BY <1>5, Zenon DEF EndsAt
  <1> DEFINE l == Len(seqs[i + 1])
             j == k - end[i]
  <1> HIDE DEF l
  <1>10. end[x] = end[i] + l
    BY <1>5, <1>9 DEF l
  <1>11. l \in Nat
    <2>1. i + 1 \in 1 .. n
      BY <1>5
    <2>2. seqs[i + 1] \in Seq(A)
      BY <2>1 DEF AllIn
    <2> QED
      BY <2>2 DEF l
  <1>12. j \in 1 .. l /\ k = end[i] + j
    BY <1>3, <1>7, <1>8, <1>10, <1>11
  <1> QED
    BY <1>5, <1>12 DEF l

LEMMA JoinedIsUnique ==
    ASSUME NEW A, NEW n \in Nat, NEW seqs, AllIn(seqs, A, n),
           NEW end, EndsAt(end, seqs, n),
           NEW s, Joined(s, A, end, seqs, n), NEW t, Joined(t, A, end, seqs, n)
    PROVE  s = t
  <1>1. s \in Seq(A) /\ t \in Seq(A) /\ Len(s) = end[n] /\ Len(t) = end[n]
    BY DEF Joined
  <1>2. ASSUME NEW k \in 1 .. end[n] PROVE s[k] = t[k]
    <2>1. PICK i \in 0 .. n - 1 : \E j \in 1 .. Len(seqs[i + 1]) : k = end[i] + j
      BY EntryOfOne
    <2>2. PICK j \in 1 .. Len(seqs[i + 1]) : k = end[i] + j
      BY <2>1
    <2>3. s[end[i] + j] = seqs[i + 1][j] /\ t[end[i] + j] = seqs[i + 1][j]
      BY Zenon DEF Joined
    <2> QED
      BY <2>2, <2>3
  <1> QED
    BY <1>1, <1>2

\* How many bytes the blocks before block j have.
Start(m, q, j) == q * (j - 1) + IF j - 1 <= m THEN 0 ELSE j - 1 - m

LEMMA StartOfNext ==
    ASSUME NEW m \in Nat, NEW q \in Nat, NEW j \in Nat \ {0}
    PROVE  /\ Start(m, q, 1) = 0
           /\ Start(m, q, j) \in Nat
           /\ Start(m, q, j + 1) = Start(m, q, j) + DataLength(j, m, q)
  <1>1. Start(m, q, 1) = 0
    BY DEF Start
  <1>2. q * (j - 1) \in Nat /\ q * (j + 1 - 1) = q * (j - 1) + q
    OBVIOUS
  <1> QED
    BY <1>1, <1>2 DEF Start, DataLength

AreOffsets(f, lengths, n) ==
    f = [j \in 1 .. n |-> IF j = 1 THEN 0 ELSE f[j - 1] + lengths[j - 1]]

LEMMA Offsets ==
    ASSUME NEW n \in Nat \ {0}, NEW m \in 1 .. n, NEW q \in Nat, NEW lengths,
           lengths = [j \in 1 .. n |-> DataLength(j, m, q)],
           NEW f, AreOffsets(f, lengths, n)
    PROVE  \A j \in 1 .. n : f[j] = Start(m, q, j)
  <1> DEFINE S == {j \in 1 .. n : f[j] = Start(m, q, j)}
  <1>1. 1 \in S
    <2>1. f[1] = 0
      BY DEF AreOffsets
    <2>2. 1 \in Nat \ {0} /\ m \in Nat /\ 1 \in 1 .. n
      OBVIOUS
    <2> QED
      BY <2>1, <2>2, StartOfNext
  <1>2. ASSUME NEW k \in 1 .. n - 1, k \in S PROVE k + 1 \in S
    <2>1. k + 1 \in 1 .. n /\ k + 1 # 1 /\ k + 1 - 1 = k /\ k \in Nat \ {0} /\ k \in 1 .. n
      OBVIOUS
    <2>2. f[k + 1] = f[k] + lengths[k]
      BY <2>1 DEF AreOffsets
    <2>3. lengths[k] = DataLength(k, m, q)
      BY <2>1
    <2>4. Start(m, q, k + 1) = Start(m, q, k) + DataLength(k, m, q)
      BY <2>1, StartOfNext
    <2> QED
      BY <1>2, <2>1, <2>2, <2>3, <2>4
  <1>3. \A j \in 1 .. n : j \in S
    <2> HIDE DEF S
    <2> QED
      BY <1>1, <1>2, UpTo
  <1> QED
    BY <1>3

\* The blocks' numbers of bytes, and bytes divided into as many.
LengthsOf(n, m, q) == [j \in 1 .. n |-> DataLength(j, m, q)]
PartOf(bytes, m, q, j) ==
    SubSeq(bytes, Start(m, q, j) + 1, Start(m, q, j) + DataLength(j, m, q))
PartsOf(bytes, n, m, q) == [j \in 1 .. n |-> PartOf(bytes, m, q, j)]

LEMMA DividedAt ==
    ASSUME NEW n \in Nat \ {0}, NEW m \in 1 .. n, NEW q \in Nat, NEW lengths, NEW bytes,
           lengths = LengthsOf(n, m, q)
    PROVE  DivideBytes(bytes, lengths) = PartsOf(bytes, n, m, q)
  <1> DEFINE IsOffset(f) ==
                 f = [j \in DOMAIN lengths |-> IF j = 1 THEN 0 ELSE f[j - 1] + lengths[j - 1]]
             g == CHOOSE f : IsOffset(f)
             Part(j) == SubSeq(bytes, g[j] + 1, g[j] + lengths[j])
  <1>0. lengths = [j \in 1 .. n |-> DataLength(j, m, q)]
    BY DEF LengthsOf
  <1>1. DivideBytes(bytes, lengths) = [j \in DOMAIN lengths |-> Part(j)]
    BY Zenon DEF DivideBytes
  <1>2. DOMAIN lengths = 1 .. n /\ \A j \in 1 .. n : lengths[j] = DataLength(j, m, q)
    BY DEF LengthsOf
  <1>3. IsOffset(g)
    <2> DEFINE h == [j \in 1 .. n |-> Start(m, q, j)]
    <2>1. IsOffset(h)
      <3>1. ASSUME NEW j \in 1 .. n
            PROVE  h[j] = IF j = 1 THEN 0 ELSE h[j - 1] + lengths[j - 1]
        <4>1. CASE j = 1
          BY <4>1, StartOfNext
        <4>2. CASE j # 1
          <5> DEFINE k == j - 1
          <5>1. k \in 1 .. n /\ k + 1 = j /\ k \in Nat \ {0} /\ m \in Nat
            BY <4>2
          <5> HIDE DEF k
          <5>2. h[j] = Start(m, q, k + 1) /\ h[k] = Start(m, q, k)
            BY <5>1
          <5>3. h[j] = h[k] + lengths[k]
            BY <1>2, <5>1, <5>2, StartOfNext
          <5> QED
            BY <4>2, <5>3 DEF k
        <4> QED
          BY <4>1, <4>2
      <3>2. h = [j \in 1 .. n |-> h[j]]
        OBVIOUS
      <3> DEFINE Offset(j) == IF j = 1 THEN 0 ELSE h[j - 1] + lengths[j - 1]
      <3>3. \A j \in 1 .. n : h[j] = Offset(j)
        BY <3>1, Zenon
      <3> HIDE DEF h
      <3>4. h = [j \in 1 .. n |-> Offset(j)]
        <4> HIDE DEF Offset
        <4> QED
          BY <3>2, <3>3, Zenon
      <3> QED
        BY <1>2, <3>4, Zenon
    <2> HIDE DEF IsOffset, h
    <2> QED
      BY <2>1
  <1> HIDE DEF g
  <1>4. \A j \in 1 .. n : g[j] = Start(m, q, j)
    <2>1. AreOffsets(g, lengths, n)
      BY <1>2, <1>3 DEF AreOffsets
    <2> HIDE DEF IsOffset
    <2> QED
      BY <1>0, <2>1, Offsets
  <1> QED
    <2>1. \A j \in 1 .. n : Part(j) = PartOf(bytes, m, q, j)
      BY <1>2, <1>4 DEF PartOf
    <2>2. DivideBytes(bytes, lengths) = [j \in 1 .. n |-> Part(j)]
      BY <1>1, <1>2
    <2> HIDE DEF Part
    <2> QED
      BY <2>1, <2>2, Zenon DEF PartsOf

PartAt(t, s, A, a, b) ==
    t \in Seq(A) /\ Len(t) = b /\ \A i \in 1 .. b : t[i] = s[a + i]

LEMMA Part ==
    ASSUME NEW A, NEW s \in Seq(A), NEW a \in Nat, NEW b \in Nat, a + b <= Len(s)
    PROVE  PartAt(SubSeq(s, a + 1, a + b), s, A, a, b)
  <1> DEFINE t == SubSeq(s, a + 1, a + b)
  <1>1. t = [i \in 1 .. b |-> s[a + i]]
    OBVIOUS
  <1>2. \A i \in 1 .. b : a + i \in 1 .. Len(s) /\ s[a + i] \in A
    OBVIOUS
  <1> HIDE DEF t
  <1>3. t \in Seq(A) /\ Len(t) = b /\ \A i \in 1 .. b : t[i] = s[a + i]
    BY <1>1, <1>2
  <1> QED
    BY <1>3 DEF PartAt, t

LEMMA StartsInOrder ==
    ASSUME NEW n \in Nat \ {0}, NEW m \in 1 .. n, NEW q \in Nat, NEW j \in 1 .. n
    PROVE  /\ Start(m, q, j) \in Nat /\ DataLength(j, m, q) \in Nat
           /\ Start(m, q, j) + DataLength(j, m, q) <= n * q + (n - m)
           /\ Start(m, q, n + 1) = n * q + (n - m)
  <1> DEFINE x == j - 1
  <1>1. q * (j - 1) \in Nat /\ q * (j - 1) + q <= n * q /\ n * q \in Nat
    <2>1. x \in Nat /\ x + 1 <= n
      OBVIOUS
    <2> HIDE DEF x
    <2>2. q * x \in Nat /\ q * x + q <= n * q /\ n * q \in Nat
      <3>1. \A y, z \in Nat : y <= z => q * y <= q * z
        OBVIOUS
      <3>2. q * (x + 1) = q * x + q /\ q * n = n * q /\ q * x \in Nat
        BY <2>1
      <3>3. q * (x + 1) <= q * n
        BY <2>1, <3>1
      <3> QED
        BY <3>2, <3>3
    <2> QED
      BY <2>2 DEF x
  <1>2. q * (n + 1 - 1) = n * q
    OBVIOUS
  <1> QED
    BY <1>1, <1>2 DEF Start, DataLength

\* The encoder's blocks: what they are of the bytes.
Division(data, A, bytes, n, m, q) ==
    BlocksOf(data, A, n, m, q) /\ FlattenSeq(data) = bytes

LEMMA Divided ==
    ASSUME NEW A, NEW n \in Nat \ {0}, NEW m \in 1 .. n, NEW q \in Nat, NEW lengths,
           lengths = LengthsOf(n, m, q),
           NEW bytes \in Seq(A), Len(bytes) = n * q + (n - m)
    PROVE  Division(DivideBytes(bytes, lengths), A, bytes, n, m, q)
  <1> DEFINE data == DivideBytes(bytes, lengths)
             end == [j \in 0 .. n |-> Start(m, q, j + 1)]
             At(j) == Start(m, q, j)
             Size(j) == DataLength(j, m, q)
  <1>1. /\ DOMAIN data = 1 .. n /\ data = [j \in 1 .. n |-> data[j]]
        /\ \A j \in 1 .. n : data[j] = SubSeq(bytes, At(j) + 1, At(j) + Size(j))
    <2>1. data = PartsOf(bytes, n, m, q)
      BY DividedAt
    <2> HIDE DEF data
    <2> QED
      BY <2>1 DEF PartsOf, PartOf
  <1>2. ASSUME NEW j \in 1 .. n
        PROVE  /\ At(j) \in Nat /\ Size(j) \in Nat /\ At(j) + Size(j) <= Len(bytes)
               /\ At(j + 1) = At(j) + Size(j)
    <2>1. m \in Nat /\ j \in Nat \ {0}
      OBVIOUS
    <2>2. /\ At(j) \in Nat /\ Size(j) \in Nat
          /\ At(j) + Size(j) <= n * q + (n - m)
      BY StartsInOrder, Zenon
    <2>3. At(j + 1) = At(j) + Size(j)
      BY <2>1, StartOfNext, Zenon
    <2> HIDE DEF At, Size
    <2> QED
      BY <2>2, <2>3
  <1>3. At(1) = 0 /\ At(n + 1) = Len(bytes)
    <2>1. m \in Nat /\ 1 \in Nat \ {0} /\ n \in 1 .. n
      OBVIOUS
    <2> QED
      BY <2>1, StartsInOrder, StartOfNext
  <1> HIDE DEF data, At
  <1>4. ASSUME NEW j \in 1 .. n
        PROVE  /\ data[j] \in Seq(A) /\ Len(data[j]) = Size(j)
               /\ \A i \in 1 .. Size(j) : data[j][i] = bytes[At(j) + i]
    <2> HIDE DEF Size
    <2>1. data[j] = SubSeq(bytes, At(j) + 1, At(j) + Size(j))
      BY <1>1
    <2> DEFINE a == At(j)
               b == Size(j)
    <2>2. a \in Nat /\ b \in Nat /\ a + b <= Len(bytes)
      BY <1>2
    <2>3. data[j] = SubSeq(bytes, a + 1, a + b)
      BY <2>1
    <2> HIDE DEF a, b
    <2>4. PartAt(data[j], bytes, A, a, b)
      BY <2>2, <2>3, Part
    <2> QED
      BY <2>4 DEF PartAt, a, b
  <1>5. DOMAIN data = 1 .. n
    BY <1>1
  <1>6. BlocksOf(data, A, n, m, q)
    BY <1>4, <1>5 DEF BlocksOf, Sizes, DataLength
  <1> HIDE DEF Size
  <1>7. \A i \in 0 .. n : end[i] = At(i + 1)
    BY DEF At
  <1> HIDE DEF end
  <1>8. \A i \in 0 .. n - 1 : i + 1 \in 1 .. n /\ i \in 0 .. n /\ i + 1 \in 0 .. n
    OBVIOUS
  <1>9. 0 \in 0 .. n /\ n \in 0 .. n
    OBVIOUS
  <1>10. EndsAt(end, data, n)
    <2>1. end[0] = 0
      BY <1>3, <1>7, <1>9
    <2>2. ASSUME NEW i \in 0 .. n PROVE end[i] \in Nat
      <3>1. CASE i = n
        BY <1>3, <1>7, <3>1
      <3>2. CASE i + 1 \in 1 .. n
        BY <1>2, <1>7, <3>2
      <3> QED
        BY <3>1, <3>2
    <2>3. ASSUME NEW i \in 0 .. n - 1 PROVE end[i + 1] = end[i] + Len(data[i + 1])
      <3> DEFINE j == i + 1
      <3>1. j \in 1 .. n /\ end[i] = At(j) /\ end[j] = At(j + 1)
        BY <1>7, <1>8
      <3> HIDE DEF j
      <3>2. end[j] = end[i] + Len(data[j])
        BY <1>2, <1>4, <3>1
      <3> QED
        BY <3>2 DEF j
    <2> QED
      BY <2>1, <2>2, <2>3 DEF EndsAt
  <1>11. Joined(bytes, A, end, data, n)
    <2>1. Len(bytes) = end[n]
      BY <1>3, <1>7, <1>9
    <2>2. ASSUME NEW i \in 0 .. n - 1, NEW k \in 1 .. Len(data[i + 1])
          PROVE  end[i] + k \in 1 .. end[n] /\ bytes[end[i] + k] = data[i + 1][k]
      <3> DEFINE j == i + 1
      <3>1. j \in 1 .. n /\ end[i] = At(j) /\ k \in 1 .. Size(j)
        BY <1>4, <1>7, <1>8
      <3>2. data[j][k] = bytes[At(j) + k]
        <4> HIDE DEF j
        <4> QED
          BY <1>4, <3>1
      <3>3. At(j) + k \in 1 .. Len(bytes)
        <4> DEFINE a == At(j)
                   b == Size(j)
        <4>1. a \in Nat /\ b \in Nat /\ a + b <= Len(bytes) /\ k \in 1 .. b
          <5> HIDE DEF j
          <5> QED
            BY <1>2, <3>1
        <4> HIDE DEF a, b
        <4>2. a + k \in 1 .. Len(bytes)
          BY <4>1
        <4> QED
          BY <4>2 DEF a
      <3> QED
        BY <2>1, <3>1, <3>2, <3>3
    <2> QED
      BY <2>1, <2>2 DEF Joined
  <1>12. AllIn(data, A, n)
    BY <1>4 DEF AllIn
  <1>13. Joined(FlattenSeq(data), A, end, data, n)
    <2>1. data = [j \in 1 .. n |-> data[j]]
      BY <1>1
    <2>2. data \in [1 .. n -> Seq(A)]
      BY <1>4, <2>1
    <2> QED
      BY <1>10, <2>2, FlattenSeqJoins
  <1>14. FlattenSeq(data) = bytes
    BY <1>10, <1>11, <1>12, <1>13, JoinedIsUnique
  <1> QED
    BY <1>6, <1>14 DEF data, Division

\* Error correction bytes for each block, as many as the table says.
ECBlocksOf(ec, A, version, level) ==
    /\ ec \in [1 .. NumBlocks(version, level) -> Seq(A)]
    /\ \A j \in 1 .. NumBlocks(version, level) : Len(ec[j]) = ECBytesOfBlock(version, level)

\* What was sent of blocks and their error correction bytes gives them back.
Returned(sent, data, ec, bytes, A, version, level) ==
    /\ sent \in Seq(A) /\ Len(sent) = TotalCodewords(version)
    /\ GetDataBlocks(sent, version, level)
           = [j \in 1 .. NumBlocks(version, level) |->
                [data |-> Len(data[j]), codewords |-> data[j] \o ec[j]]]
    /\ FlattenSeq(data) = bytes

LEMMA BlocksReturn ==
    ASSUME NEW version \in 1 .. 40, NEW level \in Levels, NEW A,
           NEW bytes \in Seq(A), Len(bytes) = NumDataBytes(version, level),
           NEW ec, ECBlocksOf(ec, A, version, level)
    PROVE  LET data == DivideBytes(bytes, DataBytesOfBlocks(version, level))
           IN Returned(InterleaveBlocks(data, ec), data, ec, bytes, A, version, level)
  <1> DEFINE n == NumBlocks(version, level)
             m == Shorter(version, level)
             q == DataBytes(version, level)
             e == ECBytesOfBlock(version, level)
             data == DivideBytes(bytes, DataBytesOfBlocks(version, level))
             sent == InterleaveBlocks(data, ec)
             blocks == GetDataBlocks(sent, version, level)
  <1>1. /\ n \in Nat \ {0} /\ m \in 1 .. n /\ q \in Nat /\ e \in Nat
        /\ DataBytesOfBlocks(version, level) = [j \in 1 .. n |-> DataLength(j, m, q)]
        /\ Len(bytes) = n * q + (n - m)
        /\ TotalCodewords(version) = n * q + (n - m) + n * e
    BY Table
  <1>2. /\ ec \in [1 .. n -> Seq(A)]
        /\ \A j \in 1 .. n : Len(ec[j]) = e
    BY DEF ECBlocksOf
  <1>3. ASSUME NEW raw \in Seq(A), Len(raw) = TotalCodewords(version)
        PROVE  GetDataBlocks(raw, version, level)
                   = [j \in 1 .. n |-> BlockRead(raw, n, m, q, e, j)]
    BY <1>3, BlocksAreRead
  <1> HIDE DEF n, m, q, e
  <1>4. BlocksOf(data, A, n, m, q) /\ FlattenSeq(data) = bytes
    <2>1. DataBytesOfBlocks(version, level) = LengthsOf(n, m, q)
      BY <1>1 DEF LengthsOf
    <2>2. Division(data, A, bytes, n, m, q)
      BY <1>1, <2>1, Divided
    <2> QED
      BY <2>2 DEF Division
  <1> HIDE DEF data
  <1>5. BlocksOf(ec, A, n, n, e)
    BY <1>1, <1>2 DEF BlocksOf, Sizes
  <1>6. Placed(sent, A, data, ec, n, m, q, e)
    BY <1>1, <1>4, <1>5, SentIsPlaced
  <1> HIDE DEF sent
  <1>7. sent \in Seq(A) /\ Len(sent) = TotalCodewords(version)
    BY <1>1, <1>6 DEF Placed
  <1>8. blocks = [j \in 1 .. n |-> BlockRead(sent, n, m, q, e, j)]
    BY <1>3, <1>7
  <1> HIDE DEF blocks
  <1>9. ASSUME NEW j \in 1 .. n
        PROVE  BlockRead(sent, n, m, q, e, j)
                   = [data |-> Len(data[j]), codewords |-> data[j] \o ec[j]]
    <2> DEFINE b == DataLength(j, m, q)
               w == [i \in 1 .. b + e |-> sent[Place(n, m, q, j, i)]]
    <2>1. data[j] \in Seq(A) /\ Len(data[j]) = b /\ b \in Nat
      BY <1>1, <1>4 DEF BlocksOf, Sizes, DataLength
    <2>2. ec[j] \in Seq(A) /\ Len(ec[j]) = e
      BY <1>2
    <2>3. \A i \in 1 .. b + e : w[i] = IF i <= b THEN data[j][i] ELSE ec[j][i - b]
      BY <1>6 DEF Placed
    <2>4. BlockRead(sent, n, m, q, e, j) = [data |-> b, codewords |-> w]
      BY DEF BlockRead
    <2>5. w = [i \in 1 .. b + e |-> w[i]]
      OBVIOUS
    <2> HIDE DEF b, w
    <2>6. data[j] \o ec[j] = w
      <3> DEFINE r == data[j] \o ec[j]
      <3>1. Concatenated(r, data[j], ec[j], A)
        BY <2>1, <2>2, Concatenation
      <3> HIDE DEF r
      <3>2. r \in Seq(A) /\ Len(r) = b + e
        BY <2>1, <2>2, <3>1 DEF Concatenated
      <3>3. ASSUME NEW i \in 1 .. b + e PROVE r[i] = w[i]
        <4>1. CASE i \in 1 .. b
          BY <2>1, <2>2, <2>3, <3>1, <4>1 DEF Concatenated
        <4>2. CASE i - b \in 1 .. e
          <5> DEFINE k == i - b
          <5>1. k \in 1 .. e /\ b + k = i /\ ~ (i <= b) /\ b + k \in 1 .. b + e
            BY <1>1, <2>1, <4>2
          <5> HIDE DEF k
          <5>2. r[b + k] = ec[j][k]
            BY <2>1, <2>2, <3>1, <5>1 DEF Concatenated
          <5>3. w[i] = ec[j][i - b]
            BY <2>3, <5>1
          <5> QED
            BY <5>1, <5>2, <5>3 DEF k
        <4> QED
          BY <1>1, <2>1, <4>1, <4>2
      <3>4. r = [i \in 1 .. b + e |-> r[i]]
        BY <3>2
      <3>5. r = w
        BY <2>5, <3>3, <3>4, Zenon
      <3> QED
        BY <3>5 DEF r
    <2> QED
      BY <2>1, <2>4, <2>6
  <1>10. blocks = [j \in 1 .. n |-> [data |-> Len(data[j]), codewords |-> data[j] \o ec[j]]]
    BY <1>8, <1>9
  <1> QED
    BY <1>4, <1>7, <1>10 DEF n, data, sent, blocks, Returned

\* The decoder gets the encoder's blocks back, for every version and level, whatever the
\* bytes are: each block holds its own data and its own error correction bytes, and the
\* data of the blocks, one after the other, are the bytes that were divided.  Encoder and
\* decoder count as many codewords as the version has, so neither throws for their number
\* (Encoder::interleaveWithECBytes(), DataBlock::getDataBlocks()).
THEOREM BlocksComeBack ==
    ASSUME NEW version \in 1 .. 40, NEW level \in Levels, NEW A,
           NEW bytes \in Seq(A), Len(bytes) = NumDataBytes(version, level),
           NEW ec, ECBlocksOf(ec, A, version, level)
    PROVE  LET data == DivideBytes(bytes, DataBytesOfBlocks(version, level))
               sent == InterleaveBlocks(data, ec)
           IN /\ sent \in Seq(A) /\ Len(sent) = TotalCodewords(version)
              /\ GetDataBlocks(sent, version, level)
                     = [j \in 1 .. NumBlocks(version, level) |->
                          [data |-> Len(data[j]), codewords |-> data[j] \o ec[j]]]
              /\ FlattenSeq(data) = bytes
  BY BlocksReturn DEF Returned

-----------------------------------------------------------------------------
(* A photograph: what a damaged cell spoils.                               *)

LEMMA SameTurn ==
    ASSUME NEW n \in Nat \ {0}, NEW x \in Nat, NEW y \in Nat, NEW j \in 1 .. n, NEW k \in 1 .. n,
           n * x + j = n * y + k
    PROVE  x = y /\ j = k
  <1>1. n * x \in Nat /\ n * y \in Nat
    OBVIOUS
  <1>2. \A u, v \in Nat : u < v => n * u + n <= n * v
    <2> TAKE u, v \in Nat
    <2> HAVE u < v
    <2>1. \A a, b \in Nat : a <= b => n * a <= n * b
      OBVIOUS
    <2>2. n * (u + 1) = n * u + n
      OBVIOUS
    <2>3. u + 1 \in Nat /\ u + 1 <= v
      OBVIOUS
    <2> QED
      BY <2>1, <2>2, <2>3
  <1>3. ~ (x < y) /\ ~ (y < x)
    <2>1. ~ (x < y)
      BY <1>1, <1>2
    <2>2. ~ (y < x)
      BY <1>1, <1>2
    <2> QED
      BY <2>1, <2>2
  <1>4. x = y
    BY <1>3
  <1> QED
    BY <1>1, <1>4

\* A codeword's place says in which part of the code it is: in a full turn of the data
\* bytes, in the last turn, or in a turn of the error correction bytes.
InDataTurn(p, n, q, j, i) == \E x \in Nat : i = x + 1 /\ p = n * x + j /\ p <= n * q
InLastTurn(p, n, m, q, j, i) ==
    i = q + 1 /\ j > m /\ p = n * q + (j - m) /\ n * q < p /\ p <= n * q + (n - m)
InECTurn(p, n, m, q, j, i) ==
    \E x \in Nat : /\ i = DataLength(j, m, q) + x + 1
                   /\ p = n * q + (n - m) + (n * x + j) /\ n * q + (n - m) < p

LEMMA PartOfPlace ==
    ASSUME NEW n \in Nat \ {0}, NEW m \in 1 .. n, NEW q \in Nat, NEW e \in Nat,
           NEW j \in 1 .. n, NEW i \in 1 .. DataLength(j, m, q) + e
    PROVE  LET p == Place(n, m, q, j, i)
           IN \/ InDataTurn(p, n, q, j, i)
              \/ InLastTurn(p, n, m, q, j, i)
              \/ InECTurn(p, n, m, q, j, i)
  <1> DEFINE b == DataLength(j, m, q)
             p == Place(n, m, q, j, i)
  <1>1. \A x, y \in Nat : x <= y => n * x \in Nat /\ n * x <= n * y /\ n * y \in Nat
    OBVIOUS
  <1>2. \A x \in Nat : n * (x + 1) = n * x + n
    OBVIOUS
  <1>3. b \in {q, q + 1} /\ (b = q + 1 => j > m)
    BY DEF DataLength
  <1>4. CASE i <= q
    <2> DEFINE x == i - 1
    <2>1. x \in Nat /\ x + 1 <= q /\ x + 1 \in Nat /\ i = x + 1
      BY <1>4, <1>3
    <2>2. p = n * x + j
      BY <1>4 DEF Place
    <2> HIDE DEF x, p
    <2>3. n * x \in Nat /\ n * x + n <= n * q
      BY <1>1, <1>2, <2>1
    <2>4. p <= n * q
      BY <2>2, <2>3
    <2>5. InDataTurn(p, n, q, j, i)
      BY <2>1, <2>2, <2>4 DEF InDataTurn
    <2> QED
      BY <2>5 DEF p
  <1>5. CASE ~ (i <= q) /\ i <= b
    <2>1. p = n * q + (j - m) /\ j > m /\ i = q + 1
      BY <1>3, <1>5 DEF Place
    <2> HIDE DEF p
    <2>2. n * q \in Nat
      BY <1>1
    <2>3. InLastTurn(p, n, m, q, j, i)
      BY <2>1, <2>2 DEF InLastTurn
    <2> QED
      BY <2>3 DEF p
  <1>6. CASE ~ (i <= q) /\ ~ (i <= b)
    <2> DEFINE x == i - b - 1
    <2>1. x \in Nat /\ i = b + x + 1
      BY <1>3, <1>6
    <2>2. p = n * q + (n - m) + n * x + j
      BY <1>6 DEF Place
    <2> HIDE DEF x, p
    <2>3. n * x \in Nat /\ n * q \in Nat
      BY <1>1, <2>1
    <2>4. p = n * q + (n - m) + (n * x + j) /\ n * q + (n - m) < p
      BY <2>2, <2>3
    <2>5. InECTurn(p, n, m, q, j, i)
      BY <2>1, <2>4, Zenon DEF InECTurn
    <2> QED
      BY <2>5 DEF p
  <1> QED
    BY <1>4, <1>5, <1>6

\* No two codewords have the same place.
SamePlace(n, m, q, e, j, i, k, l) ==
    /\ j \in 1 .. n /\ i \in 1 .. DataLength(j, m, q) + e
    /\ k \in 1 .. n /\ l \in 1 .. DataLength(k, m, q) + e
    /\ Place(n, m, q, j, i) = Place(n, m, q, k, l)

LEMMA PlaceOnce ==
    ASSUME NEW n \in Nat \ {0}, NEW m \in 1 .. n, NEW q \in Nat, NEW e \in Nat,
           NEW j, NEW i, NEW k, NEW l, SamePlace(n, m, q, e, j, i, k, l)
    PROVE  j = k /\ i = l
  <1> USE DEF SamePlace
  <1> DEFINE p == Place(n, m, q, j, i)
  <1>1. /\ \/ InDataTurn(p, n, q, j, i)
           \/ InLastTurn(p, n, m, q, j, i)
           \/ InECTurn(p, n, m, q, j, i)
        /\ \/ InDataTurn(p, n, q, k, l)
           \/ InLastTurn(p, n, m, q, k, l)
           \/ InECTurn(p, n, m, q, k, l)
    BY PartOfPlace
  <1>2. p \in Nat /\ n * q \in Nat
    <2>1. p \in 1 .. n * q + (n - m) + n * e
      BY PlaceInCode
    <2>2. n * q \in Nat /\ n * e \in Nat
      OBVIOUS
    <2> QED
      BY <2>1, <2>2
  <1> HIDE DEF p
  <1>3. CASE InDataTurn(p, n, q, j, i) /\ InDataTurn(p, n, q, k, l)
    <2>1. PICK x \in Nat : i = x + 1 /\ p = n * x + j
      BY <1>3 DEF InDataTurn
    <2>2. PICK y \in Nat : l = y + 1 /\ p = n * y + k
      BY <1>3 DEF InDataTurn
    <2>3. x = y /\ j = k
      <3>1. n * x + j = n * y + k
        BY <2>1, <2>2
      <3> QED
        BY <3>1, SameTurn
    <2> QED
      BY <2>1, <2>2, <2>3
  <1>4. CASE InLastTurn(p, n, m, q, j, i) /\ InLastTurn(p, n, m, q, k, l)
    BY <1>2, <1>4 DEF InLastTurn
  <1>5. CASE InECTurn(p, n, m, q, j, i) /\ InECTurn(p, n, m, q, k, l)
    <2>1. PICK x \in Nat : i = DataLength(j, m, q) + x + 1
                           /\ p = n * q + (n - m) + (n * x + j)
      BY <1>5 DEF InECTurn
    <2>2. PICK y \in Nat : l = DataLength(k, m, q) + y + 1
                           /\ p = n * q + (n - m) + (n * y + k)
      BY <1>5 DEF InECTurn
    <2>3. x = y /\ j = k
      <3>1. n * x \in Nat /\ n * y \in Nat
        OBVIOUS
      <3>2. n * x + j = n * y + k
        BY <1>2, <2>1, <2>2, <3>1
      <3> QED
        BY <3>2, SameTurn
    <2> QED
      BY <2>1, <2>2, <2>3
  <1>6. ASSUME NEW a \in 1 .. n, NEW b
        PROVE  /\ InDataTurn(p, n, q, a, b) => p <= n * q
               /\ InLastTurn(p, n, m, q, a, b) => n * q < p /\ p <= n * q + (n - m)
               /\ InECTurn(p, n, m, q, a, b) => n * q + (n - m) < p
    BY DEF InDataTurn, InLastTurn, InECTurn
  <1>7. CASE p <= n * q
    BY <1>1, <1>2, <1>3, <1>6, <1>7
  <1>8. CASE n * q < p /\ p <= n * q + (n - m)
    BY <1>1, <1>2, <1>4, <1>6, <1>8
  <1>9. CASE n * q + (n - m) < p
    BY <1>1, <1>2, <1>5, <1>6, <1>9
  <1> QED
    BY <1>2, <1>7, <1>8, <1>9

LEMMA EntriesOf ==
    ASSUME NEW A, NEW s \in Seq(A)
    PROVE  Len(s) \in Nat /\ DOMAIN s = 1 .. Len(s) /\ \A k \in 1 .. Len(s) : s[k] \in A
  OBVIOUS

\* Bit b of byte k.
BitNumber(k, b) == 8 * (k - 1) + b

LEMMA BitOfByte ==
    ASSUME NEW bytes \in Seq(0 .. 255), NEW k \in 1 .. Len(bytes), NEW b \in 1 .. 8
    PROVE  /\ BitNumber(k, b) \in 1 .. 8 * Len(bytes)
           /\ BitsOfBytes(bytes)[BitNumber(k, b)] = BitsOf(bytes[k], 8)[b]
  <1> DEFINE i == BitNumber(k, b)
  <1>1. Len(bytes) \in Nat /\ i = 8 * (k - 1) + b
    BY DEF BitNumber
  <1> HIDE DEF i
  <1>2. i \in 1 .. 8 * Len(bytes) /\ (i + 7) \div 8 = k /\ (0 - i) % 8 = 8 - b
    BY <1>1
  <1>3. BitsOfBytes(bytes)[i] = (bytes[(i + 7) \div 8] \div 2 ^ ((0 - i) % 8)) % 2
    BY <1>2, Zenon DEF BitsOfBytes
  <1>4. BitsOf(bytes[k], 8)[b] = (bytes[k] \div 2 ^ (8 - b)) % 2
    BY Zenon DEF BitsOf
  <1>5. BitsOfBytes(bytes)[i] = BitsOf(bytes[k], 8)[b]
    BY <1>2, <1>3, <1>4, Zenon
  <1> QED
    BY <1>2, <1>5 DEF i

LEMMA BitsOfAllBytes ==
    ASSUME NEW bytes \in Seq(0 .. 255)
    PROVE  BitsOfBytes(bytes) \in Seq({0, 1}) /\ Len(BitsOfBytes(bytes)) = 8 * Len(bytes)
  <1> DEFINE bits == BitsOfBytes(bytes)
             n == 8 * Len(bytes)
  <1>1. Len(bytes) \in Nat /\ n \in Nat
    OBVIOUS
  <1>2. bits = [i \in 1 .. n |-> bits[i]]
    BY DEF BitsOfBytes
  <1>3. ASSUME NEW i \in 1 .. n PROVE bits[i] \in {0, 1}
    <2> DEFINE k == (i + 7) \div 8
               b == i - 8 * (k - 1)
    <2>1. k \in 1 .. Len(bytes) /\ b \in 1 .. 8 /\ i = 8 * (k - 1) + b
      BY <1>1
    <2> HIDE DEF k, b, bits
    <2>2. bits[i] = BitsOf(bytes[k], 8)[b]
      BY <2>1, BitOfByte DEF bits, BitNumber
    <2>3. BitsOf(bytes[k], 8) \in [1 .. 8 -> {0, 1}]
      <3>1. bytes[k] \in 0 .. 255
        BY <2>1, EntriesOf
      <3> QED
        BY <3>1, ByteOfBits
    <2> QED
      BY <2>1, <2>2, <2>3
  <1> HIDE DEF bits, n
  <1>4. bits \in Seq({0, 1}) /\ Len(bits) = n
    BY <1>1, <1>2, <1>3
  <1> QED
    BY <1>4 DEF bits, n

\* The number of a code's bits, and its codewords as they are read.
Word8(u, k) == [b \in 1 .. 8 |-> u[8 * (k - 1) + b]]
WordsRead(raw, u, n) ==
    raw = [k \in 1 .. n |-> Value(Word8(u, k))] /\ Len(raw) = n /\ raw \in Seq(Range(raw))

LEMMA CodewordsOfBits ==
    ASSUME NEW version \in 1 .. 40, NEW u, DOMAIN u = DOMAIN DataCells(version),
           u = [i \in DOMAIN u |-> u[i]]
    PROVE  WordsRead(BytesOf(u), u, TotalCodewords(version))
  <1> DEFINE l == Len(DataCells(version))
             n == TotalCodewords(version)
             raw == [k \in 1 .. n |-> Value(Word8(u, k))]
  <1>1. l \in Nat /\ DOMAIN DataCells(version) = 1 .. l
    <2>1. DataCells(version) \in Seq(Places)
      BY DataWay DEF Way
    <2> QED
      BY <2>1, EntriesOf
  <1>2. l \div 8 = n
    BY RoomForCodewords
  <1> HIDE DEF l, n
  <1>3. n \in Nat
    BY <1>1, <1>2
  <1>4. Len(u) = l
    <2>1. u \in Seq(Range(u))
      BY <1>1 DEF Range
    <2> QED
      BY <1>1, <2>1
  <1>5. BytesOf(u) = raw
    BY <1>2, <1>4, Zenon DEF BytesOf, Word8
  <1>6. Len(raw) = n /\ raw \in Seq(Range(raw))
    <2>1. DOMAIN raw = 1 .. n /\ raw = [k \in 1 .. n |-> raw[k]]
      OBVIOUS
    <2> HIDE DEF raw
    <2>2. raw \in Seq(Range(raw))
      BY <1>3, <2>1 DEF Range
    <2> QED
      BY <1>3, <2>1, <2>2
  <1> QED
    BY <1>5, <1>6 DEF WordsRead, n

\* A cell that is read otherwise than it was drawn, of those that hold codeword k.
Spoils(p, m, cells, k, b) ==
    BitNumber(k, b) \in DOMAIN cells /\ p[cells[BitNumber(k, b)]] # m[cells[BitNumber(k, b)]]

\* A codeword that is read wrongly has such a cell.
LEMMA SpoiledCodeword ==
    ASSUME NEW version \in 1 .. 40, NEW f \in Formats, NEW mask \in Masks,
           NEW sent \in Seq(0 .. 255), Len(sent) = TotalCodewords(version),
           NEW p, NEW k \in 1 .. TotalCodewords(version),
           ReadCodewords(p, version, mask)[k] # sent[k]
    PROVE  LET cells == DataCells(version)
               m == Drawn(version, f, DataBits(BitsOfBytes(sent), cells), mask)
           IN \E b \in 1 .. 8 : Spoils(p, m, cells, k, b)
  <1> DEFINE cells == DataCells(version)
             bits == BitsOfBytes(sent)
             m == Drawn(version, f, DataBits(bits, cells), mask)
             u == Unmasked(p, cells, mask)
             n == TotalCodewords(version)
             byte == BitsOf(sent[k], 8)
  <1>1. u = [i \in DOMAIN u |-> u[i]] /\ DOMAIN u = DOMAIN cells
    BY DEF Unmasked
  <1>2. ReadCodewords(p, version, mask) = BytesOf(u)
    BY DEF ReadCodewords
  <1>3. Len(cells) \in Nat /\ DOMAIN cells = 1 .. Len(cells) /\ Len(cells) \div 8 = n
    <2>1. DataCells(version) \in Seq(Places)
      BY DataWay DEF Way
    <2>2. Len(cells) \in Nat /\ DOMAIN cells = 1 .. Len(cells)
      BY <2>1, EntriesOf
    <2> QED
      BY <2>2, RoomForCodewords
  <1>4. ASSUME NEW b \in 1 .. 8, ~ Spoils(p, m, cells, k, b)
        PROVE  u[BitNumber(k, b)] = byte[b]
    <2> DEFINE i == BitNumber(k, b)
    <2>1. i \in 1 .. 8 * n /\ bits[i] = byte[b] /\ k \in 1 .. Len(sent)
      BY BitOfByte
    <2>2. Fit(bits, cells) /\ Len(bits) = 8 * n
      <3>1. bits \in Seq({0, 1}) /\ Len(bits) = 8 * n
        BY BitsOfAllBytes
      <3> HIDE DEF bits, n, cells
      <3> QED
        BY <1>3, <3>1 DEF Fit
    <2>3. BitIsRead(version, f, mask, bits, i)
      <3> HIDE DEF i, bits, n
      <3> QED
        BY <2>1, <2>2, BitDrawn
    <2>4. i \in DOMAIN cells /\ Unmasked(m, cells, mask)[i] = bits[i]
      BY <2>3, Zenon DEF BitIsRead
    <2>5. p[cells[i]] = m[cells[i]]
      BY <1>4, <2>4, Zenon DEF Spoils
    <2>6. u[i] = bits[i]
      <3> HIDE DEF m, cells, i, bits
      <3> QED
        BY <2>4, <2>5 DEF Unmasked
    <2> QED
      BY <2>1, <2>6, Zenon
  <1>5. BytesOf(u)[k] = Value(Word8(u, k))
    <2> HIDE DEF u
    <2>1. WordsRead(BytesOf(u), u, n)
      BY <1>1, CodewordsOfBits
    <2> QED
      BY <2>1, Zenon DEF WordsRead
  <1> SUFFICES ASSUME \A b \in 1 .. 8 : ~ Spoils(p, m, cells, k, b) PROVE FALSE
    OBVIOUS
  <1>6. sent[k] \in 0 .. 255
    BY EntriesOf
  <1>7. byte \in [1 .. 8 -> {0, 1}] /\ Value(byte) = sent[k]
    BY <1>6, ByteOfBits
  <1> HIDE DEF u, m, cells, byte
  <1>8. Word8(u, k) = byte
    <2>1. \A b \in 1 .. 8 : u[8 * (k - 1) + b] = byte[b]
      BY <1>4, Zenon DEF BitNumber
    <2>2. byte = [b \in 1 .. 8 |-> byte[b]]
      BY <1>7
    <2> QED
      BY <2>1, <2>2, Zenon DEF Word8
  <1> QED
    BY <1>2, <1>5, <1>7, <1>8, Zenon

\* The codewords of the encoder's blocks, and where they are found in the code.
WordOf(data, ec, j) == data[j] \o ec[j]
PlaceOf(version, level, w) ==
    Place(NumBlocks(version, level), Shorter(version, level), DataBytes(version, level),
          w[1], w[2])
Positions(version, level) ==
    {w \in (1 .. NumBlocks(version, level)) \X Nat :
        w[2] \in 1 .. DataLength(w[1], Shorter(version, level), DataBytes(version, level))
                          + ECBytesOfBlock(version, level)}

\* The cells that hold the codewords at some positions.
CellsOf(version, level, Q) ==
    {c \in Range(DataCells(version)) :
        \E w \in Q, b \in 1 .. 8 :
            c = DataCells(version)[BitNumber(PlaceOf(version, level, w), b)]}

LEMMA PlacesOfPositions ==
    ASSUME NEW version \in 1 .. 40, NEW level \in Levels
    PROVE  /\ \A w \in Positions(version, level) :
                 PlaceOf(version, level, w) \in 1 .. TotalCodewords(version)
           /\ \A v, w \in Positions(version, level) :
                 PlaceOf(version, level, v) = PlaceOf(version, level, w) => v = w
  <1> DEFINE n == NumBlocks(version, level)
             m == Shorter(version, level)
             q == DataBytes(version, level)
             e == ECBytesOfBlock(version, level)
  <1>1. /\ n \in Nat \ {0} /\ m \in 1 .. n /\ q \in Nat /\ e \in Nat
        /\ TotalCodewords(version) = n * q + (n - m) + n * e
    BY Table
  <1>2. \A w : PlaceOf(version, level, w) = Place(n, m, q, w[1], w[2])
    BY DEF PlaceOf
  <1>3. \A w \in Positions(version, level) :
           w = <<w[1], w[2]>> /\ w[1] \in 1 .. n /\ w[2] \in 1 .. DataLength(w[1], m, q) + e
    BY DEF Positions
  <1> HIDE DEF n, m, q, e
  <1>4. ASSUME NEW w \in Positions(version, level)
        PROVE  PlaceOf(version, level, w) \in 1 .. TotalCodewords(version)
    <2> DEFINE j == w[1]
               i == w[2]
    <2>1. j \in 1 .. n /\ i \in 1 .. DataLength(j, m, q) + e
      BY <1>3
    <2> HIDE DEF j, i
    <2>2. Place(n, m, q, j, i) \in 1 .. n * q + (n - m) + n * e
      BY <1>1, <2>1, PlaceInCode
    <2> QED
      BY <1>1, <1>2, <2>2 DEF j, i
  <1>5. ASSUME NEW v \in Positions(version, level), NEW w \in Positions(version, level),
               PlaceOf(version, level, v) = PlaceOf(version, level, w)
        PROVE  v = w
    <2> DEFINE j == v[1]
               i == v[2]
               k == w[1]
               l == w[2]
    <2>1. /\ j \in 1 .. n /\ i \in 1 .. DataLength(j, m, q) + e /\ v = <<j, i>>
          /\ k \in 1 .. n /\ l \in 1 .. DataLength(k, m, q) + e /\ w = <<k, l>>
          /\ Place(n, m, q, j, i) = Place(n, m, q, k, l)
      BY <1>2, <1>3, <1>5
    <2> HIDE DEF j, i, k, l
    <2>2. j = k /\ i = l
      <3>1. SamePlace(n, m, q, e, j, i, k, l)
        BY <2>1, Zenon DEF SamePlace
      <3> QED
        BY <1>1, <3>1, PlaceOnce
    <2> QED
      BY <2>1, <2>2
  <1> QED
    BY <1>4, <1>5

\* Blocks as they are read: block j of the code raw has the codewords at their places.
BlocksRead(blocks, raw, data, version, level) ==
    /\ DOMAIN blocks = 1 .. NumBlocks(version, level)
    /\ \A j \in 1 .. NumBlocks(version, level) :
          blocks[j].data = Len(data[j])
    /\ \A w \in Positions(version, level) :
          blocks[w[1]].codewords[w[2]] = raw[PlaceOf(version, level, w)]
    /\ \A j \in 1 .. NumBlocks(version, level) :
          Len(blocks[j].codewords) = Len(data[j]) + ECBytesOfBlock(version, level)

DividedFor(data, version, level) ==
    \A j \in 1 .. NumBlocks(version, level) :
        Len(data[j]) = DataLength(j, Shorter(version, level), DataBytes(version, level))

LEMMA ReadAtPlaces ==
    ASSUME NEW version \in 1 .. 40, NEW level \in Levels, NEW A,
           NEW raw \in Seq(A), Len(raw) = TotalCodewords(version),
           NEW data, DividedFor(data, version, level)
    PROVE  BlocksRead(GetDataBlocks(raw, version, level), raw, data, version, level)
  <1> DEFINE n == NumBlocks(version, level)
             m == Shorter(version, level)
             q == DataBytes(version, level)
             e == ECBytesOfBlock(version, level)
             blocks == GetDataBlocks(raw, version, level)
             Codes(j) == [i \in 1 .. DataLength(j, m, q) + e |-> raw[Place(n, m, q, j, i)]]
  <1>1. n \in Nat \ {0} /\ m \in 1 .. n /\ q \in Nat /\ e \in Nat
        /\ TotalCodewords(version) = n * q + (n - m) + n * e
    BY Table
  <1>2. blocks = [j \in 1 .. n |-> BlockRead(raw, n, m, q, e, j)]
    BY BlocksAreRead
  <1>3. \A w \in Positions(version, level) :
           w[1] \in 1 .. n /\ w[2] \in 1 .. DataLength(w[1], m, q) + e
    BY DEF Positions
  <1>4. \A w : PlaceOf(version, level, w) = Place(n, m, q, w[1], w[2])
    BY DEF PlaceOf
  <1>5. \A j \in 1 .. n : Len(data[j]) = DataLength(j, m, q)
    BY DEF DividedFor
  <1> HIDE DEF n, m, q, e, blocks
  <1>6. /\ DOMAIN blocks = 1 .. n
        /\ \A j \in 1 .. n : blocks[j].data = DataLength(j, m, q)
        /\ \A j \in 1 .. n : blocks[j].codewords = Codes(j)
    BY <1>2 DEF BlockRead
  <1>7. ASSUME NEW j \in 1 .. n PROVE Len(Codes(j)) = DataLength(j, m, q) + e
    <2> DEFINE l == DataLength(j, m, q) + e
               s == Codes(j)
    <2>1. l \in Nat
      BY <1>1 DEF DataLength
    <2>2. DOMAIN s = 1 .. l /\ s = [i \in 1 .. l |-> s[i]]
      OBVIOUS
    <2> HIDE DEF l, s
    <2>3. s \in Seq(Range(s))
      BY <2>1, <2>2 DEF Range
    <2>4. Len(s) = l
      BY <2>1, <2>2, <2>3
    <2> QED
      BY <2>4 DEF s, l
  <1>8. ASSUME NEW w \in Positions(version, level)
        PROVE  blocks[w[1]].codewords[w[2]] = raw[PlaceOf(version, level, w)]
    <2> DEFINE j == w[1]
               i == w[2]
    <2>1. /\ j \in 1 .. n /\ i \in 1 .. DataLength(j, m, q) + e
          /\ PlaceOf(version, level, w) = Place(n, m, q, j, i)
      BY <1>3, <1>4
    <2> HIDE DEF j, i
    <2>2. blocks[j].codewords = Codes(j)
      BY <1>6, <2>1
    <2>3. Codes(j)[i] = raw[Place(n, m, q, j, i)]
      BY <2>1
    <2> QED
      BY <2>1, <2>2, <2>3, Zenon DEF j, i
  <1> QED
    BY <1>5, <1>6, <1>7, <1>8 DEF n, e, BlocksRead, blocks

\* Every damaged cell costs at most one codeword of one block: of any codewords Q, as those
\* of one block or of all, a photograph p of a code spoils no more than it spoils of the
\* cells that hold them - whatever bytes, level, version and mask are, and wherever the
\* damage is.  The blocks always have the right sizes (DataBlock::getDataBlocks() after
\* BitMatrixParser::readCodewords(), against Encoder::interleaveWithECBytes() and
\* MatrixUtil::buildMatrix()).
THEOREM DamageSpoilsFewCodewords ==
    ASSUME NEW version \in 1 .. 40, NEW level \in Levels,
           NEW f \in Formats, NEW mask \in Masks,
           NEW bytes \in Seq(0 .. 255), Len(bytes) = NumDataBytes(version, level),
           NEW ec, ECBlocksOf(ec, 0 .. 255, version, level), NEW p,
           NEW Q \in SUBSET Positions(version, level)
    PROVE  LET data == DivideBytes(bytes, DataBytesOfBlocks(version, level))
               cells == DataCells(version)
               m == Drawn(version, f,
                          DataBits(BitsOfBytes(InterleaveBlocks(data, ec)), cells), mask)
               blocks == GetDataBlocks(ReadCodewords(p, version, mask), version, level)
               spoiled == {w \in Q :
                             blocks[w[1]].codewords[w[2]] # WordOf(data, ec, w[1])[w[2]]}
               damaged == {c \in CellsOf(version, level, Q) : p[c] # m[c]}
           IN /\ DOMAIN blocks = 1 .. NumBlocks(version, level)
              /\ \A j \in 1 .. NumBlocks(version, level) :
                    /\ blocks[j].data = Len(data[j])
                    /\ Len(blocks[j].codewords)
                           = Len(data[j]) + ECBytesOfBlock(version, level)
              /\ IsFiniteSet(spoiled) /\ Cardinality(spoiled) <= Cardinality(damaged)
  <1> DEFINE data == DivideBytes(bytes, DataBytesOfBlocks(version, level))
             sent == InterleaveBlocks(data, ec)
             cells == DataCells(version)
             m == Drawn(version, f, DataBits(BitsOfBytes(sent), cells), mask)
             raw == ReadCodewords(p, version, mask)
             blocks == GetDataBlocks(raw, version, level)
             W == Positions(version, level)
             At(w) == PlaceOf(version, level, w)
             spoiled == {w \in Q :
                           blocks[w[1]].codewords[w[2]] # WordOf(data, ec, w[1])[w[2]]}
             held == CellsOf(version, level, Q)
             damaged == {c \in held : p[c] # m[c]}
             total == TotalCodewords(version)
  <1>1. /\ sent \in Seq(0 .. 255) /\ Len(sent) = total
        /\ GetDataBlocks(sent, version, level)
               = [j \in 1 .. NumBlocks(version, level) |->
                    [data |-> Len(data[j]), codewords |-> data[j] \o ec[j]]]
    <2>1. Returned(sent, data, ec, bytes, 0 .. 255, version, level)
      BY BlocksReturn
    <2> HIDE DEF sent, data
    <2> QED
      BY <2>1 DEF Returned
  <1>2. DividedFor(data, version, level)
    <2> DEFINE n == NumBlocks(version, level)
               q == DataBytes(version, level)
               s == Shorter(version, level)
    <2>1. /\ n \in Nat \ {0} /\ s \in 1 .. n /\ q \in Nat
          /\ DataBytesOfBlocks(version, level) = LengthsOf(n, s, q)
          /\ Len(bytes) = n * q + (n - s)
      BY Table DEF LengthsOf
    <2> HIDE DEF n, q, s
    <2>2. Division(data, 0 .. 255, bytes, n, s, q)
      BY <2>1, Divided
    <2> HIDE DEF data
    <2>3. \A j \in 1 .. n : Len(data[j]) = DataLength(j, s, q)
      BY <2>2 DEF Division, BlocksOf, Sizes, DataLength
    <2> QED
      BY <2>3 DEF n, q, s, DividedFor
  <1> HIDE DEF data, sent
  <1>3. raw \in Seq(Range(raw)) /\ Len(raw) = total
    <2> DEFINE u == Unmasked(p, cells, mask)
    <2>1. u = [i \in DOMAIN u |-> u[i]] /\ DOMAIN u = DOMAIN cells
      BY DEF Unmasked
    <2>2. raw = BytesOf(u)
      BY DEF ReadCodewords
    <2> HIDE DEF u, raw
    <2>3. WordsRead(BytesOf(u), u, total)
      BY <2>1, CodewordsOfBits
    <2> QED
      BY <2>2, <2>3 DEF WordsRead
  <1>4. ASSUME NEW k \in 1 .. total, raw[k] # sent[k]
        PROVE  \E b \in 1 .. 8 : Spoils(p, m, cells, k, b)
    BY <1>1, <1>4, SpoiledCodeword
  <1>5. \A w \in Q, b \in 1 .. 8 : LET c == cells[BitNumber(At(w), b)]
                                  IN c \in Range(cells) => c \in held
    BY Zenon DEF CellsOf
  <1>6. held \subseteq Range(cells)
    BY DEF CellsOf
  <1> HIDE DEF raw, m, cells, total, held
  <1>7. BlocksRead(blocks, raw, data, version, level)
    BY <1>2, <1>3, ReadAtPlaces DEF total
  <1>8. BlocksRead(GetDataBlocks(sent, version, level), sent, data, version, level)
    BY <1>1, <1>2, ReadAtPlaces DEF total
  <1> HIDE DEF blocks
  <1>9. ASSUME NEW w \in W
        PROVE  /\ At(w) \in 1 .. total
               /\ blocks[w[1]].codewords[w[2]] = raw[At(w)]
               /\ WordOf(data, ec, w[1])[w[2]] = sent[At(w)]
    <2>1. w[1] \in 1 .. NumBlocks(version, level)
      BY DEF Positions
    <2>2. GetDataBlocks(sent, version, level)[w[1]].codewords = WordOf(data, ec, w[1])
      <3> DEFINE j == w[1]
                 all == GetDataBlocks(sent, version, level)
                 n == NumBlocks(version, level)
      <3>1. /\ j \in 1 .. n
            /\ all = [k \in 1 .. n |-> [data |-> Len(data[k]),
                                      codewords |-> data[k] \o ec[k]]]
        BY <1>1, <2>1
      <3> HIDE DEF j, all, n
      <3>2. all[j].codewords = data[j] \o ec[j]
        BY <3>1
      <3> QED
        BY <3>2 DEF j, all, WordOf
    <2>3. GetDataBlocks(sent, version, level)[w[1]].codewords[w[2]] = sent[At(w)]
      BY <1>8, Zenon DEF BlocksRead
    <2>4. blocks[w[1]].codewords[w[2]] = raw[At(w)]
      BY <1>7, Zenon DEF BlocksRead
    <2>5. At(w) \in 1 .. total
      BY PlacesOfPositions DEF total
    <2> QED
      BY <2>2, <2>3, <2>4, <2>5, Zenon
  <1>10. \A v, w \in W : At(v) = At(w) => v = w
    BY PlacesOfPositions
  <1> HIDE DEF W, At
  <1>11. Way(cells) /\ cells \in Seq(Places) /\ DOMAIN cells = 1 .. Len(cells)
    <2>1. Way(cells)
      BY DataWay DEF cells
    <2> QED
      BY <2>1, EntriesOf DEF Way
  <1> DEFINE Bit(w) == CHOOSE b \in 1 .. 8 : Spoils(p, m, cells, At(w), b)
             Number(w) == BitNumber(At(w), Bit(w))
             g == [w \in spoiled |-> cells[Number(w)]]
  <1>12. ASSUME NEW w \in spoiled
         PROVE  Bit(w) \in 1 .. 8 /\ Spoils(p, m, cells, At(w), Bit(w))
    <2>1. At(w) \in 1 .. total /\ raw[At(w)] # sent[At(w)]
      BY <1>9 DEF W
    <2>2. \E b \in 1 .. 8 : Spoils(p, m, cells, At(w), b)
      BY <1>4, <2>1, Zenon
    <2> QED
      BY <2>2, Zenon
  <1> HIDE DEF Bit
  <1>13. ASSUME NEW w \in spoiled PROVE Number(w) \in DOMAIN cells /\ g[w] \in damaged
    <2>1. Number(w) \in DOMAIN cells /\ p[cells[Number(w)]] # m[cells[Number(w)]]
      BY <1>12 DEF Spoils
    <2>2. cells[Number(w)] \in Range(cells)
      BY <2>1, Zenon DEF Range
    <2>3. g[w] = cells[Number(w)]
      OBVIOUS
    <2>4. cells[Number(w)] \in held
      <3>1. w \in Q /\ Bit(w) \in 1 .. 8
        BY <1>12
      <3> QED
        BY <1>5, <2>2, <3>1, Zenon
    <2> HIDE DEF Number, g, spoiled
    <2> QED
      BY <2>1, <2>3, <2>4
  <1>14. ASSUME NEW v \in spoiled, NEW w \in spoiled, g[v] = g[w] PROVE v = w
    <2>1. Number(v) = Number(w)
      <3>1. cells[Number(v)] = cells[Number(w)]
        BY <1>14
      <3> HIDE DEF Number, g, spoiled
      <3> QED
        BY <1>11, <1>13, <3>1 DEF Way
    <2>2. At(v) = At(w)
      <3> DEFINE a == At(v)
                 b == At(w)
                 x == Bit(v)
                 y == Bit(w)
      <3>1. /\ a \in 1 .. total /\ b \in 1 .. total /\ x \in 1 .. 8 /\ y \in 1 .. 8
            /\ BitNumber(a, x) = BitNumber(b, y)
        <4>1. v \in W /\ w \in W
          BY DEF W
        <4> QED
          BY <1>9, <1>12, <2>1, <4>1, Zenon
      <3> HIDE DEF a, b, x, y
      <3>2. a = b
        BY <3>1 DEF BitNumber
      <3> QED
        BY <3>2 DEF a, b
    <2> QED
      BY <1>10, <2>2 DEF W
  <1>15. g \in Injection(spoiled, damaged)
    <2>1. DOMAIN g = spoiled /\ g = [w \in spoiled |-> g[w]]
      OBVIOUS
    <2> HIDE DEF g, spoiled, damaged
    <2>2. g \in [spoiled -> damaged]
      BY <1>13, <2>1
    <2> QED
      BY <1>14, <2>2 DEF Injection, IsInjective
  <1>16. IsFiniteSet(damaged)
    <2>1. IsFiniteSet(1 .. Len(cells))
      BY <1>11, CardinalityUpTo, EntriesOf
    <2>2. cells \in Surjection(1 .. Len(cells), Range(cells))
      BY <1>11, EntriesOf DEF Surjection, Range
    <2>3. IsFiniteSet(Range(cells))
      BY <2>1, <2>2, FS_Surjection
    <2>4. damaged \subseteq Range(cells)
      BY <1>6
    <2> HIDE DEF damaged
    <2> QED
      BY <2>3, <2>4, FS_Subset
  <1> HIDE DEF g, spoiled, damaged
  <1>17. IsFiniteSet(spoiled) /\ Cardinality(spoiled) <= Cardinality(damaged)
    BY <1>15, <1>16, FS_Injection
  <1>18. /\ DOMAIN blocks = 1 .. NumBlocks(version, level)
         /\ \A j \in 1 .. NumBlocks(version, level) :
               /\ blocks[j].data = Len(data[j])
               /\ Len(blocks[j].codewords) = Len(data[j]) + ECBytesOfBlock(version, level)
    BY <1>7 DEF BlocksRead
  <1> QED
    BY <1>17, <1>18, Zenon DEF data, sent, cells, m, raw, blocks, spoiled, damaged, held
=============================================================================
