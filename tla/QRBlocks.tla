------------------------------- MODULE QRBlocks ------------------------------
(***************************************************************************)
(* The codewords of a QR code: the data bytes are divided into blocks,     *)
(* each block gets error correction bytes of its own, and a code holds the *)
(* bytes of all blocks in turn (Encoder::interleaveWithECBytes()).         *)
(* DataBlock::getDataBlocks() takes them apart again.                      *)
(***************************************************************************)
EXTENDS QRVersion, QRFormat

NumDataBytes(version, level) == TotalCodewords(version) - TotalECCodewords(version, level)

-----------------------------------------------------------------------------
(* Encoder.                                                                *)

\* Of each block, how many bytes are data: the encoder computes what the table says.
DataBytesOfBlocks(version, level) ==
    LET n == NumBlocks(version, level)
        group1 == n - (TotalCodewords(version) % n)
    IN [id \in 1 .. n |-> (NumDataBytes(version, level) \div n)
                              + (IF id <= group1 THEN 0 ELSE 1)]
ECBytesOfBlock(version, level) ==
    LET n == NumBlocks(version, level)
    IN (TotalCodewords(version) \div n) - (NumDataBytes(version, level) \div n)

\* The bytes divided into blocks of these lengths.
DivideBytes(bytes, lengths) ==
    LET dataBytesOffset[id \in DOMAIN lengths] ==
            IF id = 1 THEN 0 ELSE dataBytesOffset[id - 1] + lengths[id - 1]
    IN [id \in DOMAIN lengths |->
           SubSeq(bytes, dataBytesOffset[id] + 1, dataBytesOffset[id] + lengths[id])]

\* One byte of each block in turn, as long as there are any.
RoundRobin(blocks) ==
    LET longest == Max({0} \cup {Len(blocks[j]) : j \in DOMAIN blocks})
        Turn(i) == [j \in DOMAIN blocks |->
                       IF i <= Len(blocks[j]) THEN <<blocks[j][i]>> ELSE <<>>]
    IN FlattenSeq([i \in 1 .. longest |-> FlattenSeq(Turn(i))])

\* First the data of the blocks, then their error correction bytes.
InterleaveBlocks(data, ec) == RoundRobin(data) \o RoundRobin(ec)

-----------------------------------------------------------------------------
(* Decoder.                                                                *)

\* getDataBlocks(): the sizes in the table, the shorter blocks first.
BlockLengths(version, level) ==
    LET ecb == ECBlocksForLevel(version, level).ecb
    IN FlattenSeq([k \in DOMAIN ecb |-> [i \in 1 .. ecb[k][1] |-> ecb[k][2]]])

GetDataBlocks(raw, version, level) ==
    LET lengths == BlockLengths(version, level)
        n == Len(lengths)
        shorter == lengths[1]
        longer == Cardinality({j \in 1 .. n : lengths[j] > shorter})
        ec == ECBlocksForLevel(version, level).ecCodewordsPerBloc
        Data(j, i) == IF i <= shorter THEN raw[n * (i - 1) + j]
                      ELSE raw[n * shorter + j - (n - longer)]
        EC(j, i) == raw[n * shorter + longer + n * (i - 1) + j]
    IN [j \in 1 .. n |->
          [data |-> lengths[j],
           codewords |-> [i \in 1 .. lengths[j] |-> Data(j, i)]
                             \o [i \in 1 .. ec |-> EC(j, i)]]]

-----------------------------------------------------------------------------
(* The table.                                                              *)

\* The blocks of the encoder are those of the table.
ASSUME SameBlocks ==
    \A version \in 1 .. 40, level \in Levels :
        /\ DataBytesOfBlocks(version, level) = BlockLengths(version, level)
        /\ ECBytesOfBlock(version, level) = ECBlocksForLevel(version, level).ecCodewordsPerBloc

\* There are blocks, and the encoder's checks of the numbers of bytes do not fail.
ASSUME BytesMatch ==
    \A version \in 1 .. 40, level \in Levels :
        LET n == NumBlocks(version, level)
            total == TotalCodewords(version)
            data == NumDataBytes(version, level)
            ec == ECBytesOfBlock(version, level)
        IN /\ n \in 1 .. total /\ data \in n .. total /\ ec \in 1 .. total
           /\ data = n * (data \div n) + (total % n)
           /\ total = data + n * ec
=============================================================================
