----------------------------- MODULE Keystream -----------------------------
(* The keystream of the MycelFT hook (deviosup.c): FatMycelProcessBuffer XORs a buffer  *)
(* that lies at StreamOffset of its file, one block of MYCEL_GRID_SIZE bytes after the  *)
(* other.  The simulation that fills a block is an ideal function of seed and block     *)
(* index, so a byte of key is named by where it comes from, and a byte of data is the   *)
(* set of the keys in it: XOR is the symmetric difference.                              *)
EXTENDS Naturals, Sequences

CONSTANT GridSize      \* MYCEL_GRID_SIZE

ASSUME GridSizeAssumption == GridSize \in Nat \ {0}

\* FatMycelGenerateKeyBlock: every call computes the block anew from seed and index.
KeyBlock(bioSeed, blockIndex) ==
    [k \in 0 .. GridSize - 1 |-> [seed |-> bioSeed, block |-> blockIndex, byte |-> k]]

Xor(byte, key) == (byte \ {key}) \cup ({key} \ byte)

\* One pass of the loop ends where the block or the buffer does.
BytesToProcess(length, offset, streamOffset) ==
    LET room == GridSize - ((streamOffset + offset) % GridSize)
    IN  IF room > length - offset THEN length - offset ELSE room

\* The buffer as FatMycelProcessBuffer leaves it.
ProcessBuffer(buffer, bioSeed, streamOffset) ==
    LET rest[offset \in 0 .. Len(buffer)] ==
            IF offset = Len(buffer) THEN <<>>
            ELSE LET absPos == streamOffset + offset
                     key == KeyBlock(bioSeed, absPos \div GridSize)
                     n == BytesToProcess(Len(buffer), offset, streamOffset)
                 IN  [k \in 1 .. n |-> Xor(buffer[offset + k], key[(absPos % GridSize) + k - 1])]
                         \o rest[offset + n]
    IN  rest[0]

-----------------------------------------------------------------------------
\* The key of a byte depends on its position in the file alone.
ByPosition(buffer, bioSeed, streamOffset) ==
    [i \in 1 .. Len(buffer) |->
        LET pos == streamOffset + i - 1
        IN  Xor(buffer[i], KeyBlock(bioSeed, pos \div GridSize)[pos % GridSize])]

\* A file may be read in other pieces than it was written in: the bytes of a buffer get the
\* same keys however the transfer is cut, and a second pass takes them off again.
CutsDoNotMatter(buffer, bioSeed, streamOffset) ==
    LET whole == ProcessBuffer(buffer, bioSeed, streamOffset) IN
    /\ whole = ByPosition(buffer, bioSeed, streamOffset)
    /\ \A cut \in 0 .. Len(buffer) :
           whole = ProcessBuffer(SubSeq(buffer, 1, cut), bioSeed, streamOffset)
                       \o ProcessBuffer(SubSeq(buffer, cut + 1, Len(buffer)), bioSeed,
                                        streamOffset + cut)
    /\ ProcessBuffer(whole, bioSeed, streamOffset) = buffer
=============================================================================
