------------------------------- MODULE FilePut -------------------------------
(***************************************************************************)
(* How ndnputfile cuts a file into segments (putFilePrepareNextData of     *)
(* DIFS): from its end, first what is left over, then whole blocks.  Each  *)
(* turn of the loop is given by its number, count; the loop ends early     *)
(* when a turn reads nothing.                                              *)
(***************************************************************************)
EXTENDS Integers

CONSTANT BlockSize     \* m_blockSize

ASSUME BlockSizeAssumption == BlockSize \in Nat \ {0}

\* chunkSize, the FinalBlockId of every segment, and lastDataSize.
Chunks(bytes) == bytes \div BlockSize
LastDataSize(bytes) == bytes % BlockSize

\* What turn count reads, and the segment it makes of it.
PieceStart(bytes, count) == bytes - LastDataSize(bytes) - BlockSize * count
PieceSize(bytes, count) == IF count = 0 THEN LastDataSize(bytes) ELSE BlockSize
PieceSegment(bytes, count) == Chunks(bytes) - count

\* The turns that the loop completes, which is the number of segments in the
\* end (m_currentSegmentNo, m_data.size()).  Only the first may read nothing.
Prepared(bytes) == IF PieceSize(bytes, 0) = 0 THEN 0 ELSE Chunks(bytes) + 1

\* m_data, to which each turn inserts at the front: the segment number at a
\* position, and the bytes first .. last of the file that it holds.
Packets(bytes) ==
  [i \in 0 .. Prepared(bytes) - 1 |->
     LET count == Prepared(bytes) - 1 - i
     IN  [segment |-> PieceSegment(bytes, count),
          first   |-> PieceStart(bytes, count),
          last    |-> PieceStart(bytes, count) + PieceSize(bytes, count) - 1]]

\* The end block of the info that the client sends (putFileSendManifest).
EndBlock(bytes) ==
  bytes \div BlockSize + (IF bytes % BlockSize # 0 THEN 1 ELSE 0) - 1

-----------------------------------------------------------------------------

\* The packets, in their order, are the file, and they are the segments that its
\* info announces, each at the position at which onPutFileInterest looks it up.
CutsWhole(bytes) ==
  LET data == Packets(bytes)
  IN  /\ DOMAIN data = 0 .. EndBlock(bytes)
      /\ \A i \in DOMAIN data :
           /\ data[i].segment = i
           /\ data[i].first <= data[i].last
           /\ data[i].first = IF i = 0 THEN 0 ELSE data[i - 1].last + 1
      /\ data[EndBlock(bytes)].last = bytes - 1

=============================================================================
