---------------------------- MODULE MCFlashUsers ----------------------------
EXTENDS FlashUsers, FiniteSetsExt

\* Bytes of four bits.
Bit(b, i) == (b \div 2 ^ i) % 2
MCAnd ==
  [a, b \in Byte |-> MapThenSumSet(LAMBDA i : Bit(a, i) * Bit(b, i) * 2 ^ i, 0 .. 3)]

\* Packets that end inside a page, on a page boundary and beyond one; two images, one
\* of which has the sum and the length of the other.
MCPackets == << 2, 3, 1 >>
MCImages == {<< 1, 12, 7, 3, 9, 5 >>, << 9, 5, 1, 12, 7, 3 >>}

\* The same for the run that watches the record: one short image.
MCShortPackets == << 2, 3 >>
MCShortImages == {<< 1, 12, 7, 3, 9 >>}

MCRecordData == {<< 5, 11 >>}
=============================================================================
