------------------------------- MODULE Utils -------------------------------
(***************************************************************************)
(* The 32-bit words in a byte buffer (FCSFilter/src/utils.h).  Offsets     *)
(* count from zero as in the code; the buffer holds a whole word behind    *)
(* the offset.  The exceptions when it does not (lines 50-53 and 63-66) are *)
(* not here: decoding, VerifierProtocol's decodeThrows is the check; every  *)
(* caller in the code encodes into four bytes or into as many as needed.   *)
(***************************************************************************)
EXTENDS Integers, Sequences

CONSTANT ByteRange   \* 2^8

ASSUME ByteAssumption == ByteRange \in Nat \ {0}

WORD_SIZE == 4
Byte == 0 .. ByteRange - 1

\* Fault: the most significant byte first.
decodeBigEndian(buffer, offset) ==
  ((buffer[offset + 1] * ByteRange + buffer[offset + 2]) * ByteRange
     + buffer[offset + 3]) * ByteRange + buffer[offset + 4]

\* The byte at the offset is the least significant one.
decodeFromLittleEndianBuffer(buffer, offset) ==
  ((buffer[offset + 4] * ByteRange + buffer[offset + 3]) * ByteRange
     + buffer[offset + 2]) * ByteRange + buffer[offset + 1]

encodeToLittleEndianBuffer(value, buffer, offset) ==
  [buffer EXCEPT
     ![offset + 4] = (value \div (ByteRange * (ByteRange * ByteRange))) % ByteRange,
     ![offset + 3] = (value \div (ByteRange * ByteRange)) % ByteRange,
     ![offset + 2] = (value \div ByteRange) % ByteRange,
     ![offset + 1] = value % ByteRange]

-----------------------------------------------------------------------------
(* Whole buffers.                                                           *)

sizeThrows(input) == Len(input) % WORD_SIZE # 0

wordBufferFromByteBuffer(input) ==
  [i \in 1 .. Len(input) \div WORD_SIZE |->
     decodeFromLittleEndianBuffer(input, (i - 1) * WORD_SIZE)]

\* Every byte of the resized output is overwritten by one of the words.
byteBufferFromWordBuffer(input) ==
  [k \in 1 .. Len(input) * WORD_SIZE |->
     encodeToLittleEndianBuffer(input[((k - 1) \div WORD_SIZE) + 1], <<0, 0, 0, 0>>, 0)
       [((k - 1) % WORD_SIZE) + 1]]

byteBufferFromWordPointer(input, inputSize) ==
  byteBufferFromWordBuffer(SubSeq(input, 1, inputSize))

\* Fault: no check for room.
writeThrowsAtOddSize(input, outputSize) == sizeThrows(input)

writeThrows(input, outputSize) ==
  sizeThrows(input) \/ outputSize < Len(input) \div WORD_SIZE

\* The words behind the pointer after the copy.
writeToWordPointerFromByteBuffer(input, output) ==
  [i \in DOMAIN output |-> IF i <= Len(input) \div WORD_SIZE
                           THEN wordBufferFromByteBuffer(input)[i] ELSE output[i]]

=============================================================================
