---------------------------- MODULE WordBuffers ----------------------------
(***************************************************************************)
(* The word buffer conversions (FCSFilter/src/utils.h:73-115).  Nothing in *)
(* the repository calls them, not even utilsUT.cpp.  The caller here is    *)
(* assumed: it writes bytes as words behind a pointer and reads them back, *)
(* keeps memory and the in/out size from call to call, or starts again     *)
(* with the full size.                                                     *)
(***************************************************************************)
EXTENDS Utils

CONSTANTS
  Inputs,     \* byte buffers a caller may bring
  Capacity    \* words behind the pointer

ASSUME BuffersAssumption == Inputs \subseteq Seq(Byte) /\ Capacity \in Nat

VARIABLES
  bytes,      \* the caller's byte buffer
  memory,     \* the words behind its pointer
  outputSize, \* how many of them it says there are
  held        \* ghost: the bytes the first outputSize words stand for

bufferVars == <<bytes, memory, outputSize, held>>

LittleWord == 0 .. ByteRange * (ByteRange * (ByteRange * ByteRange)) - 1

BuffersTypeOK ==
  /\ bytes \in Seq(Byte)
  /\ memory \in [1 .. Capacity -> LittleWord]
  /\ outputSize \in 0 .. Capacity
  /\ held \in Seq(Byte)

BuffersInit ==
  /\ bytes = <<>>
  /\ memory = [i \in 1 .. Capacity |-> 0]
  /\ outputSize = Capacity
  /\ held = [k \in 1 .. Capacity * WORD_SIZE |-> 0]

Fill ==
  /\ bytes' \in Inputs
  /\ UNCHANGED <<memory, outputSize, held>>

\* Fault: the caller's size is left as it was.
WriteKeepingSize ==
  /\ ~writeThrows(bytes, outputSize)
  /\ memory' = writeToWordPointerFromByteBuffer(bytes, memory)
  /\ held' = bytes
  /\ UNCHANGED <<bytes, outputSize>>

Write ==
  /\ ~writeThrows(bytes, outputSize)
  /\ memory' = writeToWordPointerFromByteBuffer(bytes, memory)
  /\ outputSize' = Len(bytes) \div WORD_SIZE
  /\ held' = bytes
  /\ UNCHANGED bytes

\* The exception leaves everything as it was.
WriteThrows == writeThrows(bytes, outputSize) /\ UNCHANGED bufferVars

Read ==
  /\ bytes' = byteBufferFromWordPointer(memory, outputSize)
  /\ UNCHANGED <<memory, outputSize, held>>

\* The caller takes the memory for a buffer of its full size again.
Reset ==
  /\ outputSize' = Capacity
  /\ held' = byteBufferFromWordBuffer(memory)
  /\ UNCHANGED <<bytes, memory>>

BuffersNext == Fill \/ Write \/ WriteThrows \/ Read \/ Reset

BuffersSpec == BuffersInit /\ [][BuffersNext]_bufferVars

-----------------------------------------------------------------------------
(* What is read back is what was written last, over any number of writes of *)
(* different lengths into the same memory, when the size that came out of   *)
(* one call (utils.h:114) goes into the next.                               *)
ReadsBackWritten == byteBufferFromWordPointer(memory, outputSize) = held

=============================================================================
