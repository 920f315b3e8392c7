------------------------- MODULE WordBuffersProofs -------------------------
(***************************************************************************)
(* Word buffers are read back as they were written, for any byte buffers,  *)
(* any room and any range of a byte, over any number of calls.             *)
(***************************************************************************)
EXTENDS WordBuffers, HeaderCodecProofs, SequenceTheorems

(* A function on 1 .. n is a sequence of length n.                          *)
LEMMA TableIsSeq ==
  ASSUME NEW S, NEW n \in Nat, NEW f \in [1 .. n -> S]
  PROVE  f \in Seq(S) /\ Len(f) = n /\ DOMAIN f = 1 .. n
OBVIOUS

LEMMA WordRanges == Word = LittleWord
BY Ranges DEF Word, LittleWord

-----------------------------------------------------------------------------
(* One word in a buffer.                                                    *)

(* The word read at an offset has the four bytes there for its bytes.       *)
LEMMA WordAt ==
  ASSUME NEW s \in Seq(Byte), NEW o \in Nat, o + WORD_SIZE <= Len(s)
  PROVE  LET w == decodeFromLittleEndianBuffer(s, o)
         IN /\ w \in LittleWord
            /\ \A j \in 1 .. WORD_SIZE :
                 encodeToLittleEndianBuffer(w, <<0, 0, 0, 0>>, 0)[j] = s[o + j]
<1> DEFINE b == [j \in 1 .. WORD_SIZE |-> s[o + j]]
           z == <<0, 0, 0, 0>>
           w == decodeFromLittleEndianBuffer(s, o)
<1>1. b \in [1 .. WORD_SIZE -> Byte]
  BY DEF WORD_SIZE
<1>2. z \in [1 .. WORD_SIZE -> Byte]
  BY Ranges DEF WORD_SIZE, Byte
<1>3. w = decodeFromLittleEndianBuffer(b, 0)
  <2>1. b[0 + 1] = s[o + 1] /\ b[0 + 2] = s[o + 2] /\ b[0 + 3] = s[o + 3] /\ b[0 + 4] = s[o + 4]
    BY DEF WORD_SIZE
  <2> HIDE DEF b
  <2> QED BY <2>1 DEF decodeFromLittleEndianBuffer
<1> HIDE DEF b, z
<1>4. w \in Word
  BY <1>1, <1>3, DecodeWord
<1>5. encodeToLittleEndianBuffer(w, b, 0) = b
  BY <1>1, <1>3, BytesThroughWord
<1>6. w \in Nat
  BY <1>4 DEF Word
<1> HIDE DEF w
<1>7. \A j \in 1 .. WORD_SIZE :
        encodeToLittleEndianBuffer(w, z, 0)[j] = encodeToLittleEndianBuffer(w, b, 0)[j]
  BY <1>1, <1>2, <1>6, EncodeWord DEF WORD_SIZE
<1>8. \A j \in 1 .. WORD_SIZE : encodeToLittleEndianBuffer(w, z, 0)[j] = s[o + j]
  BY <1>5, <1>7 DEF b
<1> QED BY <1>4, <1>8, WordRanges DEF w, z

(* The bytes of a word are bytes, and those of zero are zero.               *)
LEMMA BytesOf ==
  ASSUME NEW v \in LittleWord, NEW j \in 1 .. WORD_SIZE
  PROVE  /\ encodeToLittleEndianBuffer(v, <<0, 0, 0, 0>>, 0)[j] \in Byte
         /\ v = 0 => encodeToLittleEndianBuffer(v, <<0, 0, 0, 0>>, 0)[j] = 0
<1> DEFINE z == <<0, 0, 0, 0>>
           e == encodeToLittleEndianBuffer(v, z, 0)
<1>1. z \in [1 .. WORD_SIZE -> Byte]
  BY Ranges DEF WORD_SIZE, Byte
<1>2. v \in Nat
  <2>1. v \in Word
    BY WordRanges
  <2> QED BY <2>1 DEF Word
<1> HIDE DEF z
<1>3. e \in [1 .. WORD_SIZE -> Byte]
  BY <1>1, <1>2, EncodeWord
<1>4. ASSUME v = 0 PROVE e[j] = 0
  <2>1. 0 % ByteRange = 0 /\ 0 \div ByteRange = 0
    BY Ranges
  <2>2. e[1] = 0 /\ e[2] = 0 /\ e[3] = 0 /\ e[4] = 0
    BY <1>1, <1>2, <1>4, <2>1, EncodeWord
  <2> HIDE DEF e
  <2> QED BY <2>2 DEF WORD_SIZE
<1> QED BY <1>3, <1>4 DEF z

-----------------------------------------------------------------------------
(* Whole buffers.                                                           *)

(* What the words up to a size stand for: so many bytes, four for each.     *)
LEMMA PointerBytes ==
  ASSUME NEW m \in [1 .. Capacity -> LittleWord], NEW n \in 0 .. Capacity
  PROVE  LET r == byteBufferFromWordPointer(m, n)
         IN /\ r \in Seq(Byte) /\ Len(r) = n * WORD_SIZE /\ DOMAIN r = 1 .. n * WORD_SIZE
            /\ \A k \in 1 .. n * WORD_SIZE :
                 /\ ((k - 1) \div WORD_SIZE) + 1 \in 1 .. n
                 /\ r[k] = encodeToLittleEndianBuffer(m[((k - 1) \div WORD_SIZE) + 1],
                             <<0, 0, 0, 0>>, 0)[((k - 1) % WORD_SIZE) + 1]
<1> DEFINE t == SubSeq(m, 1, n)
           r == byteBufferFromWordPointer(m, n)
           enc(w) == encodeToLittleEndianBuffer(w, <<0, 0, 0, 0>>, 0)
<1>0. Capacity \in Nat /\ n \in Nat
  BY BuffersAssumption DEF BuffersAssumption
<1>1. t \in Seq(LittleWord) /\ Len(t) = n /\ \A i \in 1 .. n : t[i] = m[i]
  <2>1. \A i \in 1 .. n : m[i] \in LittleWord
    BY <1>0
  <2>2. /\ t \in Seq(LittleWord) /\ Len(t) = (IF 1 <= n THEN n - 1 + 1 ELSE 0)
        /\ \A i \in 1 .. n - 1 + 1 : t[i] = m[1 + i - 1]
    BY <1>0, <2>1, SubSeqProperties
  <2> HIDE DEF t
  <2> QED BY <1>0, <2>2
<1> HIDE DEF t
<1>2. \A k \in 1 .. n * WORD_SIZE :
        /\ ((k - 1) \div WORD_SIZE) + 1 \in 1 .. n
        /\ ((k - 1) % WORD_SIZE) + 1 \in 1 .. WORD_SIZE
  BY <1>0 DEF WORD_SIZE
<1>3. r = [k \in 1 .. n * WORD_SIZE |->
             enc(t[((k - 1) \div WORD_SIZE) + 1])[((k - 1) % WORD_SIZE) + 1]]
  BY <1>1 DEF byteBufferFromWordPointer, byteBufferFromWordBuffer, t
<1> HIDE DEF r
<1>4. \A k \in 1 .. n * WORD_SIZE :
        r[k] = enc(m[((k - 1) \div WORD_SIZE) + 1])[((k - 1) % WORD_SIZE) + 1]
  <2> HIDE DEF enc
  <2> QED BY <1>1, <1>2, <1>3
<1>5. \A w \in LittleWord, j \in 1 .. WORD_SIZE : enc(w)[j] \in Byte
  BY BytesOf
<1>6. \A k \in 1 .. n * WORD_SIZE : r[k] \in Byte
  <2> HIDE DEF enc
  <2>1. \A i \in 1 .. n : m[i] \in LittleWord
    BY <1>0
  <2> QED BY <1>2, <1>4, <1>5, <2>1
<1>7. n * WORD_SIZE \in Nat
  BY <1>0 DEF WORD_SIZE
<1>8. r \in [1 .. n * WORD_SIZE -> Byte]
  BY <1>3, <1>6
<1>9. r \in Seq(Byte) /\ Len(r) = n * WORD_SIZE /\ DOMAIN r = 1 .. n * WORD_SIZE
  BY <1>7, <1>8, TableIsSeq
<1> QED BY <1>2, <1>4, <1>9 DEF r

(* Words behind the pointer that were read from a buffer give it back.      *)
LEMMA ReadBack ==
  ASSUME NEW s \in Seq(Byte), NEW n \in 0 .. Capacity, Len(s) = n * WORD_SIZE,
         NEW m \in [1 .. Capacity -> LittleWord],
         \A i \in 1 .. n : m[i] = decodeFromLittleEndianBuffer(s, (i - 1) * WORD_SIZE)
  PROVE  byteBufferFromWordPointer(m, n) = s
<1> DEFINE r == byteBufferFromWordPointer(m, n)
           enc(w) == encodeToLittleEndianBuffer(w, <<0, 0, 0, 0>>, 0)
           i(k) == ((k - 1) \div WORD_SIZE) + 1
           j(k) == ((k - 1) % WORD_SIZE) + 1
<1>1. /\ r \in Seq(Byte) /\ Len(r) = n * WORD_SIZE /\ DOMAIN r = 1 .. n * WORD_SIZE
      /\ \A k \in 1 .. n * WORD_SIZE : i(k) \in 1 .. n /\ r[k] = enc(m[i(k)])[j(k)]
  BY PointerBytes
<1> HIDE DEF r
<1>2. ASSUME NEW k \in 1 .. n * WORD_SIZE PROVE r[k] = s[k]
  <2>1. /\ k \in Nat /\ i(k) \in 1 .. n /\ j(k) \in 1 .. WORD_SIZE
        /\ (i(k) - 1) * WORD_SIZE \in Nat
        /\ (i(k) - 1) * WORD_SIZE + WORD_SIZE <= Len(s)
        /\ (i(k) - 1) * WORD_SIZE + j(k) = k
    <3>1. n \in Nat /\ k \in 1 .. n * 4
      BY BuffersAssumption DEF BuffersAssumption, WORD_SIZE
    <3>2. /\ k - 1 \in Nat /\ i(k) \in Nat /\ j(k) \in 1 .. 4 /\ i(k) \in 1 .. n
          /\ (i(k) - 1) * 4 + j(k) = k /\ (i(k) - 1) * 4 \in Nat
      BY <3>1 DEF WORD_SIZE
    <3>3. (i(k) - 1) * 4 + 4 <= n * 4
      BY <3>1, <3>2
    <3> HIDE DEF i, j
    <3> QED BY <3>1, <3>2, <3>3 DEF WORD_SIZE
  <2> HIDE DEF i, j
  <2>2. m[i(k)] = decodeFromLittleEndianBuffer(s, (i(k) - 1) * WORD_SIZE)
    BY <2>1
  <2>3. enc(m[i(k)])[j(k)] = s[(i(k) - 1) * WORD_SIZE + j(k)]
    <3> DEFINE o == (i(k) - 1) * WORD_SIZE
    <3>1. o \in Nat /\ o + WORD_SIZE <= Len(s) /\ m[i(k)] = decodeFromLittleEndianBuffer(s, o)
      BY <2>1, <2>2
    <3> HIDE DEF o
    <3>2. \A jj \in 1 .. WORD_SIZE : enc(m[i(k)])[jj] = s[o + jj]
      BY <3>1, WordAt
    <3> QED BY <2>1, <3>2 DEF o
  <2>4. r[k] = enc(m[i(k)])[j(k)]
    BY <1>1, <2>1
  <2> HIDE DEF enc
  <2> QED BY <2>1, <2>3, <2>4
<1>3. Len(s) = n * WORD_SIZE /\ DOMAIN s = 1 .. n * WORD_SIZE /\ s = [k \in 1 .. n * WORD_SIZE |-> s[k]]
  OBVIOUS
<1>4. r = [k \in 1 .. n * WORD_SIZE |-> r[k]]
  BY <1>1
<1> QED BY <1>2, <1>3, <1>4 DEF r

-----------------------------------------------------------------------------
(* The caller's memory.                                                     *)

BuffersInv == BuffersTypeOK /\ ReadsBackWritten

LEMMA BuffersInitInv == BuffersInit => BuffersInv
<1> SUFFICES ASSUME BuffersInit PROVE BuffersInv
  OBVIOUS
<1> DEFINE r == byteBufferFromWordPointer(memory, Capacity)
           N == Capacity * WORD_SIZE
<1>0. Capacity \in Nat /\ N \in Nat /\ Capacity \in 0 .. Capacity
  BY BuffersAssumption DEF BuffersAssumption, WORD_SIZE
<1>1. 0 \in Byte /\ 0 \in LittleWord
  BY Ranges, WordRanges, HeaderAssumption DEF Byte, Word
<1>2. memory = [i \in 1 .. Capacity |-> 0] /\ memory \in [1 .. Capacity -> LittleWord]
  BY <1>1 DEF BuffersInit
<1>3. /\ r \in Seq(Byte) /\ Len(r) = N /\ DOMAIN r = 1 .. N
      /\ \A k \in 1 .. N :
           /\ ((k - 1) \div WORD_SIZE) + 1 \in 1 .. Capacity
           /\ r[k] = encodeToLittleEndianBuffer(memory[((k - 1) \div WORD_SIZE) + 1],
                       <<0, 0, 0, 0>>, 0)[((k - 1) % WORD_SIZE) + 1]
  BY <1>0, <1>2, PointerBytes
<1> HIDE DEF r, N
<1>4. ASSUME NEW k \in 1 .. N PROVE r[k] = 0
  <2>1. ((k - 1) % WORD_SIZE) + 1 \in 1 .. WORD_SIZE
    BY <1>0 DEF WORD_SIZE
  <2>2. memory[((k - 1) \div WORD_SIZE) + 1] = 0
    BY <1>2, <1>3
  <2>3. encodeToLittleEndianBuffer(0, <<0, 0, 0, 0>>, 0)[((k - 1) % WORD_SIZE) + 1] = 0
    BY <1>1, <2>1, BytesOf
  <2> QED BY <1>3, <2>2, <2>3
<1>5. r = [k \in 1 .. N |-> r[k]]
  BY <1>3
<1>6. held = [k \in 1 .. N |-> 0]
  BY DEF BuffersInit, N
<1>7. r = held
  BY <1>4, <1>5, <1>6
<1>8. bytes \in Seq(Byte) /\ outputSize = Capacity
  BY DEF BuffersInit
<1>9. ReadsBackWritten
  BY <1>7, <1>8 DEF ReadsBackWritten, r
<1>10. BuffersTypeOK
  BY <1>0, <1>2, <1>3, <1>7, <1>8 DEF BuffersTypeOK
<1> QED BY <1>9, <1>10 DEF BuffersInv

(* writeToWordPointerFromByteBuffer, when it does not throw.                *)
LEMMA WriteInv == ASSUME BuffersInv, Write PROVE BuffersInv'
<1> DEFINE n == Len(bytes) \div WORD_SIZE
<1>0. /\ bytes \in Seq(Byte) /\ memory \in [1 .. Capacity -> LittleWord]
      /\ outputSize \in 0 .. Capacity /\ Capacity \in Nat
  BY BuffersAssumption DEF BuffersInv, BuffersTypeOK, BuffersAssumption
<1>1. Len(bytes) % WORD_SIZE = 0 /\ ~(outputSize < n)
  BY DEF Write, writeThrows, sizeThrows
<1>2. Len(bytes) \in Nat
  BY <1>0
<1>3. n \in 0 .. Capacity /\ Len(bytes) = n * WORD_SIZE
  BY <1>0, <1>1, <1>2 DEF WORD_SIZE
<1>4. /\ bytes' = bytes /\ held' = bytes /\ outputSize' = n
      /\ memory' = writeToWordPointerFromByteBuffer(bytes, memory)
  BY DEF Write
<1> HIDE DEF n
<1>5. ASSUME NEW i \in 1 .. n
      PROVE  /\ decodeFromLittleEndianBuffer(bytes, (i - 1) * WORD_SIZE) \in LittleWord
             /\ wordBufferFromByteBuffer(bytes)[i]
                  = decodeFromLittleEndianBuffer(bytes, (i - 1) * WORD_SIZE)
  <2>1. (i - 1) * WORD_SIZE \in Nat /\ (i - 1) * WORD_SIZE + WORD_SIZE <= Len(bytes)
    BY <1>3 DEF WORD_SIZE
  <2>2. decodeFromLittleEndianBuffer(bytes, (i - 1) * WORD_SIZE) \in LittleWord
    <3> DEFINE o == (i - 1) * WORD_SIZE
    <3>1. o \in Nat /\ o + WORD_SIZE <= Len(bytes)
      BY <2>1
    <3> HIDE DEF o
    <3>2. decodeFromLittleEndianBuffer(bytes, o) \in LittleWord
      BY <1>0, <3>1, WordAt
    <3> QED BY <3>2 DEF o
  <2>3. wordBufferFromByteBuffer(bytes)
          = [k \in 1 .. n |-> decodeFromLittleEndianBuffer(bytes, (k - 1) * WORD_SIZE)]
    BY DEF wordBufferFromByteBuffer, n
  <2> QED BY <2>2, <2>3
<1>6. memory' = [i \in 1 .. Capacity |->
                   IF i <= n THEN wordBufferFromByteBuffer(bytes)[i] ELSE memory[i]]
  BY <1>0, <1>4 DEF writeToWordPointerFromByteBuffer, n
<1>7. memory' \in [1 .. Capacity -> LittleWord]
  <2>1. ASSUME NEW i \in 1 .. Capacity
        PROVE  (IF i <= n THEN wordBufferFromByteBuffer(bytes)[i] ELSE memory[i]) \in LittleWord
    <3>1. CASE i <= n
      <4>1. i \in 1 .. n
        BY <1>3, <3>1
      <4> QED BY <1>5, <3>1, <4>1
    <3>2. CASE ~(i <= n)
      BY <1>0, <3>2
    <3> QED BY <3>1, <3>2
  <2> QED BY <1>6, <2>1
<1>8. \A i \in 1 .. n : memory'[i] = decodeFromLittleEndianBuffer(bytes, (i - 1) * WORD_SIZE)
  <2>1. ASSUME NEW i \in 1 .. n PROVE memory'[i] = wordBufferFromByteBuffer(bytes)[i]
    <3>1. i \in 1 .. Capacity /\ i <= n
      BY <1>0, <1>3
    <3> QED BY <1>6, <3>1
  <2> QED BY <1>5, <2>1
<1>9. byteBufferFromWordPointer(memory', n) = bytes
  BY <1>0, <1>3, <1>7, <1>8, ReadBack
<1>10. ReadsBackWritten'
  BY <1>4, <1>9 DEF ReadsBackWritten
<1>11. BuffersTypeOK'
  BY <1>0, <1>3, <1>4, <1>7 DEF BuffersTypeOK
<1> QED BY <1>10, <1>11 DEF BuffersInv

(* byteBufferFromWordBuffer reads all there is.                             *)
LEMMA ResetInv == ASSUME BuffersInv, Reset PROVE BuffersInv'
<1>0. /\ memory \in [1 .. Capacity -> LittleWord] /\ Capacity \in Nat
      /\ Capacity \in 0 .. Capacity
  BY BuffersAssumption DEF BuffersInv, BuffersTypeOK, BuffersAssumption
<1>1. SubSeq(memory, 1, Capacity) = memory
  <2> DEFINE t == SubSeq(memory, 1, Capacity)
  <2>1. \A i \in 1 .. Capacity : memory[i] \in LittleWord
    BY <1>0
  <2>2. /\ t \in Seq(LittleWord) /\ Len(t) = (IF 1 <= Capacity THEN Capacity - 1 + 1 ELSE 0)
        /\ \A i \in 1 .. Capacity - 1 + 1 : t[i] = memory[1 + i - 1]
    BY <1>0, <2>1, SubSeqProperties
  <2> HIDE DEF t
  <2>3. Len(t) = Capacity /\ \A i \in 1 .. Capacity : t[i] = memory[i]
    BY <1>0, <2>2
  <2>4. t = [i \in 1 .. Capacity |-> t[i]] /\ memory = [i \in 1 .. Capacity |-> memory[i]]
    BY <1>0, <2>2, <2>3
  <2> QED BY <2>3, <2>4 DEF t
<1>2. byteBufferFromWordPointer(memory, Capacity) = byteBufferFromWordBuffer(memory)
  BY <1>1 DEF byteBufferFromWordPointer
<1>3. byteBufferFromWordPointer(memory, Capacity) \in Seq(Byte)
  BY <1>0, PointerBytes
<1>4. UNCHANGED <<bytes, memory>> /\ outputSize' = Capacity
      /\ held' = byteBufferFromWordBuffer(memory)
  BY DEF Reset
<1> QED BY <1>0, <1>2, <1>3, <1>4 DEF BuffersInv, BuffersTypeOK, ReadsBackWritten

-----------------------------------------------------------------------------
(* The specification.                                                       *)

LEMMA BuffersInvariant == BuffersSpec => []BuffersInv
<1>1. BuffersInv /\ [BuffersNext]_bufferVars => BuffersInv'
  <2> SUFFICES ASSUME BuffersInv, [BuffersNext]_bufferVars PROVE BuffersInv'
    OBVIOUS
  <2>1. CASE Fill
    <3>1. bytes' \in Seq(Byte) /\ UNCHANGED <<memory, outputSize, held>>
      BY <2>1, BuffersAssumption DEF Fill, BuffersAssumption
    <3> QED BY <3>1 DEF BuffersInv, BuffersTypeOK, ReadsBackWritten
  <2>2. CASE Read
    <3>1. bytes' = byteBufferFromWordPointer(memory, outputSize)
          /\ UNCHANGED <<memory, outputSize, held>>
      BY <2>2 DEF Read
    <3>2. bytes' \in Seq(Byte)
      BY <3>1, PointerBytes DEF BuffersInv, BuffersTypeOK
    <3> QED BY <3>1, <3>2 DEF BuffersInv, BuffersTypeOK, ReadsBackWritten
  <2>3. CASE UNCHANGED bufferVars
    BY <2>3 DEF bufferVars, BuffersInv, BuffersTypeOK, ReadsBackWritten
  <2> QED BY <2>1, <2>2, <2>3, WriteInv, ResetInv DEF BuffersNext, WriteThrows
<1> QED BY <1>1, BuffersInitInv, PTL DEF BuffersSpec

(* What is read back is what was written last, whatever was in the memory   *)
(* before and however often sizes went in and out.                          *)
THEOREM ReadBackCorrect == BuffersSpec => []ReadsBackWritten
<1>1. BuffersInv => ReadsBackWritten
  BY DEF BuffersInv
<1> QED BY <1>1, BuffersInvariant, PTL

(* The bytes, words and sizes of the caller keep their types.               *)
THEOREM BuffersTypeCorrect == BuffersSpec => []BuffersTypeOK
<1>1. BuffersInv => BuffersTypeOK
  BY DEF BuffersInv
<1> QED BY <1>1, BuffersInvariant, PTL

=============================================================================
