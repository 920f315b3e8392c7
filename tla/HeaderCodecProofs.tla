------------------------- MODULE HeaderCodecProofs -------------------------
(***************************************************************************)
(* A header and its bytes, for any ranges of the fields and of a byte:     *)
(* what Conversions.cfg checks on bytes of two bits.                       *)
(***************************************************************************)
EXTENDS HeaderCodec, CommandHeaderProofs

LEMMA Ranges ==
  /\ ByteRange \in Nat \ {0}
  /\ ClientRange \in Nat \ {0} /\ IdRange \in Nat \ {0} /\ LengthRange \in Nat \ {0}
  /\ CodeRange \in Nat \ {0} /\ BitRange \in Nat \ {0}
  /\ BitRange = 2
  /\ MaxCode \in Nat /\ CodeRange - 1 <= MaxCode
  /\ WordRange = ByteRange * (ByteRange * (ByteRange * ByteRange))
BY ByteAssumption, HeaderAssumption, CodecAssumption
   DEF ByteAssumption, HeaderAssumption, CodecAssumption, BitRange

LEMMA Times ==
  ASSUME NEW m \in Nat \ {0}, NEW n \in Nat \ {0} PROVE m * n \in Nat \ {0}
BY SMT

(* A digit more.                                                            *)
LEMMA Digit ==
  ASSUME NEW M \in Nat \ {0}, NEW B \in Nat \ {0}, NEW q \in 0 .. M - 1, NEW r \in 0 .. B - 1
  PROVE  q * B + r \in 0 .. B * M - 1
<1>1. (M - 1 - q) * B >= 0
  <2>1. M - 1 - q \in Nat
    OBVIOUS
  <2> QED BY <2>1, SMT
<1>2. (M - 1 - q) * B = B * M - B - q * B
  BY SMT
<1>3. q * B \in Nat /\ B * M \in Int
  BY SMT
<1> QED BY <1>1, <1>2, <1>3, SMT

(* Dividing twice is dividing by the product.                               *)
LEMMA DivDiv ==
  ASSUME NEW v \in Nat, NEW M \in Nat \ {0}, NEW N \in Nat \ {0}
  PROVE  v \div (M * N) = (v \div M) \div N
<1> DEFINE q == v \div M
           r == v % M
           p == q \div N
           s == q % N
<1>1. q \in Nat /\ r \in 0 .. M - 1 /\ v = q * M + r
  BY JoinWord
<1>2. p \in Nat /\ s \in 0 .. N - 1 /\ q = p * N + s
  BY <1>1, JoinWord
<1> HIDE DEF q, r, p, s
<1>3. s * M + r \in 0 .. M * N - 1
  BY <1>1, <1>2, Digit
<1>4. v = p * (M * N) + (s * M + r)
  <2>1. v = (p * N + s) * M + r
    BY <1>1, <1>2
  <2>2. (p * N + s) * M = p * (M * N) + s * M
    BY <1>2, SMT
  <2>3. p * (M * N) \in Int /\ s * M \in Int /\ r \in Int
    BY <1>1, <1>2, SMT
  <2> QED BY <2>1, <2>2, <2>3, SMT
<1>5. M * N \in Nat \ {0}
  BY Times
<1>6. (p * (M * N) + (s * M + r)) \div (M * N) = p
  BY <1>2, <1>3, <1>5, SplitWord
<1>7. v \div (M * N) = p
  BY <1>4, <1>6
<1> QED BY <1>7 DEF p, q

-----------------------------------------------------------------------------
(* Bytes and words.                                                         *)

(* Four digits are the word decodeFromLittleEndianBuffer makes of them.     *)
LEMMA DecodeWord ==
  ASSUME NEW b \in [1 .. WORD_SIZE -> Byte]
  PROVE  /\ decodeFromLittleEndianBuffer(b, 0) \in Word
         /\ decodeFromLittleEndianBuffer(b, 0)
              = b[1] + ByteRange * (b[2] + ByteRange * (b[3] + ByteRange * b[4]))
<1> DEFINE B == ByteRange
           u == b[4] * B + b[3]
           v == u * B + b[2]
           w == v * B + b[1]
<1>0. B \in Nat \ {0} /\ B * B \in Nat \ {0} /\ B * (B * B) \in Nat \ {0}
  BY Ranges, Times
<1>b. /\ b[1] \in 0 .. B - 1 /\ b[2] \in 0 .. B - 1
      /\ b[3] \in 0 .. B - 1 /\ b[4] \in 0 .. B - 1
  BY DEF WORD_SIZE, Byte
<1>d. decodeFromLittleEndianBuffer(b, 0) = w
  BY DEF decodeFromLittleEndianBuffer
<1> HIDE DEF B
<1>1. u \in 0 .. B * B - 1
  BY <1>0, <1>b, Digit
<1>2. v \in 0 .. B * (B * B) - 1
  <2> HIDE DEF u
  <2> QED BY <1>0, <1>b, <1>1, Digit
<1>3. w \in 0 .. B * (B * (B * B)) - 1
  <2> HIDE DEF v
  <2> QED BY <1>0, <1>b, <1>2, Digit
<1>4. w \in Word
  BY <1>3, Ranges DEF Word, B
<1>5. w = b[1] + B * (b[2] + B * (b[3] + B * b[4]))
  <2>1. ASSUME NEW b1 \in Int, NEW b2 \in Int, NEW b3 \in Int, NEW b4 \in Int, NEW n \in Int
        PROVE  ((b4 * n + b3) * n + b2) * n + b1 = b1 + n * (b2 + n * (b3 + n * b4))
    BY SMT
  <2>2. b[1] \in Int /\ b[2] \in Int /\ b[3] \in Int /\ b[4] \in Int /\ B \in Int
    BY <1>b, <1>0
  <2> QED BY <2>1, <2>2
<1> QED BY <1>d, <1>4, <1>5 DEF B

(* The bytes encodeToLittleEndianBuffer stores are the digits of the word.  *)
LEMMA EncodeWord ==
  ASSUME NEW v \in Nat, NEW b \in [1 .. WORD_SIZE -> Byte]
  PROVE  LET e == encodeToLittleEndianBuffer(v, b, 0)
             B == ByteRange
         IN /\ e \in [1 .. WORD_SIZE -> Byte]
            /\ e[1] = v % B
            /\ e[2] = (v \div B) % B
            /\ e[3] = ((v \div B) \div B) % B
            /\ e[4] = (((v \div B) \div B) \div B) % B
<1> DEFINE B == ByteRange
           e == encodeToLittleEndianBuffer(v, b, 0)
<1>0. B \in Nat \ {0} /\ B * B \in Nat \ {0}
  BY Ranges, Times
<1>1. v \div (B * B) = (v \div B) \div B
  BY <1>0, DivDiv
<1>2. v \div (B * (B * B)) = ((v \div B) \div B) \div B
  <2>1. v \div B \in Nat
    BY <1>0, JoinWord
  <2>2. v \div (B * (B * B)) = (v \div B) \div (B * B)
    BY <1>0, DivDiv
  <2>3. (v \div B) \div (B * B) = ((v \div B) \div B) \div B
    BY <1>0, <2>1, DivDiv
  <2> QED BY <2>2, <2>3
<1>3. /\ v \div B \in Nat /\ (v \div B) \div B \in Nat
      /\ ((v \div B) \div B) \div B \in Nat
  <2>1. v \div B \in Nat
    BY <1>0, JoinWord
  <2>2. (v \div B) \div B \in Nat
    BY <1>0, <2>1, JoinWord
  <2>3. ((v \div B) \div B) \div B \in Nat
    BY <1>0, <2>2, JoinWord
  <2> QED BY <2>1, <2>2, <2>3
<1>4. \A n \in Nat : n % B \in 0 .. B - 1
  BY <1>0, JoinWord
<1>5. /\ DOMAIN b = 1 .. 4
      /\ e = [b EXCEPT ![4] = (v \div (B * (B * B))) % B, ![3] = (v \div (B * B)) % B,
                       ![2] = (v \div B) % B, ![1] = v % B]
  <2>1. 0 + 4 = 4 /\ 0 + 3 = 3 /\ 0 + 2 = 2 /\ 0 + 1 = 1
    OBVIOUS
  <2> QED BY <2>1 DEF encodeToLittleEndianBuffer, WORD_SIZE
<1>6. \A n \in Nat : n % B \in Byte
  BY <1>4 DEF Byte
<1> HIDE DEF B
<1>7. /\ e[1] = v % B
      /\ e[2] = (v \div B) % B
      /\ e[3] = (v \div (B * B)) % B
      /\ e[4] = (v \div (B * (B * B))) % B
  <2> DEFINE f(i1, i2, i3, i4) == [b EXCEPT ![4] = i4, ![3] = i3, ![2] = i2, ![1] = i1]
  <2>1. ASSUME NEW i1, NEW i2, NEW i3, NEW i4
        PROVE  /\ f(i1, i2, i3, i4)[1] = i1 /\ f(i1, i2, i3, i4)[2] = i2
               /\ f(i1, i2, i3, i4)[3] = i3 /\ f(i1, i2, i3, i4)[4] = i4
    <3>1. 1 \in DOMAIN b /\ 2 \in DOMAIN b /\ 3 \in DOMAIN b /\ 4 \in DOMAIN b
      BY <1>5
    <3> HIDE DEF e
    <3> QED BY <3>1, SMT
  <2>2. e = f(v % B, (v \div B) % B, (v \div (B * B)) % B, (v \div (B * (B * B))) % B)
    BY <1>5
  <2> HIDE DEF f, e
  <2> QED BY <2>1, <2>2
<1>8. e[1] \in Byte /\ e[2] \in Byte /\ e[3] \in Byte /\ e[4] \in Byte
  BY <1>1, <1>2, <1>3, <1>6, <1>7
<1>9. e \in [1 .. WORD_SIZE -> Byte]
  <2> HIDE DEF e
  <2>1. DOMAIN e = 1 .. 4 /\ e = [k \in 1 .. 4 |-> e[k]]
    BY <1>5
  <2>2. \A k \in 1 .. 4 : k = 1 \/ k = 2 \/ k = 3 \/ k = 4
    OBVIOUS
  <2>3. \A k \in 1 .. 4 : e[k] \in Byte
    BY <1>8, <2>2
  <2> QED BY <2>1, <2>3 DEF WORD_SIZE
<1> QED BY <1>1, <1>2, <1>7, <1>9 DEF B

(* Decoding what was encoded gives the word back, and the other way round.  *)
LEMMA WordThroughBytes ==
  ASSUME NEW v \in Word, NEW b \in [1 .. WORD_SIZE -> Byte]
  PROVE  decodeFromLittleEndianBuffer(encodeToLittleEndianBuffer(v, b, 0), 0) = v
<1> DEFINE B == ByteRange
           e == encodeToLittleEndianBuffer(v, b, 0)
           x == v \div B
           y == x \div B
           z == y \div B
<1>0. B \in Nat \ {0} /\ B * B \in Nat \ {0} /\ B * (B * B) \in Nat \ {0}
  BY Ranges, Times
<1>v. v \in Nat /\ v \in 0 .. B * (B * (B * B)) - 1
  BY Ranges, <1>0 DEF Word
<1>e. e[1] = v % B /\ e[2] = x % B /\ e[3] = y % B /\ e[4] = z % B
  BY <1>v, EncodeWord
<1>x. x \in Nat /\ v % B \in 0 .. B - 1 /\ v = x * B + (v % B)
  BY <1>0, <1>v, JoinWord
<1>y. y \in Nat /\ x % B \in 0 .. B - 1 /\ x = y * B + (x % B)
  BY <1>0, <1>x, JoinWord
<1>z. z \in Nat /\ y % B \in 0 .. B - 1 /\ y = z * B + (y % B)
  BY <1>0, <1>y, JoinWord
<1>d. decodeFromLittleEndianBuffer(e, 0) = ((e[4] * B + e[3]) * B + e[2]) * B + e[1]
  BY DEF decodeFromLittleEndianBuffer
<1>q. ASSUME NEW M \in Nat \ {0}, NEW n \in 0 .. B * M - 1 PROVE n \div B \in 0 .. M - 1
  BY <1>0, SMT
<1>1. x \in 0 .. B * (B * B) - 1
  BY <1>0, <1>v, <1>q
<1> HIDE DEF x
<1>2. y \in 0 .. B * B - 1
  BY <1>0, <1>1, <1>q
<1> HIDE DEF y
<1>3. z \in 0 .. B - 1
  BY <1>0, <1>2, <1>q
<1>4. z % B = z
  <2> HIDE DEF z, B
  <2> QED BY <1>0, <1>3, SMT
<1> QED BY <1>d, <1>e, <1>4, <1>x, <1>y, <1>z

LEMMA BytesThroughWord ==
  ASSUME NEW b \in [1 .. WORD_SIZE -> Byte]
  PROVE  encodeToLittleEndianBuffer(decodeFromLittleEndianBuffer(b, 0), b, 0) = b
<1> DEFINE B == ByteRange
           u == b[4] * B + b[3]
           v == u * B + b[2]
           w == v * B + b[1]
           e == encodeToLittleEndianBuffer(w, b, 0)
<1>0. B \in Nat \ {0}
  BY Ranges
<1>b. /\ b[1] \in 0 .. B - 1 /\ b[2] \in 0 .. B - 1
      /\ b[3] \in 0 .. B - 1 /\ b[4] \in 0 .. B - 1 /\ b[4] \in Nat
  BY <1>0 DEF WORD_SIZE, Byte
<1>d. decodeFromLittleEndianBuffer(b, 0) = w
  BY DEF decodeFromLittleEndianBuffer
<1>n. u \in Nat /\ v \in Nat /\ w \in Nat
  <2>1. \A q \in Nat, r \in 0 .. B - 1 : q * B + r \in Nat
    BY <1>0, SMT
  <2>2. u \in Nat
    BY <2>1, <1>b
  <2>3. v \in Nat
    BY <2>1, <2>2, <1>b
  <2> QED BY <2>1, <2>2, <2>3, <1>b
<1>u. u % B = b[3] /\ u \div B = b[4]
  BY <1>0, <1>b, SplitWord
<1>v. v % B = b[2] /\ v \div B = u
  <2> HIDE DEF u
  <2> QED BY <1>0, <1>b, <1>n, SplitWord
<1>w. w % B = b[1] /\ w \div B = v
  <2> HIDE DEF v
  <2> QED BY <1>0, <1>b, <1>n, SplitWord
<1>4. b[4] % B = b[4]
  <2> HIDE DEF B
  <2>1. \A n \in 0 .. B - 1 : n % B = n
    BY <1>0, SMT
  <2> QED BY <1>b, <2>1
<1>e. /\ e \in [1 .. WORD_SIZE -> Byte]
      /\ e[1] = w % B /\ e[2] = (w \div B) % B
      /\ e[3] = ((w \div B) \div B) % B /\ e[4] = (((w \div B) \div B) \div B) % B
  <2> HIDE DEF w
  <2> QED BY <1>n, EncodeWord
<1> HIDE DEF u, v, w, e
<1>1. e[1] = b[1] /\ e[2] = b[2] /\ e[3] = b[3] /\ e[4] = b[4]
  BY <1>u, <1>v, <1>w, <1>4, <1>e
<1>2. \A k \in 1 .. 4 : k = 1 \/ k = 2 \/ k = 3 \/ k = 4
  OBVIOUS
<1>3. \A k \in 1 .. WORD_SIZE : e[k] = b[k]
  BY <1>1, <1>2 DEF WORD_SIZE
<1>5. e = b
  <2>1. /\ e = [k \in 1 .. WORD_SIZE |-> e[k]]
        /\ b = [k \in 1 .. WORD_SIZE |-> b[k]]
    BY <1>e
  <2> QED BY <1>3, <2>1
<1> QED BY <1>5, <1>d DEF e

-----------------------------------------------------------------------------
(* Headers and words.                                                       *)

(* A step of toUint32 makes a longer word of a shorter one.                 *)
LEMMA WriteGrows ==
  ASSUME NEW M \in Nat \ {0}, NEW R \in Nat \ {0}, NEW d \in 0 .. M - 1, NEW x \in Nat
  PROVE  writeBits(d, x, R) \in 0 .. R * M - 1
<1>1. x % R \in 0 .. R - 1
  BY JoinWord
<1> QED BY <1>1, Digit DEF writeBits

(* Any header the object may hold fits the word, code included: writeBits   *)
(* cuts it.                                                                 *)
LEMMA EncodedIsWord == ASSUME NEW h \in WideHeader PROVE toUint32(h) \in Word
<1> DEFINE client == writeBits(0, h.client, ClientRange)
           id     == writeBits(client, h.id, IdRange)
           res1   == writeBits(id, h.res1, BitRange)
           length == writeBits(res1, h.length, LengthRange)
           res2   == writeBits(length, h.res2, BitRange)
           code   == writeBits(res2, h.code, CodeRange)
           W2 == IdRange * ClientRange
           W3 == BitRange * W2
           W4 == LengthRange * W3
           W5 == BitRange * W4
<1>0. /\ W2 \in Nat \ {0} /\ W3 \in Nat \ {0} /\ W4 \in Nat \ {0} /\ W5 \in Nat \ {0}
  BY Ranges, Times
<1>h. /\ h.client \in Nat /\ h.id \in Nat /\ h.res1 \in Nat
      /\ h.length \in Nat /\ h.res2 \in Nat /\ h.code \in Nat
  BY DEF WideHeader
<1>e. toUint32(h) = code
  BY DEF toUint32
<1>1. client \in 0 .. ClientRange - 1
  <2>1. h.client % ClientRange \in 0 .. ClientRange - 1
    BY Ranges, <1>h, JoinWord
  <2>2. \A n \in 0 .. ClientRange - 1 : 0 * ClientRange + n = n
    BY Ranges, SMT
  <2> QED BY <2>1, <2>2 DEF writeBits
<1> HIDE DEF client, W2, W3, W4, W5
<1>2. id \in 0 .. W2 - 1
  BY <1>1, <1>h, Ranges, WriteGrows DEF W2
<1> HIDE DEF id
<1>3. res1 \in 0 .. W3 - 1
  BY <1>0, <1>2, <1>h, Ranges, WriteGrows DEF W3
<1> HIDE DEF res1
<1>4. length \in 0 .. W4 - 1
  BY <1>0, <1>3, <1>h, Ranges, WriteGrows DEF W4
<1> HIDE DEF length
<1>5. res2 \in 0 .. W5 - 1
  BY <1>0, <1>4, <1>h, Ranges, WriteGrows DEF W5
<1> HIDE DEF res2
<1>6. code \in 0 .. CodeRange * W5 - 1
  BY <1>0, <1>5, <1>h, Ranges, WriteGrows
<1>7. WordRange = CodeRange * W5
  BY DEF WordRange, W2, W3, W4, W5
<1> QED BY <1>e, <1>6, <1>7 DEF Word

(* Parsing an encoded header gives it back, but for the bits of code that   *)
(* do not fit.                                                              *)
LEMMA ParseEncodedWide ==
  ASSUME NEW h \in WideHeader
  PROVE  fromUint32(toUint32(h)) = [h EXCEPT !.code = @ % CodeRange]
<1> DEFINE n == [h EXCEPT !.code = @ % CodeRange]
<1>1. h.code % CodeRange \in 0 .. CodeRange - 1
      /\ (h.code % CodeRange) % CodeRange = h.code % CodeRange
  <2>1. h.code \in Nat
    BY DEF WideHeader
  <2>2. \A k \in 0 .. CodeRange - 1 : k % CodeRange = k
    BY Ranges, SMT
  <2>3. h.code % CodeRange \in 0 .. CodeRange - 1
    BY Ranges, <2>1, JoinWord
  <2> QED BY <2>2, <2>3
<1>2. n = [client |-> h.client, id |-> h.id, res1 |-> h.res1, length |-> h.length,
           res2 |-> h.res2, code |-> h.code % CodeRange]
  BY DEF WideHeader
<1>3. n \in Header
  <2>1. /\ h.client \in 0 .. ClientRange - 1 /\ h.id \in 0 .. IdRange - 1
        /\ h.res1 \in 0 .. BitRange - 1 /\ h.length \in 0 .. LengthRange - 1
        /\ h.res2 \in 0 .. BitRange - 1
    BY Ranges DEF WideHeader
  <2> QED BY <1>1, <1>2, <2>1 DEF Header
<1>4. toUint32(n) = toUint32(h)
  <2>1. writeBits(0, n.client, ClientRange) = writeBits(0, h.client, ClientRange)
    BY <1>2
  <2>2. \A d : writeBits(d, n.code, CodeRange) = writeBits(d, h.code, CodeRange)
    BY <1>1, <1>2 DEF writeBits
  <2>3. /\ n.client = h.client /\ n.id = h.id /\ n.res1 = h.res1
        /\ n.length = h.length /\ n.res2 = h.res2
    BY <1>2
  <2> HIDE DEF n
  <2> QED BY <2>2, <2>3 DEF toUint32
<1> HIDE DEF n
<1>5. fromUint32(toUint32(n)) = n
  BY <1>3, ParseEncoded
<1>6. fromUint32(toUint32(h)) = n
  BY <1>4, <1>5
<1> QED BY <1>6 DEF n

(* The fields of a word are where the layout puts them.                     *)
LEMMA FieldsByLayout ==
  ASSUME NEW w \in Nat
  PROVE  /\ fromUint32(w).code = (w \div 1) % CodeRange
         /\ fromUint32(w).res2 = (w \div CodeRange) % BitRange
         /\ fromUint32(w).length = (w \div (CodeRange * BitRange)) % LengthRange
         /\ fromUint32(w).res1 = (w \div (CodeRange * BitRange * LengthRange)) % BitRange
         /\ fromUint32(w).id = (w \div (CodeRange * BitRange * LengthRange * BitRange)) % IdRange
         /\ fromUint32(w).client
              = (w \div (CodeRange * BitRange * LengthRange * BitRange * IdRange)) % ClientRange
<1> DEFINE s1 == w \div CodeRange
           s2 == s1 \div BitRange
           s3 == s2 \div LengthRange
           s4 == s3 \div BitRange
           s5 == s4 \div IdRange
           M2 == CodeRange * BitRange
           M3 == M2 * LengthRange
           M4 == M3 * BitRange
           M5 == M4 * IdRange
<1>1. fromUint32(w) = [client |-> s5 % ClientRange, id |-> s4 % IdRange, res1 |-> s3 % BitRange,
                       length |-> s2 % LengthRange, res2 |-> s1 % BitRange, code |-> w % CodeRange]
  BY DEF fromUint32, readBits
<1>0. /\ M2 \in Nat \ {0} /\ M3 \in Nat \ {0} /\ M4 \in Nat \ {0} /\ M5 \in Nat \ {0}
  BY Ranges, Times
<1>2. s2 = w \div M2
  BY Ranges, DivDiv
<1> HIDE DEF s2, M2
<1>3. s3 = w \div M3
  <2>1. w \div (M2 * LengthRange) = (w \div M2) \div LengthRange
    BY <1>0, Ranges, DivDiv
  <2> QED BY <1>2, <2>1
<1> HIDE DEF s3, M3
<1>4. s4 = w \div M4
  <2>1. M3 \in Nat \ {0} /\ BitRange \in Nat \ {0}
    BY <1>0, Ranges
  <2>2. w \div (M3 * BitRange) = (w \div M3) \div BitRange
    BY <2>1, DivDiv
  <2> QED BY <1>3, <2>2
<1> HIDE DEF s4, M4
<1>5. s5 = w \div M5
  <2>1. w \div (M4 * IdRange) = (w \div M4) \div IdRange
    BY <1>0, Ranges, DivDiv
  <2> QED BY <1>4, <2>1
<1> HIDE DEF s5, M5
<1>6. w \div 1 = w
  BY SMT
<1> USE DEF M2, M3, M4, M5
<1>7. /\ fromUint32(w).code = w % CodeRange
      /\ fromUint32(w).res2 = s1 % BitRange
      /\ fromUint32(w).length = s2 % LengthRange
      /\ fromUint32(w).res1 = s3 % BitRange
      /\ fromUint32(w).id = s4 % IdRange
      /\ fromUint32(w).client = s5 % ClientRange
  BY <1>1
<1> QED BY <1>2, <1>3, <1>4, <1>5, <1>6, <1>7

-----------------------------------------------------------------------------
(* The specification.                                                       *)

(* Both conversions keep their types, for any field ranges (CommandHeader): *)
(* parsing gives fields in range, encoding gives bytes.                     *)
THEOREM CodecTypeCorrect == CodecSpec => []CodecTypeOK
<1>1. CodecInit => CodecTypeOK
  BY Ranges DEF CodecInit, CodecTypeOK, WideHeader, EmptyHeader, Byte, WORD_SIZE
<1>2. CodecTypeOK /\ [CodecNext]_codecVars => CodecTypeOK'
  <2> SUFFICES ASSUME CodecTypeOK, [CodecNext]_codecVars PROVE CodecTypeOK'
    OBVIOUS
  <2> USE DEF CodecTypeOK
  <2>1. CASE Receive
    BY <2>1 DEF Receive
  <2>2. CASE Parse
    <3>1. decodeFromLittleEndianBuffer(buffer, 0) \in Word
      BY DecodeWord
    <3>2. parse(buffer) \in Header
      BY <3>1, EncodeParsed DEF parse
    <3>3. Header \subseteq WideHeader
      BY Ranges DEF Header, WideHeader
    <3> QED BY <2>2, <3>2, <3>3 DEF Parse
  <2>3. CASE FillReply
    <3>1. PICK length \in 0 .. LengthRange - 1, code \in 0 .. MaxCode :
            header' = [header EXCEPT !.res1 = 0, !.res2 = 0, !.length = length, !.code = code]
      BY <2>3 DEF FillReply
    <3>2. header' = [client |-> header.client, id |-> header.id, res1 |-> 0,
                     length |-> length, res2 |-> 0, code |-> code]
      BY <3>1 DEF WideHeader
    <3>3. /\ header.client \in 0 .. ClientRange - 1 /\ header.id \in 0 .. IdRange - 1
          /\ 0 \in 0 .. 1
      BY DEF WideHeader
    <3>4. header' \in WideHeader
      BY <3>2, <3>3 DEF WideHeader
    <3> QED BY <2>3, <3>4 DEF FillReply
  <2>4. CASE Encode
    <3>1. toUint32(header) \in Nat
      BY EncodedIsWord, Ranges DEF Word
    <3>2. encode(header, buffer) \in [1 .. WORD_SIZE -> Byte]
      BY <3>1, EncodeWord DEF encode
    <3> QED BY <2>4, <3>2 DEF Encode
  <2>5. CASE UNCHANGED codecVars
    BY <2>5 DEF codecVars
  <2> QED BY <2>1, <2>2, <2>3, <2>4, <2>5 DEF CodecNext
<1> QED BY <1>1, <1>2, PTL DEF CodecSpec

(* CommandHeader::parse reads every field at its place in the word.         *)
THEOREM LayoutCorrect == CodecSpec => []ParsedByLayout
<1>1. CodecTypeOK => ParsedByLayout
  <2> SUFFICES ASSUME CodecTypeOK PROVE ParsedByLayout
    OBVIOUS
  <2> DEFINE w == buffer[1]
                    + ByteRange * (buffer[2] + ByteRange * (buffer[3] + ByteRange * buffer[4]))
  <2>1. w \in Nat /\ parse(buffer) = fromUint32(w)
    <3>1. /\ decodeFromLittleEndianBuffer(buffer, 0) \in Word
          /\ decodeFromLittleEndianBuffer(buffer, 0) = w
      BY DecodeWord DEF CodecTypeOK
    <3>2. Word \subseteq Nat
      BY DEF Word
    <3> HIDE DEF w
    <3> QED BY <3>1, <3>2 DEF parse
  <2> HIDE DEF w
  <2>2. \A f \in DOMAIN Layout : fromUint32(w)[f] = (w \div Layout[f][1]) % Layout[f][2]
    BY <2>1, FieldsByLayout DEF Layout
  <2> QED BY <2>1, <2>2 DEF ParsedByLayout, w
<1> QED BY <1>1, CodecTypeCorrect, PTL

(* Parse and encode are inverse on whatever the object and the buffer hold: *)
(* no bit of a request's header is lost, and a reply's header is read as it *)
(* was filled in, up to the bits of its code that do not fit.               *)
THEOREM InverseCorrect == CodecSpec => []EncodeInverts
<1>1. CodecTypeOK => EncodeInverts
  <2> SUFFICES ASSUME CodecTypeOK PROVE EncodeInverts
    OBVIOUS
  <2>1. toUint32(header) \in Word
    BY EncodedIsWord DEF CodecTypeOK
  <2>2. parse(encode(header, buffer)) = fromUint32(toUint32(header))
    BY <2>1, WordThroughBytes DEF CodecTypeOK, parse, encode
  <2>3. parse(encode(header, buffer)) = [header EXCEPT !.code = @ % CodeRange]
    BY <2>2, ParseEncodedWide DEF CodecTypeOK
  <2>4. decodeFromLittleEndianBuffer(buffer, 0) \in Word
    BY DecodeWord DEF CodecTypeOK
  <2>5. toUint32(parse(buffer)) = decodeFromLittleEndianBuffer(buffer, 0)
    BY <2>4, EncodeParsed DEF parse
  <2>6. encode(parse(buffer), buffer) = buffer
    BY <2>5, BytesThroughWord DEF CodecTypeOK, encode
  <2> QED BY <2>3, <2>6 DEF EncodeInverts
<1> QED BY <1>1, CodecTypeCorrect, PTL

=============================================================================
