------------------------ MODULE CommandHeaderProofs ------------------------
(***************************************************************************)
(* Packing and unpacking the header word, for any field ranges: the        *)
(* general form of what HeaderCodec checks on words of eight bits.         *)
(***************************************************************************)
EXTENDS CommandHeader, TLAPS

(* Division recovers both parts of a number written in base M.              *)
LEMMA SplitWord ==
  ASSUME NEW q \in Nat, NEW M \in Nat \ {0}, NEW r \in 0 .. M - 1
  PROVE  /\ (q * M + r) % M = r
         /\ (q * M + r) \div M = q
  BY SMT

LEMMA JoinWord ==
  ASSUME NEW n \in Nat, NEW M \in Nat \ {0}
  PROVE  /\ n % M \in 0 .. M - 1
         /\ n \div M \in Nat
         /\ n = (n \div M) * M + (n % M)
  BY SMT

(* writeBits followed by readBits with the same range gives the source back *)
(* and the destination unchanged.                                           *)
LEMMA WriteRead ==
  ASSUME NEW d \in Nat, NEW M \in Nat \ {0}, NEW x \in 0 .. M - 1
  PROVE  /\ writeBits(d, x, M) \in Nat
         /\ readBits(writeBits(d, x, M), M) = [result |-> x, source |-> d]
<1>1. x % M = x
  BY SMT
<1>2. writeBits(d, x, M) = d * M + x /\ d * M + x \in Nat
  BY <1>1 DEF writeBits
<1>3. (d * M + x) % M = x /\ (d * M + x) \div M = d
  BY SplitWord
<1> QED BY <1>2, <1>3 DEF readBits

(* And the other way round.                                                 *)
LEMMA ReadWrite ==
  ASSUME NEW n \in Nat, NEW M \in Nat \ {0}
  PROVE  /\ readBits(n, M).result \in 0 .. M - 1
         /\ readBits(n, M).source \in Nat
         /\ readBits(n, M).source = n \div M
         /\ writeBits(readBits(n, M).source, readBits(n, M).result, M) = n
<1>1. /\ n % M \in 0 .. M - 1 /\ n \div M \in Nat
      /\ n = (n \div M) * M + (n % M)
  BY JoinWord
<1>2. (n % M) % M = n % M
  BY <1>1, SMT
<1> QED BY <1>1, <1>2 DEF readBits, writeBits

LEMMA EncodedIsNat == \A h \in Header : toUint32(h) \in Nat
<1> SUFFICES ASSUME NEW h \in Header PROVE toUint32(h) \in Nat
  OBVIOUS
<1>1. /\ ClientRange \in Nat \ {0} /\ IdRange \in Nat \ {0} /\ LengthRange \in Nat \ {0}
      /\ CodeRange \in Nat \ {0} /\ BitRange \in Nat \ {0} /\ 0 \in Nat
  BY HeaderAssumption DEF HeaderAssumption, BitRange
<1>2. /\ h.client \in 0 .. ClientRange - 1 /\ h.id \in 0 .. IdRange - 1
      /\ h.res1 \in 0 .. BitRange - 1 /\ h.length \in 0 .. LengthRange - 1
      /\ h.res2 \in 0 .. BitRange - 1 /\ h.code \in 0 .. CodeRange - 1
  BY DEF Header
<1>3. QED
  BY <1>1, <1>2, WriteRead DEF toUint32

(* Encoding a header and parsing the word gives the same header             *)
(* (CommandHeader::toUint32, fromUint32).                                   *)
THEOREM ParseEncoded == \A h \in Header : fromUint32(toUint32(h)) = h
<1> SUFFICES ASSUME NEW h \in Header PROVE fromUint32(toUint32(h)) = h
  OBVIOUS
<1> DEFINE client == writeBits(0, h.client, ClientRange)
           id     == writeBits(client, h.id, IdRange)
           res1   == writeBits(id, h.res1, BitRange)
           length == writeBits(res1, h.length, LengthRange)
           res2   == writeBits(length, h.res2, BitRange)
           code   == writeBits(res2, h.code, CodeRange)
<1>0. /\ ClientRange \in Nat \ {0} /\ IdRange \in Nat \ {0} /\ LengthRange \in Nat \ {0}
      /\ CodeRange \in Nat \ {0} /\ BitRange \in Nat \ {0} /\ 0 \in Nat
  BY HeaderAssumption DEF HeaderAssumption, BitRange
<1>h. /\ h.client \in 0 .. ClientRange - 1 /\ h.id \in 0 .. IdRange - 1
      /\ h.res1 \in 0 .. BitRange - 1 /\ h.length \in 0 .. LengthRange - 1
      /\ h.res2 \in 0 .. BitRange - 1 /\ h.code \in 0 .. CodeRange - 1
  BY DEF Header
<1>1. client \in Nat /\ readBits(client, ClientRange) = [result |-> h.client, source |-> 0]
  BY <1>0, <1>h, WriteRead
<1> HIDE DEF client
<1>2. id \in Nat /\ readBits(id, IdRange) = [result |-> h.id, source |-> client]
  BY <1>0, <1>h, <1>1, WriteRead
<1> HIDE DEF id
<1>3. res1 \in Nat /\ readBits(res1, BitRange) = [result |-> h.res1, source |-> id]
  BY <1>0, <1>h, <1>2, WriteRead
<1> HIDE DEF res1
<1>4. length \in Nat /\ readBits(length, LengthRange) = [result |-> h.length, source |-> res1]
  BY <1>0, <1>h, <1>3, WriteRead
<1> HIDE DEF length
<1>5. res2 \in Nat /\ readBits(res2, BitRange) = [result |-> h.res2, source |-> length]
  BY <1>0, <1>h, <1>4, WriteRead
<1> HIDE DEF res2
<1>6. readBits(code, CodeRange) = [result |-> h.code, source |-> res2]
  BY <1>0, <1>h, <1>5, WriteRead
<1> HIDE DEF code
<1>7. toUint32(h) = code
  BY DEF toUint32, client, id, res1, length, res2, code
<1>8. fromUint32(code) =
        [client |-> h.client, id |-> h.id, res1 |-> h.res1,
         length |-> h.length, res2 |-> h.res2, code |-> h.code]
  BY <1>1, <1>2, <1>3, <1>4, <1>5, <1>6 DEF fromUint32
<1> QED BY <1>7, <1>8 DEF Header

(* Parsing a word gives fields in their ranges, and encoding them gives the *)
(* same word: no bit of a request's header is lost.                         *)
THEOREM EncodeParsed ==
  \A w \in Word : fromUint32(w) \in Header /\ toUint32(fromUint32(w)) = w
<1> SUFFICES ASSUME NEW w \in Word
             PROVE  fromUint32(w) \in Header /\ toUint32(fromUint32(w)) = w
  OBVIOUS
<1> DEFINE code   == readBits(w, CodeRange)
           res2   == readBits(code.source, BitRange)
           length == readBits(res2.source, LengthRange)
           res1   == readBits(length.source, BitRange)
           id     == readBits(res1.source, IdRange)
           client == readBits(id.source, ClientRange)
<1>k. fromUint32(w) =
        [client |-> client.result, id |-> id.result, res1 |-> res1.result,
         length |-> length.result, res2 |-> res2.result, code |-> code.result]
  BY DEF fromUint32
<1>r. /\ code = readBits(w, CodeRange)
      /\ res2 = readBits(code.source, BitRange)
      /\ length = readBits(res2.source, LengthRange)
      /\ res1 = readBits(length.source, BitRange)
      /\ id = readBits(res1.source, IdRange)
      /\ client = readBits(id.source, ClientRange)
  OBVIOUS
<1> HIDE DEF code, res2, length, res1, id, client
<1>0. /\ ClientRange \in Nat \ {0} /\ IdRange \in Nat \ {0} /\ LengthRange \in Nat \ {0}
      /\ CodeRange \in Nat \ {0} /\ BitRange \in Nat \ {0}
  BY HeaderAssumption DEF HeaderAssumption, BitRange
<1> DEFINE W1 == ClientRange
           W2 == IdRange * W1
           W3 == BitRange * W2
           W4 == LengthRange * W3
           W5 == BitRange * W4
<1>1. /\ W1 \in Nat \ {0} /\ W2 \in Nat \ {0} /\ W3 \in Nat \ {0}
      /\ W4 \in Nat \ {0} /\ W5 \in Nat \ {0}
  <2>1. \A m, n \in Nat \ {0} : m * n \in Nat \ {0}
    BY SMT
  <2> QED BY <1>0, <2>1
<1>2. w \in 0 .. CodeRange * W5 - 1
  BY DEF Word, WordRange
<1> HIDE DEF W1, W2, W3, W4, W5
<1>c. /\ code.result \in 0 .. CodeRange - 1 /\ code.source \in 0 .. W5 - 1
      /\ writeBits(code.source, code.result, CodeRange) = w
  <2>1. w \in 0 .. CodeRange * W5 - 1
    BY <1>2
  <2>2. w \in Nat /\ w \div CodeRange \in 0 .. W5 - 1
    <3>1. ASSUME NEW n \in 0 .. CodeRange * W5 - 1 PROVE n \in Nat /\ n \div CodeRange \in 0 .. W5 - 1
      BY <1>0, <1>1, <3>1, SMT
    <3> QED BY <2>1, <3>1
  <2> QED BY <1>r, <1>0, <2>2, ReadWrite
<1>d. /\ res2.result \in 0 .. BitRange - 1 /\ res2.source \in 0 .. W4 - 1
      /\ writeBits(res2.source, res2.result, BitRange) = code.source
  <2>1. code.source \in 0 .. BitRange * W4 - 1
    BY <1>c DEF W5
  <2>2. code.source \in Nat /\ code.source \div BitRange \in 0 .. W4 - 1
    <3>1. ASSUME NEW n \in 0 .. BitRange * W4 - 1 PROVE n \in Nat /\ n \div BitRange \in 0 .. W4 - 1
      BY <1>0, <1>1, <3>1, SMT
    <3> QED BY <2>1, <3>1
  <2> QED BY <1>r, <1>0, <2>2, ReadWrite
<1>e. /\ length.result \in 0 .. LengthRange - 1 /\ length.source \in 0 .. W3 - 1
      /\ writeBits(length.source, length.result, LengthRange) = res2.source
  <2>1. res2.source \in 0 .. LengthRange * W3 - 1
    BY <1>d DEF W4
  <2>2. res2.source \in Nat /\ res2.source \div LengthRange \in 0 .. W3 - 1
    <3>1. ASSUME NEW n \in 0 .. LengthRange * W3 - 1 PROVE n \in Nat /\ n \div LengthRange \in 0 .. W3 - 1
      BY <1>0, <1>1, <3>1, SMT
    <3> QED BY <2>1, <3>1
  <2> QED BY <1>r, <1>0, <2>2, ReadWrite
<1>f. /\ res1.result \in 0 .. BitRange - 1 /\ res1.source \in 0 .. W2 - 1
      /\ writeBits(res1.source, res1.result, BitRange) = length.source
  <2>1. length.source \in 0 .. BitRange * W2 - 1
    BY <1>e DEF W3
  <2>2. length.source \in Nat /\ length.source \div BitRange \in 0 .. W2 - 1
    <3>1. ASSUME NEW n \in 0 .. BitRange * W2 - 1 PROVE n \in Nat /\ n \div BitRange \in 0 .. W2 - 1
      BY <1>0, <1>1, <3>1, SMT
    <3> QED BY <2>1, <3>1
  <2> QED BY <1>r, <1>0, <2>2, ReadWrite
<1>g. /\ id.result \in 0 .. IdRange - 1 /\ id.source \in 0 .. W1 - 1
      /\ writeBits(id.source, id.result, IdRange) = res1.source
  <2>1. res1.source \in 0 .. IdRange * W1 - 1
    BY <1>f DEF W2
  <2>2. res1.source \in Nat /\ res1.source \div IdRange \in 0 .. W1 - 1
    <3>1. ASSUME NEW n \in 0 .. IdRange * W1 - 1 PROVE n \in Nat /\ n \div IdRange \in 0 .. W1 - 1
      BY <1>0, <1>1, <3>1, SMT
    <3> QED BY <2>1, <3>1
  <2> QED BY <1>r, <1>0, <2>2, ReadWrite
<1>i. client.result = id.source /\ client.result \in 0 .. ClientRange - 1
  <2>1. \A n \in 0 .. ClientRange - 1 : n % ClientRange = n
    BY <1>0, SMT
  <2>2. id.source \in 0 .. ClientRange - 1
    BY <1>g DEF W1
  <2> QED BY <1>r, <2>1, <2>2 DEF readBits
<1>j. writeBits(0, client.result, ClientRange) = id.source
  <2>1. \A n \in 0 .. ClientRange - 1 : 0 * ClientRange + (n % ClientRange) = n
    BY <1>0, SMT
  <2> QED BY <1>g, <1>i, <2>1 DEF writeBits, W1
<1>l. fromUint32(w) \in Header
  BY <1>c, <1>d, <1>e, <1>f, <1>g, <1>i, <1>k DEF Header
<1>m. toUint32(fromUint32(w)) = w
  BY <1>c, <1>d, <1>e, <1>f, <1>g, <1>j, <1>k DEF toUint32
<1> QED BY <1>l, <1>m

=============================================================================
