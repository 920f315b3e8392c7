--------------------------- MODULE CommandHeader ---------------------------
(***************************************************************************)
(* The command header: one 32-bit word in front of every request and every *)
(* reply (FCSFilter/src/CommandHeader.{h,cpp}).  From the least            *)
(* significant bit it holds                                                *)
(*                                                                         *)
(*     code (11) | res2 (1) | length (11) | res1 (1) | id (4) | client (4) *)
(*                                                                         *)
(* A field of n bits is a number below its range 2^n.  The four ranges are *)
(* parameters: 16, 16, 2^11 and 2^11 in the code, smaller ones where TLC   *)
(* enumerates every word.                                                  *)
(***************************************************************************)
EXTENDS Integers

CONSTANTS
  ClientRange,   \* 2^4
  IdRange,       \* 2^4
  LengthRange,   \* 2^11
  CodeRange      \* 2^11

ASSUME HeaderAssumption ==
  /\ ClientRange \in Nat \ {0}
  /\ IdRange \in Nat \ {0}
  /\ LengthRange \in Nat \ {0}
  /\ CodeRange \in Nat \ {0}

BitRange == 2

Header ==
  [client : 0 .. ClientRange - 1,
   id     : 0 .. IdRange - 1,
   res1   : 0 .. BitRange - 1,
   length : 0 .. LengthRange - 1,
   res2   : 0 .. BitRange - 1,
   code   : 0 .. CodeRange - 1]

\* The fields of an object on which parse() has not run.
EmptyHeader ==
  [client |-> 0, id |-> 0, res1 |-> 0, length |-> 0, res2 |-> 0, code |-> 0]

\* One more than the largest word: 2^32 with the ranges of the code.
WordRange ==
  CodeRange * (BitRange * (LengthRange * (BitRange * (IdRange * ClientRange))))

Word == 0 .. WordRange - 1

-----------------------------------------------------------------------------
\* Fault: the mask is one too large.
readBitsWide(source, range) ==
  [result |-> source % (range + 1), source |-> source \div range]

\* Masking the low bits and shifting them out of the source.
readBits(source, range) == [result |-> source % range, source |-> source \div range]

\* Fault: the source is not masked.
writeBitsUnmasked(destination, source, range) == destination * range + source

\* Shifting the destination left and storing the low bits of the source.
writeBits(destination, source, range) == destination * range + (source % range)

fromUint32(input) ==
  LET code   == readBits(input, CodeRange)
      res2   == readBits(code.source, BitRange)
      length == readBits(res2.source, LengthRange)
      res1   == readBits(length.source, BitRange)
      id     == readBits(res1.source, IdRange)
      client == readBits(id.source, ClientRange)
  IN [client |-> client.result, id |-> id.result, res1 |-> res1.result,
      length |-> length.result, res2 |-> res2.result, code |-> code.result]

\* The accumulator of toUint32 after each field, starting from zero.
toUint32(h) ==
  LET client == writeBits(0, h.client, ClientRange)
      id     == writeBits(client, h.id, IdRange)
      res1   == writeBits(id, h.res1, BitRange)
      length == writeBits(res1, h.length, LengthRange)
      res2   == writeBits(length, h.res2, BitRange)
  IN writeBits(res2, h.code, CodeRange)

=============================================================================
