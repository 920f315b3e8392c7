---------------------------- MODULE HeaderCodec ----------------------------
(***************************************************************************)
(* A CommandHeader object and the four bytes it is parsed from and encoded *)
(* into (CommandHeader::parse and encode, and the way                      *)
(* VerifierProtocol::prepareResponseMessage fills the header of a reply).  *)
(***************************************************************************)
EXTENDS CommandHeader, Utils

CONSTANT MaxCode   \* bound: return codes given to a reply, beyond what 11 bits hold

ASSUME CodecAssumption ==
  /\ MaxCode \in Nat /\ CodeRange - 1 <= MaxCode
  /\ WordRange = ByteRange * (ByteRange * (ByteRange * ByteRange))

VARIABLES
  buffer,   \* the first word of a message
  header    \* the object's fields

codecVars == <<buffer, header>>

\* Fields are wider than their place in the word: only code is ever given more.
WideHeader ==
  [client : 0 .. ClientRange - 1, id : 0 .. IdRange - 1, res1 : 0 .. 1,
   length : 0 .. LengthRange - 1, res2 : 0 .. 1, code : 0 .. MaxCode]

CodecTypeOK ==
  /\ buffer \in [1 .. WORD_SIZE -> Byte]
  /\ header \in WideHeader

parse(b) == fromUint32(decodeFromLittleEndianBuffer(b, 0))
encode(h, b) == encodeToLittleEndianBuffer(toUint32(h), b, 0)

CodecInit ==
  /\ buffer = [k \in 1 .. WORD_SIZE |-> 0]
  /\ header = EmptyHeader

Receive == buffer' \in [1 .. WORD_SIZE -> Byte] /\ UNCHANGED header

Parse == header' = parse(buffer) /\ UNCHANGED buffer

\* The reply's header: client and id of the request, any length and return code.
FillReply ==
  /\ \E length \in 0 .. LengthRange - 1, code \in 0 .. MaxCode :
       header' = [header EXCEPT !.res1 = 0, !.res2 = 0, !.length = length, !.code = code]
  /\ UNCHANGED buffer

Encode == buffer' = encode(header, buffer) /\ UNCHANGED header

CodecNext == Receive \/ Parse \/ FillReply \/ Encode

CodecSpec == CodecInit /\ [][CodecNext]_codecVars

-----------------------------------------------------------------------------
(* The fields by their places in the word, independently of the shifts:     *)
(* field f is ranges of smaller weight divided away, then its own range.    *)
Layout ==
  [code |-> <<1, CodeRange>>,
   res2 |-> <<CodeRange, BitRange>>,
   length |-> <<CodeRange * BitRange, LengthRange>>,
   res1 |-> <<CodeRange * BitRange * LengthRange, BitRange>>,
   id |-> <<CodeRange * BitRange * LengthRange * BitRange, IdRange>>,
   client |-> <<CodeRange * BitRange * LengthRange * BitRange * IdRange, ClientRange>>]

(* CommandHeaderUT parseTest: parsing reads every field at its place, the   *)
(* bytes taken least significant first, also where a field crosses a byte.  *)
ParsedByLayout ==
  LET word == buffer[1] + ByteRange * (buffer[2] + ByteRange * (buffer[3] + ByteRange * buffer[4]))
  IN \A f \in DOMAIN Layout : parse(buffer)[f] = (word \div Layout[f][1]) % Layout[f][2]

(* Whatever the buffer held before, encoding and parsing again gives the    *)
(* header back, up to the bits of code that do not fit; and parsing and     *)
(* encoding a received word changes none of its bits.                       *)
EncodeInverts ==
  /\ parse(encode(header, buffer)) = [header EXCEPT !.code = @ % CodeRange]
  /\ encode(parse(buffer), buffer) = buffer

=============================================================================
