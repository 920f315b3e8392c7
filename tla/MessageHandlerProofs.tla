------------------------ MODULE MessageHandlerProofs ------------------------
(***************************************************************************)
(* Proofs about MessageHandler, for every set of requests and every        *)
(* behaviour of the driver: no request makes the handler throw, the device *)
(* is always released and sees only well formed requests, and replies are  *)
(* well formed and truthful.                                               *)
(***************************************************************************)
EXTENDS MessageHandler, SequenceTheorems, TLAPS

\* Words of the message that parseMessage leaves out of the payload.
Skipped(m) ==
  IF m.header.code \in {sigmaTeardown, createAttestationSubKey, getMeasurement}
  THEN 1 ELSE 0

\* What a successful parse tells of the message and of the object.
Fits(m, p) ==
  /\ p.ok
  /\ p.header = m.header
  /\ m.size = getRequiredSize + WORD_SIZE * m.header.length
  /\ Len(m.body) = m.header.length
  /\ m.header.length >= Skipped(m)
  /\ p.payload.size = WORD_SIZE * (m.header.length - Skipped(m))
  /\ p.payload.words = SubSeq(m.body, Skipped(m) + 1, Len(m.body))
  /\ m.header.code = sigmaTeardown =>
       m.header.length = 3 /\ m.body[2] = SIGMA_TEARDOWN_MAGIC
  /\ m.header.code = getAttestationCertificate => m.header.length = 1
  /\ m.header.code \in {getChipId, getIdCode, getDeviceIdentity} => m.header.length = 0

(* The words behind the skipped ones, place by place.                       *)
LEMMA PassedWords ==
  ASSUME NEW s \in Seq(Nat), NEW k \in {0, 1}, Len(s) >= k
  PROVE  /\ SubSeq(s, k + 1, Len(s)) \in Seq(Nat)
         /\ SubSeq(s, k + 1, Len(s)) = [i \in 1 .. Len(s) - k |-> s[i + k]]
         /\ Len(SubSeq(s, k + 1, Len(s))) = Len(s) - k
<1>1. Len(s) \in Nat
  OBVIOUS
<1>2. SubSeq(s, k + 1, Len(s)) \in Seq(Nat)
  BY <1>1
<1>3. SubSeq(s, k + 1, Len(s)) = [i \in 1 .. Len(s) - k |-> s[i + k]]
  <2>1. CASE k = 0
    BY <1>1, <2>1
  <2>2. CASE k = 1
    BY <1>1, <2>2
  <2>3. QED
    BY <2>1, <2>2
<1>4. Len(SubSeq(s, k + 1, Len(s))) = Len(s) - k
  BY <1>1
<1>5. QED
  BY <1>2, <1>3, <1>4

(* parseMessage never throws, gives an object of its type, keeps the header *)
(* of the message, succeeds only on what fits and fails with the code that  *)
(* says what is wrong.                                                      *)
LEMMA ParseFacts ==
  ASSUME NEW m, IsRequest(m)
  PROVE  /\ parseMessage(m) \in Protocol
         /\ m.size >= getRequiredSize => parseMessage(m).header = m.header
         /\ ~parseMessage(m).ok =>
              /\ parseMessage(m).errorCode \in {invalidHeader, invalidMagic}
              /\ Refusal(m, parseMessage(m).errorCode)
         /\ parseMessage(m).ok => Fits(m, parseMessage(m))
<1> DEFINE h == m.header
           k == Skipped(m)
           offset == getPayloadOffset(h)
           payload == payloadFrom(m, offset)
<1>1. /\ m.size \in Nat /\ h \in Header /\ m.body \in Seq(Nat)
      /\ Len(m.body) = WordsBehindHeader(m.size)
      /\ h.length \in Nat
  BY HeaderAssumption DEF IsRequest, Header, HeaderAssumption
<1>2. k \in {0, 1} /\ offset = 4 + 4 * k
  BY DEF Skipped, getPayloadOffset, getRequiredSize, RESERVED_BYTES_COUNT
<1> HIDE DEF k, offset
<1>3. EmptyHeader \in Header
  BY HeaderAssumption DEF HeaderAssumption, Header, EmptyHeader, BitRange
<1>4. noPayload \in [size : Nat, words : Seq(Nat)]
  BY DEF noPayload
<1>5. CASE m.size < 4
  <2>1. ~WellSized(m)
    BY <1>1, <1>5 DEF WellSized, getRequiredSize, WORD_SIZE
  <2>2. QED
    BY <1>1, <1>3, <1>4, <1>5, <2>1
       DEF parseMessage, parsed, getRequiredSize, Protocol, ErrorCode, invalidHeader, Refusal
<1>6. CASE m.size >= 4 /\ (m.size - 4 # h.length * 4 \/ m.size < offset)
  <2>1. ~WellSized(m)
    <3>1. SUFFICES ASSUME WellSized(m)
                   PROVE  FALSE
      OBVIOUS
    <3>2. m.size = 4 + 4 * h.length
      BY <3>1 DEF WellSized, getRequiredSize, WORD_SIZE
    <3>3. m.size < offset
      BY <1>1, <1>6, <3>2
    <3>4. k = 1 /\ h.length = 0
      BY <1>1, <1>2, <3>2, <3>3
    <3>5. h.code \in {sigmaTeardown, createAttestationSubKey, getMeasurement}
      BY <3>4 DEF k, Skipped
    <3>6. QED
      BY <3>1, <3>4, <3>5 DEF WellSized, RightLength
  <2>2. QED
    BY <1>1, <1>4, <1>6, <2>1
       DEF offset, parseMessage, parsed, getRequiredSize, WORD_SIZE, Protocol, ErrorCode,
           invalidHeader, Refusal
<1>7. CASE m.size >= 4 /\ m.size - 4 = h.length * 4 /\ m.size >= offset
  <2>0. parseMessage(m) =
          IF ~isPayloadSizeCorrect(h, payload)
          THEN parsed(FALSE, h, payload, invalidHeader)
          ELSE IF magicWordThrows(h, payload)
          THEN NoProtocol
          ELSE IF ~isMagicWordCorrect(h, payload)
          THEN parsed(FALSE, h, payload, invalidMagic)
          ELSE parsed(TRUE, h, payload, noError)
    <3>1. m.size >= getRequiredSize /\ m.size - getRequiredSize = h.length * WORD_SIZE
      BY <1>7 DEF getRequiredSize, WORD_SIZE
    <3>2. ~(m.size < getRequiredSize) /\ ~(m.size < offset)
      BY <1>1, <1>2, <1>7, <3>1 DEF getRequiredSize
    <3>3. QED
      BY <3>1, <3>2 DEF parseMessage, offset
  <2>1. Len(m.body) = h.length /\ h.length >= k /\ m.size = 4 + 4 * h.length
    <3>1. m.size - 4 = h.length * 4 /\ ~(m.size < 4)
      BY <1>1, <1>7
    <3>2. (h.length * 4) \div 4 = h.length
      BY <1>1
    <3>3. Len(m.body) = h.length
      BY <1>1, <3>1, <3>2 DEF WordsBehindHeader, getRequiredSize, WORD_SIZE
    <3>4. QED
      BY <1>1, <1>2, <1>7, <3>3
  <2>2. /\ payload.size = 4 * (h.length - k)
        /\ payload.words = SubSeq(m.body, k + 1, Len(m.body))
    <3>1. ((offset - 4) \div WORD_SIZE) + 1 = k + 1
      BY <1>2 DEF WORD_SIZE
    <3>2. m.size - offset = 4 * (h.length - k)
      <4>1. m.size = 4 + 4 * h.length /\ offset = 4 + 4 * k /\ h.length \in Int /\ k \in Int
        BY <1>1, <1>2, <2>1
      <4>2. QED
        BY <4>1
    <3>3. QED
      BY <3>1, <3>2 DEF payloadFrom
  <2>3. /\ payload \in [size : Nat, words : Seq(Nat)]
        /\ payload.words = [i \in 1 .. h.length - k |-> m.body[i + k]]
    <3>1. 4 * (h.length - k) \in Nat
      BY <1>1, <1>2, <2>1
    <3>2. /\ SubSeq(m.body, k + 1, Len(m.body)) \in Seq(Nat)
          /\ SubSeq(m.body, k + 1, Len(m.body)) = [i \in 1 .. Len(m.body) - k |-> m.body[i + k]]
      BY <1>1, <1>2, <2>1, PassedWords
    <3>3. QED
      BY <2>1, <2>2, <3>1, <3>2 DEF payloadFrom
  <2>. HIDE DEF payload
  <2>4. CASE ~isPayloadSizeCorrect(h, payload)
    <3>1. ~RightLength(h)
      <4>1. SUFFICES ASSUME RightLength(h)
                     PROVE  isPayloadSizeCorrect(h, payload)
        BY <2>4
      <4>2. h.code = sigmaTeardown => payload.size = 8
        BY <2>2, <4>1 DEF k, Skipped, RightLength
      <4>3. h.code \in {getAttestationCertificate, getChipId, getDeviceIdentity, getIdCode} => k = 0
        BY DEF k, Skipped, getAttestationCertificate, getChipId, getIdCode, getDeviceIdentity,
               sigmaTeardown, createAttestationSubKey, getMeasurement
      <4>4. /\ h.code = getAttestationCertificate => payload.size = 4
            /\ h.code \in {getChipId, getDeviceIdentity, getIdCode} => payload.size = 0
        BY <2>2, <4>1, <4>3 DEF RightLength
      <4>5. QED
        BY <4>2, <4>4 DEF isPayloadSizeCorrect, payloadSizeMap
    <3>2. Refusal(m, invalidHeader)
      BY <3>1 DEF Refusal, WellSized
    <3>3. QED
      BY <1>1, <2>0, <2>3, <2>4, <3>2 DEF parsed, Protocol, ErrorCode, invalidHeader
  <2>5. CASE isPayloadSizeCorrect(h, payload)
    <3>1. /\ h.code = sigmaTeardown => payload.size = 8
          /\ h.code = getAttestationCertificate => payload.size = 4
          /\ h.code \in {getChipId, getIdCode, getDeviceIdentity} => payload.size = 0
      BY <2>5 DEF isPayloadSizeCorrect, payloadSizeMap
    <3>2. ~magicWordThrows(h, payload)
      BY <3>1 DEF magicWordThrows, decodeThrows, WORD_SIZE
    <3>3. /\ h.code = sigmaTeardown => k = 1 /\ h.length = 3 /\ payload.words[1] = m.body[2]
          /\ h.code = getAttestationCertificate => h.length = 1
          /\ h.code \in {getChipId, getIdCode, getDeviceIdentity} => h.length = 0
      <4>1. h.code = sigmaTeardown => k = 1 /\ h.length = 3
        BY <1>1, <2>2, <3>1 DEF k, Skipped
      <4>2. h.code = sigmaTeardown => payload.words[1] = m.body[2]
        BY <2>3, <4>1
      <4>3. /\ h.code = getAttestationCertificate => h.length = 1
            /\ h.code \in {getChipId, getIdCode, getDeviceIdentity} => h.length = 0
        BY <1>1, <2>2, <3>1
           DEF k, Skipped, getAttestationCertificate, getChipId, getIdCode, getDeviceIdentity,
               sigmaTeardown, createAttestationSubKey, getMeasurement
      <4>4. QED
        BY <4>1, <4>2, <4>3
    <3>4. CASE ~isMagicWordCorrect(h, payload)
      <4>1. parseMessage(m) = parsed(FALSE, h, payload, invalidMagic)
        BY <2>0, <2>5, <3>2, <3>4
      <4>2. h.code = sigmaTeardown /\ m.body[2] # SIGMA_TEARDOWN_MAGIC
        BY <3>3, <3>4 DEF isMagicWordCorrect, decode, WORD_SIZE
      <4>3. RightLength(h)
        BY <3>3, <4>2
           DEF RightLength, getAttestationCertificate, getChipId, getIdCode, getDeviceIdentity,
               sigmaTeardown, createAttestationSubKey, getMeasurement
      <4>4. Refusal(m, invalidMagic)
        BY <2>1, <4>2, <4>3 DEF Refusal, WellSized, getRequiredSize, WORD_SIZE
      <4>5. QED
        BY <1>1, <2>3, <4>1, <4>4 DEF parsed, Protocol, ErrorCode, invalidMagic
    <3>5. CASE isMagicWordCorrect(h, payload)
      <4>1. parseMessage(m) = parsed(TRUE, h, payload, noError)
        BY <2>0, <2>5, <3>2, <3>5
      <4>2. h.code = sigmaTeardown => m.body[2] = SIGMA_TEARDOWN_MAGIC
        BY <3>3, <3>5 DEF isMagicWordCorrect, decode, WORD_SIZE
      <4>3. Fits(m, parseMessage(m))
        BY <2>1, <2>2, <3>3, <4>1, <4>2 DEF k, Fits, parsed, getRequiredSize, WORD_SIZE
      <4>4. parseMessage(m) \in Protocol
        BY <1>1, <2>3, <4>1 DEF parsed, Protocol, ErrorCode, noError
      <4>5. QED
        BY <4>1, <4>3, <4>4 DEF parsed
    <3>6. QED
      BY <3>4, <3>5
  <2>6. QED
    BY <2>4, <2>5
<1>8. QED
  BY <1>1, <1>2, <1>5, <1>6, <1>7

-----------------------------------------------------------------------------
\* The codes of the error replies fit the code field, and none is cut to noError.
LEMMA ErrorCodes ==
  \A e \in {genericError, unknownCommand, invalidHeader, invalidMagic} :
    e \in Int /\ e \in 0 .. CodeRange - 1 /\ e % CodeRange = e /\ e % CodeRange # 0
BY HeaderAssumption, HandlerAssumption
   DEF HeaderAssumption, HandlerAssumption, genericError, unknownCommand, invalidHeader,
       invalidMagic

(* A reply is of its type, echoes the request, tells its own size, says     *)
(* noError only for a code that is cut to 0, and a code that fits as it is. *)
ReplyTo(p, size, code, r) ==
  /\ r \in Reply
  /\ r.header.client = p.header.client /\ r.header.id = p.header.id
  /\ r.header.res1 = 0 /\ r.header.res2 = 0
  /\ r.payload = WORD_SIZE * r.header.length
  /\ r.header.code = noError => code % CodeRange = 0 /\ r.payload = size
  /\ size = 0 /\ code \in 0 .. CodeRange - 1 => r.header.code = code

LEMMA ReplyFacts ==
  ASSUME NEW p \in Protocol, NEW size \in Nat, size <= 4096, NEW code \in Int
  PROVE  ReplyTo(p, size, code, prepareResponseMessage(p, size, code))
<1>1. /\ ClientRange \in Nat \ {0} /\ IdRange \in Nat \ {0}
      /\ LengthRange \in Nat /\ CodeRange \in Nat /\ LengthRange > 1024 /\ CodeRange > 128
  BY HeaderAssumption, HandlerAssumption DEF HeaderAssumption, HandlerAssumption, invalidMagic
<1>2. p.header \in Header
  BY DEF Protocol
<1>3. p.header.client \in 0 .. ClientRange - 1 /\ p.header.id \in 0 .. IdRange - 1
  BY <1>2 DEF Header
<1>4. ASSUME NEW n \in Nat, n <= 4096, n % 4 = 0, NEW c \in Int
      PROVE  ReplyTo(p, n, c, reply(p, n, c))
  <2>1. n \div 4 \in Nat /\ n \div 4 < LengthRange /\ n = 4 * (n \div 4)
    BY <1>1, <1>4
  <2>2. (n \div 4) % LengthRange = n \div 4
    BY <1>1, <2>1
  <2>3. /\ c % CodeRange \in 0 .. CodeRange - 1
        /\ c \in 0 .. CodeRange - 1 => c % CodeRange = c
    BY <1>1
  <2>4. reply(p, n, c).header \in Header
    BY <1>1, <1>3, <2>1, <2>2, <2>3 DEF reply, Header, WORD_SIZE, BitRange
  <2>5. QED
    BY <2>1, <2>2, <2>3, <2>4 DEF ReplyTo, reply, Reply, WORD_SIZE, noError
<1>5. CASE size % WORD_SIZE = 0
  <2>1. prepareResponseMessage(p, size, code) = reply(p, size, code) /\ size % 4 = 0
    BY <1>5 DEF prepareResponseMessage, WORD_SIZE
  <2>2. QED
    BY <1>4, <2>1
<1>6. CASE size % WORD_SIZE # 0
  <2>1. prepareResponseMessage(p, size, code) = reply(p, 0, genericError)
    BY <1>6 DEF prepareResponseMessage, prepareEmptyResponseMessage
  <2>2. genericError \in 0 .. CodeRange - 1 /\ genericError % CodeRange # 0
    BY ErrorCodes
  <2>3. size # 0
    BY <1>6 DEF WORD_SIZE
  <2>4. 0 \in Nat /\ 0 <= 4096 /\ 0 % 4 = 0
    OBVIOUS
  <2> DEFINE r == reply(p, 0, genericError)
  <2>5. ReplyTo(p, 0, genericError, r)
    BY <1>4, <2>2, <2>4
  <2> HIDE DEF r
  <2>6. ReplyTo(p, size, code, r)
    BY <2>2, <2>3, <2>5 DEF ReplyTo
  <2>7. QED
    BY <2>1, <2>6 DEF r
<1>7. QED
  BY <1>5, <1>6

LEMMA EmptyReplyFacts ==
  ASSUME NEW p \in Protocol, NEW code \in Int
  PROVE  prepareEmptyResponseMessage(p, code) = prepareResponseMessage(p, 0, code)
BY DEF prepareEmptyResponseMessage, prepareResponseMessage, WORD_SIZE

-----------------------------------------------------------------------------
\* Where the call stands, and what is known of the message by then.
InHand ==
  /\ IF pc = "idle" THEN message = NoMessage ELSE message \in Requests
  /\ pc \in {"dispatch", "device"} => protocol \in Protocol /\ Fits(message, protocol)
  /\ pc \in {"idle", "parse", "dispatch"} => step = "idle"
  /\ pc = "device" => step # "idle"
  /\ pc # "done" => response = NoReply

\* What has come back from the device.
DeviceData ==
  /\ step # "idle" => request.function \in FcsFunctions
  /\ ~succeeded => fcsStatus = Unset
  /\ succeeded =>
       /\ step = "returned"
       /\ fcsStatus \in Statuses /\ data.status = fcsStatus
       /\ outBuffer <= 4096
       /\ request.function \in Sized => outBuffer <= RSP_MAX_SZ[request.function]

HandlerInv ==
  /\ HandlerTypeOK
  /\ NeverThrows
  /\ DeviceReleased
  /\ DeviceSeesValidRequests
  /\ RepliesWellFormed
  /\ SuccessMeansDone
  /\ SilenceMeansFailure
  /\ RefusalsDeserved
  /\ InHand
  /\ DeviceData

LEMMA HandlerInitInv == HandlerInit => HandlerInv
<1> SUFFICES ASSUME HandlerInit PROVE HandlerInv
  OBVIOUS
<1>1. FcsTypeOK
  <2>1. NoRequest \in [function : FcsFunctions \cup {"none"}, mbox_cmd : Nat,
                       words : Seq(Nat), cmd_data_sz : Nat]
    BY DEF NoRequest
  <2>2. NoData \in [status : Int, rsp_data_sz : Nat]
    BY DEF NoData
  <2>3. QED
    BY <2>1, <2>2 DEF HandlerInit, FcsInit, FcsTypeOK
<1>2. HandlerTypeOK
  BY <1>1 DEF HandlerInit, HandlerTypeOK
<1>3. QED
  BY <1>2 DEF HandlerInit, FcsInit, HandlerInv, NeverThrows, DeviceReleased,
     DeviceSeesValidRequests, RepliesWellFormed, SuccessMeansDone, SilenceMeansFailure,
     RefusalsDeserved, InHand, DeviceData

LEMMA ReceiveInv == ASSUME HandlerInv, NEW m \in Requests, Receive(m) PROVE HandlerInv'
BY DEF Receive, fcsVars, HandlerInv, HandlerTypeOK, FcsTypeOK, NeverThrows, DeviceReleased,
   DeviceSeesValidRequests, RepliesWellFormed, SuccessMeansDone, SilenceMeansFailure,
   RefusalsDeserved, InHand, DeviceData

LEMMA ReturnInv == ASSUME HandlerInv, Return PROVE HandlerInv'
<1>1. FcsTypeOK'
  <2>1. NoRequest \in [function : FcsFunctions \cup {"none"}, mbox_cmd : Nat,
                       words : Seq(Nat), cmd_data_sz : Nat]
    BY DEF NoRequest
  <2>2. NoData \in [status : Int, rsp_data_sz : Nat]
    BY DEF NoData
  <2>3. QED
    BY <2>1, <2>2 DEF HandlerInv, HandlerTypeOK, Return, Forget, FcsTypeOK
<1>2. HandlerTypeOK'
  BY <1>1 DEF Return, HandlerTypeOK
<1>3. QED
  BY <1>2 DEF Return, Forget, HandlerInv, NeverThrows, DeviceReleased,
     DeviceSeesValidRequests, RepliesWellFormed, SuccessMeansDone, SilenceMeansFailure,
     RefusalsDeserved, InHand, DeviceData

(* The steps that leave the driver's variables alone and end with a reply   *)
(* prepared from the object.                                                *)
LEMMA ReplyInv ==
  ASSUME HandlerInv, pc # "idle", pc' = "done", UNCHANGED <<message, fcsVars>>,
         pc = "device" => step = "returned",
         protocol' \in Protocol,
         message.size >= getRequiredSize => protocol'.header = message.header,
         NEW size \in Nat, size <= 4096, NEW code \in Int,
         response' = prepareResponseMessage(protocol', size, code),
         code % CodeRange = 0 =>
           /\ step = "returned" /\ succeeded /\ data.status % CodeRange = 0
           /\ request.function \in Sized => size <= RSP_MAX_SZ[request.function],
         step = "idle" => size = 0 /\ code \in 0 .. CodeRange - 1 /\ Refusal(message, code)
  PROVE  HandlerInv'
<1>1. /\ response' \in Reply
      /\ response'.header.client = protocol'.header.client
      /\ response'.header.id = protocol'.header.id
      /\ response'.header.res1 = 0 /\ response'.header.res2 = 0
      /\ response'.payload = WORD_SIZE * response'.header.length
      /\ response'.header.code = noError => code % CodeRange = 0 /\ response'.payload = size
      /\ size = 0 /\ code \in 0 .. CodeRange - 1 => response'.header.code = code
  <2>1. ReplyTo(protocol', size, code, prepareResponseMessage(protocol', size, code))
    BY ReplyFacts
  <2>2. QED
    BY <2>1 DEF ReplyTo
<1>2. response' # NoReply
  BY <1>1, HandlerAssumption DEF HandlerAssumption
<1>3. HandlerTypeOK'
  BY <1>1 DEF HandlerInv, HandlerTypeOK, FcsTypeOK, fcsVars
<1>4. DeviceSeesValidRequests'
  BY DEF HandlerInv, DeviceSeesValidRequests, ValidCall, fcsVars
<1>5. DeviceReleased'
  BY DEF HandlerInv, InHand, HandlerTypeOK, DeviceReleased, fcsVars
<1>6. RepliesWellFormed'
  BY <1>1 DEF RepliesWellFormed
<1>7. SuccessMeansDone'
  BY <1>1 DEF SuccessMeansDone, fcsVars
<1>8. SilenceMeansFailure' /\ NeverThrows'
  BY <1>2 DEF SilenceMeansFailure, NeverThrows
<1>9. InHand' /\ DeviceData'
  BY DEF HandlerInv, InHand, DeviceData, fcsVars
<1>10. RefusalsDeserved'
  <2>1. SUFFICES ASSUME step = "idle"
                 PROVE  Refusal(message, response'.header.code)
    BY <1>2 DEF RefusalsDeserved, fcsVars
  <2>2. QED
    BY <1>1, <2>1
<1>11. QED
  BY <1>3, <1>4, <1>5, <1>6, <1>7, <1>8, <1>9, <1>10 DEF HandlerInv

LEMMA ParseInv == ASSUME HandlerInv, Parse PROVE HandlerInv'
<1> USE DEF HandlerInv
<1>1. message \in Requests /\ IsRequest(message)
  BY HandlerAssumption DEF Parse, InHand, HandlerAssumption
<1>2. /\ protocol' \in Protocol
      /\ protocol' # NoProtocol
      /\ message.size >= getRequiredSize => protocol'.header = message.header
      /\ ~protocol'.ok => /\ protocol'.errorCode \in {invalidHeader, invalidMagic}
                          /\ Refusal(message, protocol'.errorCode)
      /\ protocol'.ok => Fits(message, protocol')
  BY <1>1, ParseFacts, HandlerAssumption DEF Parse, HandlerAssumption
<1>3. CASE protocol'.ok
  <2>1. pc' = "dispatch" /\ UNCHANGED <<message, response, fcsVars>>
    BY <1>2, <1>3 DEF Parse
  <2>2. HandlerTypeOK'
    BY <1>2, <2>1 DEF HandlerTypeOK, FcsTypeOK, fcsVars
  <2>3. InHand' /\ DeviceData' /\ DeviceReleased' /\ DeviceSeesValidRequests'
    BY <1>1, <1>2, <1>3, <2>1
       DEF Parse, InHand, DeviceData, DeviceReleased, DeviceSeesValidRequests, fcsVars
  <2>4. /\ NeverThrows' /\ RepliesWellFormed' /\ SuccessMeansDone' /\ SilenceMeansFailure'
        /\ RefusalsDeserved'
    BY <2>1 DEF NeverThrows, RepliesWellFormed, SuccessMeansDone, SilenceMeansFailure,
                RefusalsDeserved
  <2>5. QED
    BY <2>2, <2>3, <2>4
<1>4. CASE ~protocol'.ok
  <2>1. /\ pc = "parse" /\ pc' = "done" /\ UNCHANGED <<message, fcsVars>>
        /\ response' = prepareResponseMessage(protocol', 0, protocol'.errorCode)
    BY <1>2, <1>4 DEF Parse
  <2>2. /\ protocol'.errorCode \in Int /\ protocol'.errorCode \in 0 .. CodeRange - 1
        /\ protocol'.errorCode % CodeRange # 0
    BY <1>2, <1>4, ErrorCodes
  <2>3. QED
    BY <1>2, <1>4, <2>1, <2>2, ReplyInv
<1>5. QED
  BY <1>3, <1>4

(* Entering FcsCommunication with a request that fits the message.          *)
LEMMA CallInv ==
  ASSUME HandlerInv, pc = "dispatch", pc' = "device", UNCHANGED <<message, protocol, response>>,
         NEW function \in FcsFunctions, NEW code \in Nat, NEW words \in Seq(Nat),
         NEW size \in Nat, size < MailboxSizeRange, Call(function, code, words, size),
         message.size = getRequiredSize + WORD_SIZE * message.header.length,
         ValidCall(request, message)',
         size = WORD_SIZE * Len(words)
  PROVE  HandlerInv'
<1>1. request' = [function |-> function, mbox_cmd |-> code, words |-> words,
                  cmd_data_sz |-> size]
  <2>1. size % MailboxSizeRange = size
    BY DEF MailboxSizeRange
  <2>2. QED
    BY <2>1 DEF Call
<1>2. RSP_MAX_SZ[function] \in Nat
  BY DEF RSP_MAX_SZ, FcsFunctions, Sized
<1>3. data' \in [status : Int, rsp_data_sz : Nat] /\ outBuffer' \in Nat
  BY <1>2 DEF Call
<1>4. request' \in [function : FcsFunctions \cup {"none"}, mbox_cmd : Nat,
                    words : Seq(Nat), cmd_data_sz : Nat]
  BY <1>1
<1>5. FcsTypeOK'
  BY <1>3, <1>4 DEF HandlerInv, Call, HandlerTypeOK, FcsTypeOK
<1>6. HandlerTypeOK'
  BY <1>5 DEF HandlerInv, HandlerTypeOK
<1>7. DeviceSeesValidRequests'
  BY <1>1 DEF DeviceSeesValidRequests
<1>8. InHand' /\ DeviceData' /\ DeviceReleased'
  BY <1>1 DEF HandlerInv, HandlerTypeOK, FcsTypeOK, Call, InHand, DeviceData, DeviceReleased
<1>9. /\ NeverThrows' /\ RepliesWellFormed' /\ SuccessMeansDone' /\ SilenceMeansFailure'
      /\ RefusalsDeserved'
  BY DEF HandlerInv, InHand, NeverThrows, RepliesWellFormed, SuccessMeansDone,
         SilenceMeansFailure, RefusalsDeserved
<1>10. QED
  BY <1>6, <1>7, <1>8, <1>9 DEF HandlerInv

(* What the dispatch step knows of the message.                             *)
LEMMA Dispatched ==
  ASSUME HandlerInv, pc = "dispatch"
  PROVE  /\ message \in Requests /\ IsRequest(message)
         /\ protocol \in Protocol /\ Fits(message, protocol)
         /\ message.body \in Seq(Nat)
         /\ message.header.length \in Nat
         /\ message.header.code \in Nat
         /\ step = "idle"
BY HandlerAssumption, HeaderAssumption
   DEF HandlerInv, InHand, HandlerAssumption, HeaderAssumption, IsRequest, Header

LEMMA ChipIdInv == ASSUME HandlerInv, CallChipId PROVE HandlerInv'
<1> DEFINE none == <<>>
<1>1. pc = "dispatch" /\ getCommandCode(protocol) = getChipId
  BY DEF CallChipId, Command
<1>2. Fits(message, protocol)
  BY <1>1, Dispatched
<1>3. /\ message.header.code = getChipId /\ message.header.length = 0
      /\ message.size = getRequiredSize + WORD_SIZE * message.header.length
  BY <1>1, <1>2 DEF Fits, getCommandCode
<1>4. none \in Seq(Nat) /\ 0 = WORD_SIZE * Len(none)
  BY DEF WORD_SIZE
<1>5. /\ Call("getChipId", 0, none, 0) /\ pc' = "device"
      /\ UNCHANGED <<message, protocol, response>>
  BY DEF CallChipId
<1> HIDE DEF none
<1>6. request'.function = "getChipId"
  BY <1>5 DEF Call
<1>7. ValidCall(request, message)'
  BY <1>3, <1>5, <1>6 DEF ValidCall
<1>8. "getChipId" \in FcsFunctions /\ 0 \in Nat /\ 0 < MailboxSizeRange
  BY DEF FcsFunctions, MailboxSizeRange
<1>9. QED
  BY <1>1, <1>3, <1>4, <1>5, <1>7, <1>8, CallInv

LEMMA SigmaTeardownInv == ASSUME HandlerInv, CallSigmaTeardown PROVE HandlerInv'
<1> DEFINE sid == getSigmaTeardownSessionId(protocol)
<1>1. pc = "dispatch" /\ getCommandCode(protocol) = sigmaTeardown
  BY DEF CallSigmaTeardown, Command
<1>2. /\ Fits(message, protocol) /\ message.body \in Seq(Nat)
  BY <1>1, Dispatched
<1>3. /\ message.header.code = sigmaTeardown /\ message.header.length = 3
      /\ message.body[2] = SIGMA_TEARDOWN_MAGIC
      /\ Len(message.body) = 3 /\ Skipped(message) = 1
      /\ protocol.payload.size = 8
      /\ protocol.payload.words = SubSeq(message.body, 1 + 1, Len(message.body))
  <2>1. message.header.code = sigmaTeardown
    BY <1>1, <1>2 DEF Fits, getCommandCode
  <2>2. Skipped(message) = 1
    BY <2>1 DEF Skipped
  <2>3. /\ message.header.length = 3 /\ message.body[2] = SIGMA_TEARDOWN_MAGIC
        /\ Len(message.body) = message.header.length
        /\ protocol.payload.size = WORD_SIZE * (message.header.length - Skipped(message))
        /\ protocol.payload.words =
             SubSeq(message.body, Skipped(message) + 1, Len(message.body))
    BY <1>2, <2>1 DEF Fits
  <2>4. QED
    BY <2>1, <2>2, <2>3 DEF WORD_SIZE
<1>4. protocol.payload.words = [i \in 1 .. 3 - 1 |-> message.body[i + 1]]
  BY <1>2, <1>3, PassedWords
<1>5. sid = message.body[3] /\ sid \in Nat
  BY <1>2, <1>3, <1>4
     DEF getSigmaTeardownSessionId, decode, WORD_SIZE, SIGMA_TEARDOWN_SESSIONID_OFFSET
<1>6. ~sessionIdThrows(protocol)
  BY <1>1, <1>3 DEF sessionIdThrows
<1> HIDE DEF sid
<1>7. /\ Call("sigmaTeardown", 0, <<sid>>, 4) /\ pc' = "device"
      /\ UNCHANGED <<message, protocol, response>>
  BY <1>6 DEF CallSigmaTeardown, WORD_SIZE, sid
<1>8. request'.function = "sigmaTeardown" /\ request'.words = <<sid>>
  BY <1>7 DEF Call
<1>9. ValidCall(request, message)'
  BY <1>3, <1>5, <1>7, <1>8 DEF ValidCall
<1>10. /\ "sigmaTeardown" \in FcsFunctions /\ <<sid>> \in Seq(Nat)
       /\ 4 = WORD_SIZE * Len(<<sid>>) /\ {0, 4} \subseteq Nat /\ 4 < MailboxSizeRange
  BY <1>5 DEF FcsFunctions, WORD_SIZE, MailboxSizeRange
<1>11. QED
  BY <1>1, <1>2, <1>7, <1>9, <1>10, CallInv DEF Fits

LEMMA CertificateInv == ASSUME HandlerInv, CallCertificate PROVE HandlerInv'
<1> DEFINE wanted == getCertificateRequest(protocol)
<1>1. pc = "dispatch" /\ getCommandCode(protocol) = getAttestationCertificate
  BY DEF CallCertificate, Command
<1>2. Fits(message, protocol) /\ message.body \in Seq(Nat)
  BY <1>1, Dispatched
<1>3. /\ message.header.code = getAttestationCertificate /\ message.header.length = 1
      /\ message.size = getRequiredSize + WORD_SIZE * message.header.length
      /\ Len(message.body) = 1 /\ Skipped(message) = 0
      /\ protocol.payload.size = 4
      /\ protocol.payload.words = SubSeq(message.body, 0 + 1, Len(message.body))
  <2>1. message.header.code = getAttestationCertificate
    BY <1>1, <1>2 DEF Fits, getCommandCode
  <2>2. Skipped(message) = 0
    BY <2>1 DEF Skipped, getAttestationCertificate, sigmaTeardown, createAttestationSubKey,
       getMeasurement
  <2>3. /\ message.header.length = 1
        /\ message.size = getRequiredSize + WORD_SIZE * message.header.length
        /\ Len(message.body) = message.header.length
        /\ protocol.payload.size = WORD_SIZE * (message.header.length - Skipped(message))
        /\ protocol.payload.words =
             SubSeq(message.body, Skipped(message) + 1, Len(message.body))
    BY <1>2, <2>1 DEF Fits
  <2>4. QED
    BY <2>1, <2>2, <2>3 DEF WORD_SIZE
<1>4. protocol.payload.words[1] = message.body[1] /\ message.body[1] \in Nat
  BY <1>2, <1>3, PassedWords
<1>5. wanted = message.body[1] % RequestMaskRange /\ wanted \in Nat
  BY <1>4 DEF getCertificateRequest, decode, WORD_SIZE, RequestMaskRange
<1>6. ~certificateRequestThrows(protocol)
  BY <1>1, <1>3 DEF certificateRequestThrows
<1> HIDE DEF wanted
<1>7. /\ Call("getAttestationCertificate", 0, <<wanted>>, 4) /\ pc' = "device"
      /\ UNCHANGED <<message, protocol, response>>
  BY <1>6 DEF CallCertificate, WORD_SIZE, wanted
<1>8. request'.function = "getAttestationCertificate" /\ request'.words = <<wanted>>
  BY <1>7 DEF Call
<1>9. ValidCall(request, message)'
  BY <1>3, <1>5, <1>7, <1>8 DEF ValidCall
<1>10. /\ "getAttestationCertificate" \in FcsFunctions /\ <<wanted>> \in Seq(Nat)
       /\ 4 = WORD_SIZE * Len(<<wanted>>) /\ {0, 4} \subseteq Nat /\ 4 < MailboxSizeRange
  BY <1>5 DEF FcsFunctions, Sized, WORD_SIZE, MailboxSizeRange
<1>11. QED
  BY <1>1, <1>3, <1>7, <1>9, <1>10, CallInv

(* The payload of a message that fits is what the device is to be given.    *)
LEMMA PayloadFacts ==
  ASSUME HandlerInv, pc = "dispatch"
  PROVE  LET p == protocol.payload
             n == message.header.length
             k == Skipped(message)
         IN /\ p.words \in Seq(Nat)
            /\ p.words = [i \in 1 .. n - k |-> message.body[i + k]]
            /\ p.size \in Nat /\ p.size = WORD_SIZE * Len(p.words)
            /\ p.size < MailboxSizeRange
            /\ n >= k
            /\ k = 0 => p.words = message.body
<1> DEFINE n == message.header.length
           k == Skipped(message)
<1>1. /\ Fits(message, protocol) /\ message.body \in Seq(Nat) /\ n \in Nat
      /\ IsRequest(message)
  BY Dispatched
<1>2. k \in {0, 1}
  BY DEF Skipped
<1>3. n < LengthRange /\ LengthRange \in Nat /\ LengthRange * 4 <= MailboxSizeRange
  BY <1>1, HeaderAssumption, HandlerAssumption
     DEF IsRequest, Header, HeaderAssumption, HandlerAssumption, WORD_SIZE
<1>4. /\ Len(message.body) = n /\ n >= k
      /\ protocol.payload.size = 4 * (n - k)
      /\ protocol.payload.words = SubSeq(message.body, k + 1, Len(message.body))
  BY <1>1 DEF Fits, WORD_SIZE
<1> HIDE DEF n, k
<1>5. /\ protocol.payload.words \in Seq(Nat)
      /\ protocol.payload.words = [i \in 1 .. n - k |-> message.body[i + k]]
      /\ Len(protocol.payload.words) = n - k
  BY <1>1, <1>2, <1>4, PassedWords
<1>6. /\ protocol.payload.size \in Nat
      /\ protocol.payload.size = 4 * Len(protocol.payload.words)
  BY <1>1, <1>2, <1>4, <1>5
<1>7. protocol.payload.size < MailboxSizeRange
  BY <1>1, <1>2, <1>3, <1>4 DEF n, MailboxSizeRange
<1>8. k = 0 => protocol.payload.words = message.body
  BY <1>1, <1>4
<1>9. QED
  BY <1>4, <1>5, <1>6, <1>7, <1>8 DEF n, k, WORD_SIZE

LEMMA WithPayloadInv == ASSUME HandlerInv, CallWithPayload PROVE HandlerInv'
<1> DEFINE words == protocol.payload.words
           size == protocol.payload.size
           code == getCommandCode(protocol)
<1>1. /\ pc = "dispatch" /\ pc' = "device" /\ UNCHANGED <<message, protocol, response>>
  BY DEF CallWithPayload, Command
<1>2. /\ Fits(message, protocol) /\ code = message.header.code /\ code \in Nat
      /\ message.body \in Seq(Nat) /\ message.header.length \in Nat
      /\ message.size = getRequiredSize + WORD_SIZE * message.header.length
  BY <1>1, Dispatched DEF Fits, getCommandCode
<1>3. /\ words \in Seq(Nat) /\ size \in Nat /\ size < MailboxSizeRange
      /\ size = WORD_SIZE * Len(words)
      /\ words = [i \in 1 .. message.header.length - Skipped(message) |->
                    message.body[i + Skipped(message)]]
      /\ message.header.length >= Skipped(message)
      /\ Skipped(message) = 0 => words = message.body
  BY <1>1, PayloadFacts
<1> HIDE DEF words, size, code
<1>4. CASE code = createAttestationSubKey
  <2>1. Call("createAttestationSubkey", 0, words, size)
    BY <1>4 DEF CallWithPayload, Command, words, size, code, createAttestationSubKey,
       getMeasurement, mctp, getIdCode, getDeviceIdentity
  <2>2. request'.function = "createAttestationSubkey" /\ request'.words = words
    BY <2>1 DEF Call
  <2>3. Skipped(message) = 1
    BY <1>2, <1>4 DEF Skipped
  <2>4. ValidCall(request, message)'
    BY <1>1, <1>2, <1>3, <1>4, <2>2, <2>3 DEF ValidCall
  <2>5. "createAttestationSubkey" \in FcsFunctions /\ 0 \in Nat
    BY DEF FcsFunctions, Sized
  <2>6. QED
    BY <1>1, <1>2, <1>3, <2>1, <2>4, <2>5, CallInv
<1>5. CASE code = getMeasurement
  <2>1. Call("getMeasurement", 0, words, size)
    BY <1>5 DEF CallWithPayload, Command, words, size, code, createAttestationSubKey,
       getMeasurement, mctp, getIdCode, getDeviceIdentity
  <2>2. request'.function = "getMeasurement" /\ request'.words = words
    BY <2>1 DEF Call
  <2>3. Skipped(message) = 1
    BY <1>2, <1>5 DEF Skipped
  <2>4. ValidCall(request, message)'
    BY <1>1, <1>2, <1>3, <1>5, <2>2, <2>3 DEF ValidCall
  <2>5. "getMeasurement" \in FcsFunctions /\ 0 \in Nat
    BY DEF FcsFunctions, Sized
  <2>6. QED
    BY <1>1, <1>2, <1>3, <2>1, <2>4, <2>5, CallInv
<1>6. CASE code \in {mctp, getIdCode, getDeviceIdentity}
  <2>1. Call("mailboxGeneric", code, words, size)
    BY <1>6 DEF CallWithPayload, Command, words, size, code, createAttestationSubKey,
       getMeasurement, mctp, getIdCode, getDeviceIdentity
  <2>2. /\ request'.function = "mailboxGeneric" /\ request'.words = words
        /\ request'.mbox_cmd = code
    BY <2>1 DEF Call
  <2>3. Skipped(message) = 0
    BY <1>2, <1>6 DEF Skipped, sigmaTeardown, createAttestationSubKey, getMeasurement, mctp,
       getIdCode, getDeviceIdentity
  <2>4. code # mctp => message.header.length = 0
    BY <1>2, <1>6 DEF Fits
  <2>5. ValidCall(request, message)'
    BY <1>1, <1>2, <1>3, <1>6, <2>2, <2>3, <2>4 DEF ValidCall
  <2>6. "mailboxGeneric" \in FcsFunctions
    BY DEF FcsFunctions, Sized
  <2>7. QED
    BY <1>1, <1>2, <1>3, <2>1, <2>5, <2>6, CallInv
<1>7. QED
  BY <1>4, <1>5, <1>6 DEF CallWithPayload, Command, code

LEMMA UnknownInv == ASSUME HandlerInv, Unknown PROVE HandlerInv'
<1>1. pc = "dispatch" /\ pc' = "done" /\ UNCHANGED <<message, protocol, fcsVars>>
  BY DEF Unknown
<1>2. protocol' \in Protocol /\ protocol'.header = message.header
  BY <1>1, Dispatched DEF Fits
<1>3. /\ unknownCommand \in Int /\ unknownCommand \in 0 .. CodeRange - 1
      /\ unknownCommand % CodeRange # 0
  BY ErrorCodes
<1>4. response' = prepareResponseMessage(protocol', 0, unknownCommand)
  BY <1>1, <1>2, <1>3, EmptyReplyFacts DEF Unknown
<1>5. Refusal(message, unknownCommand)
  <2>1. Fits(message, protocol) /\ message.header.code \notin Known
    BY <1>1, Dispatched DEF Unknown, getCommandCode, Fits
  <2>2. RightLength(message.header)
    BY <2>1 DEF RightLength, Known
  <2>3. QED
    BY <2>1, <2>2 DEF Refusal, WellSized, Fits
<1>6. QED
  BY <1>1, <1>2, <1>3, <1>4, <1>5, ReplyInv

-----------------------------------------------------------------------------
(* Inside the device.                                                       *)

\* What the driver's steps leave alone.
LEMMA DeviceFrame ==
  ASSUME HandlerInv, Device, UNCHANGED request, step' # "idle", FcsTypeOK', DeviceReleased',
         DeviceData'
  PROVE  HandlerInv'
<1>1. UNCHANGED <<pc, message, protocol, response>> /\ pc = "device"
  BY DEF Device, handlerVars
<1>2. HandlerTypeOK'
  BY <1>1 DEF HandlerInv, HandlerTypeOK
<1>3. DeviceSeesValidRequests'
  BY <1>1 DEF HandlerInv, DeviceSeesValidRequests, ValidCall, InHand
<1>4. /\ NeverThrows' /\ RepliesWellFormed' /\ SuccessMeansDone' /\ SilenceMeansFailure'
      /\ RefusalsDeserved'
  BY <1>1 DEF NeverThrows, RepliesWellFormed, SuccessMeansDone, SilenceMeansFailure,
              RefusalsDeserved
<1>5. InHand'
  BY <1>1 DEF HandlerInv, InHand
<1>6. QED
  BY <1>2, <1>3, <1>4, <1>5 DEF HandlerInv

\* The driver's response is kept only when it fits the buffer.
LEMMA ResponseFits ==
  ASSUME NEW f \in FcsFunctions, NEW n \in RspSizes, ~tooLarge(f, n)
  PROVE  /\ responseSize(f, n) \in Nat /\ responseSize(f, n) <= 4096
         /\ f \in Sized => responseSize(f, n) <= RSP_MAX_SZ[f]
<1>1. n \in Nat
  BY FcsAssumption DEF FcsAssumption
<1>2. CASE f \in Sized
  <2>1. responseSize(f, n) = n /\ n <= RSP_MAX_SZ[f]
    BY <1>1, <1>2 DEF responseSize, tooLarge, RSP_MAX_SZ, Sized
  <2>2. RSP_MAX_SZ[f] \in Nat /\ RSP_MAX_SZ[f] <= 4096
    BY <1>2 DEF RSP_MAX_SZ, Sized
  <2>3. QED
    BY <1>1, <2>1, <2>2
<1>3. CASE f \notin Sized
  BY <1>3 DEF responseSize, ChipIdSize, FcsFunctions, Sized
<1>4. QED
  BY <1>2, <1>3

LEMMA DeviceInv == ASSUME HandlerInv, Device PROVE HandlerInv'
<1>1. /\ HandlerInv /\ pc = "device" /\ pc' = pc /\ FcsNext
      /\ FcsTypeOK /\ DeviceData /\ DeviceReleased
  BY DEF Device, handlerVars, HandlerInv, HandlerTypeOK
<1>2. CASE OpenFails
  <2>1. FcsTypeOK' /\ DeviceReleased' /\ DeviceData'
    BY <1>1, <1>2 DEF OpenFails, FcsTypeOK, DeviceReleased, DeviceData
  <2>2. QED
    BY <1>2, <2>1, DeviceFrame DEF OpenFails
<1>3. CASE Open
  <2>1. FcsTypeOK' /\ DeviceReleased' /\ DeviceData'
    BY <1>1, <1>3 DEF Open, FcsTypeOK, DeviceReleased, DeviceData
  <2>2. QED
    BY <1>3, <2>1, DeviceFrame DEF Open
<1>4. CASE IoctlFails
  <2>1. FcsTypeOK' /\ DeviceReleased' /\ DeviceData'
    BY <1>1, <1>4 DEF IoctlFails, FcsTypeOK, DeviceReleased, DeviceData
  <2>2. QED
    BY <1>4, <2>1, DeviceFrame DEF IoctlFails
<1>5. ASSUME NEW s \in Statuses, NEW n \in RspSizes, Ioctl(s, n)
      PROVE  HandlerInv'
  <2>1. s \in Int /\ n \in Nat
    BY FcsAssumption DEF FcsAssumption
  <2>2. request.function \in FcsFunctions /\ ~succeeded
    BY <1>1, <1>5 DEF Ioctl, DeviceData
  <2>3. data' \in [status : Int, rsp_data_sz : Nat] /\ data'.status = s
    BY <1>5, <2>1 DEF Ioctl
  <2>4. /\ step = "ioctl" /\ step' = "returned" /\ deviceFds' = deviceFds - 1
        /\ UNCHANGED request
    BY <1>5 DEF Ioctl
  <2>5. CASE tooLarge(request.function, n)
    <3>1. UNCHANGED <<succeeded, fcsStatus, outBuffer>>
      BY <1>5, <2>5 DEF Ioctl
    <3>2. FcsTypeOK' /\ DeviceReleased' /\ DeviceData'
      BY <1>1, <2>2, <2>3, <2>4, <3>1 DEF FcsTypeOK, DeviceReleased, DeviceData
    <3>3. QED
      BY <2>4, <3>2, DeviceFrame
  <2>6. CASE ~tooLarge(request.function, n)
    <3>1. succeeded' /\ fcsStatus' = s /\ outBuffer' = responseSize(request.function, n)
          /\ succeeded' = TRUE
      BY <1>5, <2>6 DEF Ioctl
    <3>2. /\ outBuffer' \in Nat /\ outBuffer' <= 4096
          /\ request.function \in Sized => outBuffer' <= RSP_MAX_SZ[request.function]
      BY <2>2, <2>6, <3>1, ResponseFits
    <3>3. FcsTypeOK'
      BY <1>1, <2>1, <2>3, <2>4, <3>1, <3>2 DEF FcsTypeOK, DeviceReleased
    <3>4. DeviceReleased' /\ DeviceData'
      BY <1>1, <2>2, <2>3, <2>4, <3>1, <3>2 DEF DeviceReleased, DeviceData
    <3>5. QED
      BY <2>4, <3>3, <3>4, DeviceFrame
  <2>7. QED
    BY <2>5, <2>6
<1>6. QED
  BY <1>1, <1>2, <1>3, <1>4, <1>5 DEF FcsNext

-----------------------------------------------------------------------------
(* After the device.                                                        *)

LEMMA AfterDevice ==
  ASSUME HandlerInv, Returned
  PROVE  /\ pc = "device" /\ step = "returned"
         /\ protocol \in Protocol /\ protocol.header = message.header
         /\ succeeded => /\ fcsStatus \in Int
                         /\ data.status = fcsStatus
                         /\ outBuffer \in Nat /\ outBuffer <= 4096
                         /\ request.function \in Sized =>
                              outBuffer <= RSP_MAX_SZ[request.function]
BY FcsAssumption
   DEF Returned, HandlerInv, InHand, Fits, DeviceData, HandlerTypeOK, FcsTypeOK, FcsAssumption

LEMMA UnsupportedInv == ASSUME HandlerInv, CertificateUnsupported PROVE HandlerInv'
<1>1. /\ Returned /\ pc' = "done" /\ UNCHANGED <<message, protocol, fcsVars>>
      /\ response' = prepareEmptyResponseMessage(protocol, unknownCommand)
  BY DEF CertificateUnsupported
<1>2. /\ pc = "device" /\ step = "returned"
      /\ protocol' \in Protocol /\ protocol'.header = message.header /\ protocol' = protocol
  BY <1>1, AfterDevice
<1>3. /\ unknownCommand \in Int /\ unknownCommand \in 0 .. CodeRange - 1
      /\ unknownCommand % CodeRange # 0
  BY ErrorCodes
<1>4. response' = prepareResponseMessage(protocol', 0, unknownCommand)
  BY <1>1, <1>2, <1>3, EmptyReplyFacts
<1>5. /\ 0 \in Nat /\ 0 <= 4096 /\ step # "idle"
      /\ pc # "idle" /\ UNCHANGED message
  BY <1>1, <1>2, <1>3
<1>6. QED
  BY <1>1, <1>2, <1>3, <1>4, <1>5, ReplyInv

LEMMA AnswerInv == ASSUME HandlerInv, Answer PROVE HandlerInv'
<1>1. /\ Returned /\ pc' = "done" /\ UNCHANGED <<message, protocol, fcsVars>>
      /\ succeeded
      /\ response' = prepareResponseMessage(protocol, outBuffer, fcsStatus)
  BY DEF Answer
<1>2. /\ pc = "device" /\ step = "returned"
      /\ protocol' \in Protocol /\ protocol'.header = message.header /\ protocol' = protocol
      /\ fcsStatus \in Int /\ data.status = fcsStatus
      /\ outBuffer \in Nat /\ outBuffer <= 4096
      /\ request.function \in Sized => outBuffer <= RSP_MAX_SZ[request.function]
  BY <1>1, AfterDevice
<1>3. response' = prepareResponseMessage(protocol', outBuffer, fcsStatus)
  BY <1>1, <1>2
<1>4. QED
  BY <1>1, <1>2, <1>3, ReplyInv

LEMMA DisconnectInv == ASSUME HandlerInv, Disconnect PROVE HandlerInv'
<1>1. /\ pc = "device" /\ step = "returned" /\ ~succeeded /\ pc' = "done"
      /\ UNCHANGED <<message, protocol, response, fcsVars>>
  BY DEF Disconnect, Returned
<1>2. HandlerTypeOK' /\ NeverThrows' /\ DeviceReleased'
  BY <1>1 DEF HandlerInv, HandlerTypeOK, FcsTypeOK, fcsVars, NeverThrows, DeviceReleased
<1>3. DeviceSeesValidRequests'
  BY <1>1 DEF HandlerInv, DeviceSeesValidRequests, ValidCall, fcsVars
<1>4. response' = NoReply
  BY <1>1 DEF HandlerInv, InHand
<1>5. RepliesWellFormed' /\ SuccessMeansDone' /\ SilenceMeansFailure' /\ RefusalsDeserved'
  BY <1>1, <1>4 DEF RepliesWellFormed, SuccessMeansDone, SilenceMeansFailure, RefusalsDeserved,
                    fcsVars
<1>6. InHand' /\ DeviceData'
  BY <1>1 DEF HandlerInv, InHand, DeviceData, fcsVars
<1>7. QED
  BY <1>2, <1>3, <1>5, <1>6 DEF HandlerInv

LEMMA StutterInv == ASSUME HandlerInv, UNCHANGED vars PROVE HandlerInv'
BY DEF vars, handlerVars, fcsVars, HandlerInv, HandlerTypeOK, FcsTypeOK, NeverThrows,
   DeviceReleased, DeviceSeesValidRequests, ValidCall, RepliesWellFormed, SuccessMeansDone,
   SilenceMeansFailure, RefusalsDeserved, InHand, DeviceData

-----------------------------------------------------------------------------
(* The invariant holds in every reachable state.                            *)
THEOREM HandlerInvariant == HandlerSpec => []HandlerInv
<1>1. HandlerInit => HandlerInv
  BY HandlerInitInv
<1>2. HandlerInv /\ [HandlerNext]_vars => HandlerInv'
  BY ReceiveInv, ParseInv, ChipIdInv, SigmaTeardownInv, WithPayloadInv, CertificateInv,
     UnknownInv, DeviceInv, UnsupportedInv, DisconnectInv, AnswerInv, ReturnInv, StutterInv
     DEF HandlerNext, Handle
<1>3. QED
  BY <1>1, <1>2, PTL DEF HandlerSpec

(* The object, the reply and the driver's data keep to their types.         *)
THEOREM HandlerTypeCorrect == HandlerSpec => []HandlerTypeOK
<1>1. HandlerInv => HandlerTypeOK
  BY DEF HandlerInv
<1>2. QED
  BY <1>1, HandlerInvariant, PTL

(* No request, of any size, header and words, makes the handler throw: the  *)
(* places marked "should never happen" are not reached.                     *)
THEOREM NeverThrowsCorrect == HandlerSpec => []NeverThrows
<1>1. HandlerInv => NeverThrows
  BY DEF HandlerInv
<1>2. QED
  BY <1>1, HandlerInvariant, PTL

(* The device is never left open, however opening it and the ioctl end.     *)
THEOREM DeviceReleasedCorrect == HandlerSpec => []DeviceReleased
<1>1. HandlerInv => DeviceReleased
  BY DEF HandlerInv
<1>2. QED
  BY <1>1, HandlerInvariant, PTL

(* The device is only ever asked what a well formed message asks for.       *)
THEOREM ValidRequestsCorrect == HandlerSpec => []DeviceSeesValidRequests
<1>1. HandlerInv => DeviceSeesValidRequests
  BY DEF HandlerInv
<1>2. QED
  BY <1>1, HandlerInvariant, PTL

(* Replies echo the request and tell their own size.                        *)
THEOREM WellFormedCorrect == HandlerSpec => []RepliesWellFormed
<1>1. HandlerInv => RepliesWellFormed
  BY DEF HandlerInv
<1>2. QED
  BY <1>1, HandlerInvariant, PTL

(* noError is only said of what the device has done, with a status that is  *)
(* 0 or one the code field cuts to 0: for every int, and no other status.   *)
THEOREM SuccessCorrect == HandlerSpec => []SuccessMeansDone
<1>1. HandlerInv => SuccessMeansDone
  BY DEF HandlerInv
<1>2. QED
  BY <1>1, HandlerInvariant, PTL

(* Only a failure of the device leaves a request without a reply.           *)
THEOREM SilenceCorrect == HandlerSpec => []SilenceMeansFailure
<1>1. HandlerInv => SilenceMeansFailure
  BY DEF HandlerInv
<1>2. QED
  BY <1>1, HandlerInvariant, PTL

(* A request that the device is not asked about is answered, and the code   *)
(* of the reply tells what is wrong with it: no well formed request is      *)
(* refused.                                                                 *)
THEOREM RefusalsCorrect == HandlerSpec => []RefusalsDeserved
<1>1. HandlerInv => RefusalsDeserved
  BY DEF HandlerInv
<1>2. QED
  BY <1>1, HandlerInvariant, PTL

-----------------------------------------------------------------------------
(* Refinement: what the device and the reply say, in RequestService's terms.*)

LEMMA DeviceSays ==
  /\ step # "returned" => DeviceOutcome = Service!Nothing
  /\ step = "returned" /\ ~succeeded => DeviceOutcome = Service!Silence
  /\ step = "returned" /\ succeeded => DeviceOutcome = Service!Said(data.status, outBuffer)
BY DEF DeviceOutcome, CarriedOut, Service!Nothing, Service!Silence, Service!Said

LEMMA ReplySays ==
  /\ pc # "done" => ReplyOutcome = Service!Nothing
  /\ pc = "done" /\ response = NoReply => ReplyOutcome = Service!Silence
  /\ pc = "done" /\ response # NoReply =>
       ReplyOutcome = Service!Said(response.header.code, response.payload)
BY DEF ReplyOutcome, Replied, Service!Nothing, Service!Silence, Service!Said

LEMMA OutcomesDiffer ==
  /\ Service!Nothing # Service!Silence
  /\ \A code, size : /\ Service!Said(code, size) # Service!Nothing
                     /\ Service!Said(code, size).kind = "said"
                     /\ Service!Said(code, size).code = code
                     /\ Service!Said(code, size).size = size
BY DEF Service!Nothing, Service!Silence, Service!Said

(* The device is being asked: nothing is wrong with the message.            *)
LEMMA NothingWrong ==
  ASSUME HandlerInv, pc = "device"
  PROVE  \A code \in ErrorCode : ~Refusal(message, code)
<1>1. /\ message.size = getRequiredSize + WORD_SIZE * message.header.length
      /\ ValidCall(request, message)
  BY DEF HandlerInv, InHand, DeviceSeesValidRequests
<1>2. /\ message.header.code \in Known
      /\ message.header.code = sigmaTeardown => message.body[2] = SIGMA_TEARDOWN_MAGIC
  BY <1>1
     DEF ValidCall, Known, sigmaTeardown, getChipId, getAttestationCertificate,
         createAttestationSubKey, getMeasurement, mctp, getIdCode, getDeviceIdentity
<1>3. RightLength(message.header)
  BY <1>1
     DEF ValidCall, RightLength, sigmaTeardown, getChipId, getAttestationCertificate,
         createAttestationSubKey, getMeasurement, mctp, getIdCode, getDeviceIdentity
<1>4. QED
  BY <1>1, <1>2, <1>3 DEF Refusal, WellSized

(* What a reply prepared from a status and a response says.                 *)
LEMMA PreparedSays ==
  ASSUME NEW p \in Protocol, NEW size \in Nat, size <= 4096, NEW code \in Int
  PROVE  LET r == prepareResponseMessage(p, size, code)
         IN /\ r # NoReply
            /\ size % WORD_SIZE = 0 =>
                 r.header.code = code % CodeRange /\ r.payload = size
            /\ size % WORD_SIZE # 0 =>
                 r.header.code = genericError /\ r.payload = 0
<1>1. prepareResponseMessage(p, size, code) # NoReply
  <2>1. ReplyTo(p, size, code, prepareResponseMessage(p, size, code))
    BY ReplyFacts
  <2>2. QED
    BY <2>1, HandlerAssumption DEF ReplyTo, HandlerAssumption
<1>2. genericError % CodeRange = genericError
  BY ErrorCodes
<1>3. QED
  BY <1>1, <1>2 DEF prepareResponseMessage, prepareEmptyResponseMessage, reply

-----------------------------------------------------------------------------
(* Every step of the handler is a step of the service, or none.             *)

\* Steps that the service does not see.
LEMMA ServiceStutter ==
  ASSUME UNCHANGED message, pc # "done", pc' # "done",
         UNCHANGED <<step, succeeded, data, outBuffer>> \/ (step # "returned" /\ step' # "returned")
  PROVE  UNCHANGED Service!serviceVars
<1>1. ReplyOutcome' = ReplyOutcome
  BY DEF ReplyOutcome, Replied
<1>2. DeviceOutcome' = DeviceOutcome
  BY DEF DeviceOutcome, CarriedOut
<1>3. QED
  BY <1>1, <1>2 DEF Service!serviceVars

\* A refusal, whichever step decides on it.
LEMMA ServiceRefuse ==
  ASSUME HandlerInv, HandlerInv', pc \in {"parse", "dispatch"}, pc' = "done",
         UNCHANGED <<message, fcsVars>>, response'.payload = 0
  PROVE  Service!ServiceNext
<1> DEFINE code == response'.header.code
<1>1. step = "idle" /\ step' = "idle" /\ message # NoMessage
  BY HandlerAssumption DEF HandlerInv, InHand, fcsVars, HandlerAssumption
<1>2. response' # NoReply /\ Refusal(message, code)
  BY <1>1 DEF HandlerInv, RefusalsDeserved
<1>3. code \in ErrorCode
  BY <1>2 DEF Refusal, ErrorCode
<1>4. DeviceOutcome = Service!Nothing /\ DeviceOutcome' = DeviceOutcome
  BY <1>1 DEF DeviceOutcome, CarriedOut, Service!Nothing
<1>5. ReplyOutcome = Service!Nothing
  BY ReplySays
<1>6. ReplyOutcome' = Service!Said(code, 0)
  BY <1>2 DEF ReplyOutcome, Replied, Service!Said
<1> HIDE DEF code
<1>7. Service!Refuse(code)
  BY <1>1, <1>2, <1>4, <1>5, <1>6 DEF Service!Refuse, Service!Unanswered
<1>8. QED
  BY <1>3, <1>7 DEF Service!ServiceNext

LEMMA ServiceParse == ASSUME HandlerInv, HandlerInv', Parse PROVE [Service!ServiceNext]_Service!serviceVars
<1>1. /\ pc = "parse" /\ UNCHANGED <<message, fcsVars>>
      /\ pc' \in {"thrown", "dispatch"} \/
           (pc' = "done" /\ response' = prepareResponseMessage(protocol', 0, protocol'.errorCode))
  BY DEF Parse
<1>2. CASE pc' \in {"thrown", "dispatch"}
  BY <1>1, <1>2, ServiceStutter DEF fcsVars
<1>3. CASE pc' = "done" /\ response' = prepareResponseMessage(protocol', 0, protocol'.errorCode)
  <2>1. response'.payload = 0
    BY <1>3 DEF prepareResponseMessage, prepareEmptyResponseMessage, reply
  <2>2. QED
    BY <1>1, <1>3, <2>1, ServiceRefuse
<1>4. QED
  BY <1>1, <1>2, <1>3

LEMMA ServiceUnknown == ASSUME HandlerInv, HandlerInv', Unknown PROVE Service!ServiceNext
<1>1. /\ pc = "dispatch" /\ pc' = "done" /\ UNCHANGED <<message, fcsVars>>
      /\ response'.payload = 0
  BY DEF Unknown, prepareEmptyResponseMessage, reply
<1>2. QED
  BY <1>1, ServiceRefuse

LEMMA ServiceCall ==
  ASSUME HandlerInv, CallChipId \/ CallSigmaTeardown \/ CallWithPayload \/ CallCertificate
  PROVE  UNCHANGED Service!serviceVars
<1>1. /\ pc = "dispatch" /\ pc' \in {"device", "thrown"} /\ UNCHANGED message
      /\ UNCHANGED fcsVars \/ step' = "open"
  BY DEF CallChipId, CallSigmaTeardown, CallWithPayload, CallCertificate, Command, Call
<1>2. step = "idle"
  BY <1>1 DEF HandlerInv, InHand
<1>3. QED
  BY <1>1, <1>2, ServiceStutter DEF fcsVars

\* The device's answer, or that there is none.
LEMMA ServiceAsk ==
  ASSUME HandlerInv, pc = "device", UNCHANGED handlerVars, step # "returned",
         step' = "returned",
         \/ ~succeeded'
         \/ succeeded' /\ data'.status \in Statuses /\ outBuffer' \in 0 .. 4096
  PROVE  Service!ServiceNext
<1>1. message # NoMessage /\ UNCHANGED <<pc, message, response>>
  BY HandlerAssumption DEF HandlerInv, InHand, HandlerAssumption, handlerVars
<1>2. /\ DeviceOutcome = Service!Nothing
      /\ ReplyOutcome = Service!Nothing
      /\ ReplyOutcome' = ReplyOutcome
  BY <1>1, DeviceSays, ReplySays DEF ReplyOutcome, Replied
<1>3. DeviceOutcome' \in {Service!Silence}
                          \cup [kind : {"said"}, code : Statuses, size : 0 .. 4096]
  BY DEF DeviceOutcome, CarriedOut, Service!Silence
<1>4. Service!AskDevice
  BY <1>1, <1>2, <1>3, NothingWrong DEF Service!AskDevice, Service!Unanswered
<1>5. QED
  BY <1>4 DEF Service!ServiceNext

LEMMA ServiceDevice ==
  ASSUME HandlerInv, HandlerInv', Device
  PROVE  [Service!ServiceNext]_Service!serviceVars
<1>1. pc = "device" /\ UNCHANGED handlerVars /\ FcsNext /\ (succeeded => step = "returned")
  BY DEF Device, HandlerInv, DeviceData
<1>2. CASE Open
  BY <1>1, <1>2, ServiceStutter DEF Open, handlerVars
<1>3. CASE OpenFails \/ IoctlFails
  <2>1. step # "returned" /\ step' = "returned" /\ ~succeeded'
    BY <1>1, <1>3 DEF OpenFails, IoctlFails
  <2>2. QED
    BY <1>1, <2>1, ServiceAsk
<1>4. ASSUME NEW s \in Statuses, NEW n \in RspSizes, Ioctl(s, n)
      PROVE  Service!ServiceNext
  <2>1. step # "returned" /\ step' = "returned" /\ data'.status = s
    BY <1>4 DEF Ioctl
  <2>2. CASE ~succeeded'
    BY <1>1, <2>1, <2>2, ServiceAsk
  <2>3. CASE succeeded'
    <3>1. outBuffer' \in Nat /\ outBuffer' <= 4096
      BY <2>3 DEF HandlerInv, HandlerTypeOK, FcsTypeOK, DeviceData
    <3>2. outBuffer' \in 0 .. 4096
      BY <3>1
    <3>3. QED
      BY <1>1, <2>1, <2>3, <3>2, ServiceAsk
  <2>4. QED
    BY <2>2, <2>3
<1>5. QED
  BY <1>1, <1>2, <1>3, <1>4 DEF FcsNext

\* The steps after the device.
LEMMA AfterOutcomes ==
  ASSUME HandlerInv, Returned, pc' = "done", UNCHANGED <<message, fcsVars>>
  PROVE  /\ Service!Unanswered
         /\ UNCHANGED <<message, DeviceOutcome>>
         /\ IsCertificate <=> message \in Certificates
         /\ ~succeeded => DeviceOutcome = Service!Silence
         /\ succeeded => DeviceOutcome = Service!Said(fcsStatus, outBuffer)
<1>1. /\ pc = "device" /\ step = "returned" /\ protocol.header = message.header
      /\ message \in Requests /\ message # NoMessage
      /\ succeeded => data.status = fcsStatus
  BY AfterDevice, HandlerAssumption DEF HandlerInv, InHand, HandlerAssumption
<1>2. Service!Unanswered
  BY <1>1, ReplySays DEF Service!Unanswered
<1>3. DeviceOutcome' = DeviceOutcome
  BY DEF DeviceOutcome, CarriedOut, fcsVars
<1>4. IsCertificate <=> message \in Certificates
  BY <1>1 DEF IsCertificate, Certificates, getCommandCode
<1>5. QED
  BY <1>1, <1>2, <1>3, <1>4, DeviceSays

LEMMA ServiceUnsupported ==
  ASSUME HandlerInv, CertificateUnsupported
  PROVE  Service!ServiceNext
<1>1. /\ Returned /\ pc' = "done" /\ UNCHANGED <<message, protocol, fcsVars>>
      /\ response' = prepareEmptyResponseMessage(protocol, unknownCommand)
      /\ IsCertificate /\ MayBeMinusOne
  BY DEF CertificateUnsupported
<1>2. protocol \in Protocol
  BY <1>1, AfterDevice
<1>3. unknownCommand \in Int /\ unknownCommand % CodeRange = unknownCommand
  BY ErrorCodes
<1>4. response' = prepareResponseMessage(protocol, 0, unknownCommand)
  BY <1>1, <1>2, <1>3, EmptyReplyFacts
<1>5. /\ response' # NoReply /\ response'.payload = 0
      /\ response'.header.code = unknownCommand
  <2>1. 0 \in Nat /\ 0 <= 4096 /\ 0 % WORD_SIZE = 0
    BY DEF WORD_SIZE
  <2>2. QED
    BY <1>2, <1>3, <1>4, <2>1, PreparedSays
<1>6. ReplyOutcome' = Service!Said(unknownCommand, 0)
  BY <1>1, <1>5 DEF ReplyOutcome, Replied, Service!Said
<1>7. succeeded => fcsStatus = -1
  BY <1>1, FcsAssumption DEF MayBeMinusOne, HandlerInv, DeviceData, FcsAssumption
<1>8. \/ DeviceOutcome = Service!Silence
      \/ DeviceOutcome.kind = "said" /\ DeviceOutcome.code = -1
  BY <1>1, <1>7, AfterOutcomes, OutcomesDiffer
<1>9. Service!Unsupported
  BY <1>1, <1>6, <1>8, AfterOutcomes DEF Service!Unsupported
<1>10. QED
  BY <1>9 DEF Service!ServiceNext

LEMMA ServiceHangUp == ASSUME HandlerInv, Disconnect PROVE Service!ServiceNext
<1>1. /\ Returned /\ ~succeeded /\ pc' = "done"
      /\ UNCHANGED <<message, protocol, response, fcsVars>>
  BY DEF Disconnect
<1>2. response' = NoReply
  BY <1>1 DEF HandlerInv, InHand, Returned
<1>3. ReplyOutcome' = Service!Silence
  BY <1>1, <1>2 DEF ReplyOutcome, Replied, Service!Silence
<1>4. Service!HangUp
  BY <1>1, <1>3, AfterOutcomes DEF Service!HangUp
<1>5. QED
  BY <1>4 DEF Service!ServiceNext

LEMMA ServicePassOn == ASSUME HandlerInv, Answer PROVE Service!ServiceNext
<1>1. /\ Returned /\ succeeded /\ pc' = "done" /\ UNCHANGED <<message, protocol, fcsVars>>
      /\ response' = prepareResponseMessage(protocol, outBuffer, fcsStatus)
      /\ IsCertificate => fcsStatus # -1
  BY DEF Answer
<1>2. /\ protocol \in Protocol /\ fcsStatus \in Int
      /\ outBuffer \in Nat /\ outBuffer <= 4096
  BY <1>1, AfterDevice
<1>3. /\ response' # NoReply
      /\ outBuffer % WORD_SIZE = 0 =>
           response'.header.code = fcsStatus % CodeRange /\ response'.payload = outBuffer
      /\ outBuffer % WORD_SIZE # 0 =>
           response'.header.code = genericError /\ response'.payload = 0
  BY <1>1, <1>2, PreparedSays
<1>4. ReplyOutcome' = IF outBuffer % WORD_SIZE = 0
                      THEN Service!Said(fcsStatus % CodeRange, outBuffer)
                      ELSE Service!Said(genericError, 0)
  BY <1>1, <1>3 DEF ReplyOutcome, Replied, Service!Said
<1>5. /\ DeviceOutcome.kind = "said" /\ DeviceOutcome.code = fcsStatus
      /\ DeviceOutcome.size = outBuffer
  BY <1>1, AfterOutcomes, OutcomesDiffer
<1>6. Service!PassOn
  BY <1>1, <1>4, <1>5, AfterOutcomes DEF Service!PassOn
<1>7. QED
  BY <1>6 DEF Service!ServiceNext

LEMMA ServiceReceive ==
  ASSUME HandlerInv, NEW m \in Requests, Receive(m)
  PROVE  Service!ServiceNext
<1>1. /\ message = NoMessage /\ message' = m
      /\ ReplyOutcome' = ReplyOutcome /\ DeviceOutcome' = DeviceOutcome
  BY DEF Receive, HandlerInv, InHand, ReplyOutcome, Replied, DeviceOutcome, CarriedOut, fcsVars
<1>2. Service!Receive(m)
  BY <1>1 DEF Service!Receive
<1>3. QED
  BY <1>2 DEF Service!ServiceNext

LEMMA ServiceReturn == ASSUME Return PROVE Service!ServiceNext
<1>1. /\ message' = NoMessage
      /\ ReplyOutcome' = Service!Nothing /\ DeviceOutcome' = Service!Nothing
  BY DEF Return, Forget, ReplyOutcome, Replied, DeviceOutcome, CarriedOut, Service!Nothing
<1>2. ReplyOutcome # Service!Nothing
  BY DEF Return, ReplyOutcome, Service!Nothing
<1>3. QED
  BY <1>1, <1>2 DEF Service!Return, Service!ServiceNext

LEMMA ServiceStep ==
  ASSUME HandlerInv, HandlerInv', [HandlerNext]_vars
  PROVE  [Service!ServiceNext]_Service!serviceVars
<1>1. CASE UNCHANGED vars
  BY <1>1 DEF vars, handlerVars, fcsVars, Service!serviceVars, ReplyOutcome, Replied,
              DeviceOutcome, CarriedOut
<1>2. CASE HandlerNext
  BY <1>2, ServiceReceive, ServiceParse, ServiceCall, ServiceUnknown, ServiceDevice,
     ServiceUnsupported, ServiceHangUp, ServicePassOn, ServiceReturn DEF HandlerNext, Handle
<1>3. QED
  BY <1>1, <1>2

LEMMA ServiceInitially == HandlerInit => Service!ServiceInit
BY DEF HandlerInit, FcsInit, Service!ServiceInit, Service!Nothing, ReplyOutcome, Replied,
       DeviceOutcome, CarriedOut

(* The handler implements RequestService: whatever arrives and whatever the *)
(* driver does, a request reaches the device once at most and only when     *)
(* nothing is wrong with it, and the answer is what the device has said.    *)
THEOREM ServiceImplemented == HandlerSpec => ImplementsService
  BY ServiceInitially, ServiceStep, HandlerInvariant, PTL
     DEF HandlerSpec, ImplementsService, Service!ServiceSpec

=============================================================================
