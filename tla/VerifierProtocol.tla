-------------------------- MODULE VerifierProtocol --------------------------
(***************************************************************************)
(* Validating a request and preparing a reply                              *)
(* (FCSFilter/src/VerifierProtocol.{h,cpp}).                               *)
(*                                                                         *)
(* A message is its size in bytes, its header and the whole words behind   *)
(* the header; the content of its last size % 4 bytes is never looked at.  *)
(* The object is a record: what parseMessage leaves in its members.        *)
(***************************************************************************)
EXTENDS CommandHeader, Sequences

CONSTANTS
  SIGMA_TEARDOWN_MAGIC,   \* 0xb852e2a4
  NoProtocol              \* parseMessage has thrown

ASSUME ProtocolAssumption == SIGMA_TEARDOWN_MAGIC \in Nat

WORD_SIZE == 4
RESERVED_BYTES_COUNT == 4
SIGMA_TEARDOWN_SESSIONID_OFFSET == 4
RequestMaskRange == 256   \* GET_ATT_CERT_CERTIFICATE_REQUEST_MASK + 1
getRequiredSize == 4      \* CommandHeader::getRequiredSize()

\* enum CommandCode
getIdCode == 16
getChipId == 18
sigmaTeardown == 213
getAttestationCertificate == 385
createAttestationSubKey == 386
getMeasurement == 387
mctp == 404
getDeviceIdentity == 1280

\* enum ErrorCode
noError == 0
genericError == 1
unknownCommand == 3
invalidHeader == 4
invalidMagic == 128
ErrorCode == {noError, genericError, unknownCommand, invalidHeader, invalidMagic}

\* Fault: the reserved word counts as payload.
payloadSizeMapReserved ==
  { <<sigmaTeardown, 12>>, <<getAttestationCertificate, 4>>, <<getChipId, 0>>,
    <<getDeviceIdentity, 0>>, <<getIdCode, 0>> }

\* Payload sizes that are fixed; the other commands take any.
payloadSizeMap ==
  { <<sigmaTeardown, 8>>, <<getAttestationCertificate, 4>>, <<getChipId, 0>>,
    <<getDeviceIdentity, 0>>, <<getIdCode, 0>> }

\* Whole words behind the header in a message of n bytes.
WordsBehindHeader(n) == IF n < getRequiredSize THEN 0 ELSE (n - getRequiredSize) \div WORD_SIZE

Message(n, headers, words) ==
  [size : {n}, header : headers, body : [1 .. WordsBehindHeader(n) -> words]]

-----------------------------------------------------------------------------
(* Requests.                                                                *)

getPayloadOffset(header) ==
  getRequiredSize
    + IF header.code \in {sigmaTeardown, createAttestationSubKey, getMeasurement}
      THEN RESERVED_BYTES_COUNT ELSE 0

\* incomingPayload: the bytes from the offset on.
payloadFrom(message, offset) ==
  [size |-> message.size - offset,
   words |-> SubSeq(message.body, ((offset - 4) \div WORD_SIZE) + 1, Len(message.body))]

noPayload == [size |-> 0, words |-> <<>>]

\* decodeFromLittleEndianBuffer on a payload: throws without a whole word.
decodeThrows(payload, offset) == payload.size < offset + WORD_SIZE
decode(payload, offset) == payload.words[(offset \div WORD_SIZE) + 1]

\* Fault: a command is only looked up, its size not compared.
isPayloadSizeKnown(header, payload) == TRUE

isPayloadSizeCorrect(header, payload) ==
  \A entry \in payloadSizeMap : entry[1] = header.code => entry[2] = payload.size

isMagicWordCorrect(header, payload) ==
  header.code = sigmaTeardown => decode(payload, 0) = SIGMA_TEARDOWN_MAGIC

magicWordThrows(header, payload) ==
  header.code = sigmaTeardown /\ decodeThrows(payload, 0)

parsed(ok, header, payload, errorCode) ==
  [ok |-> ok, header |-> header, payload |-> payload, errorCode |-> errorCode]

\* Fault: the data behind the header is not compared with the length field.
parseMessageAnyLength(message) ==
  IF message.size < getRequiredSize
  THEN parsed(FALSE, EmptyHeader, noPayload, invalidHeader)
  ELSE
    LET offset == getPayloadOffset(message.header)
        payload == payloadFrom(message, offset)
    IN IF message.size < offset
       THEN parsed(FALSE, message.header, noPayload, invalidHeader)
       ELSE IF ~isPayloadSizeCorrect(message.header, payload)
       THEN parsed(FALSE, message.header, payload, invalidHeader)
       ELSE IF ~isMagicWordCorrect(message.header, payload)
       THEN parsed(FALSE, message.header, payload, invalidMagic)
       ELSE parsed(TRUE, message.header, payload, noError)

\* The checks in the order of the code: the payload's size before its magic.
parseMessage(message) ==
  IF message.size < getRequiredSize
  THEN parsed(FALSE, EmptyHeader, noPayload, invalidHeader)
  ELSE
    LET header == message.header
        offset == getPayloadOffset(header)
        payload == payloadFrom(message, offset)
    IN IF \/ message.size - getRequiredSize # header.length * WORD_SIZE
          \/ message.size < offset
       THEN parsed(FALSE, header, noPayload, invalidHeader)
       ELSE IF ~isPayloadSizeCorrect(header, payload)
       THEN parsed(FALSE, header, payload, invalidHeader)
       ELSE IF magicWordThrows(header, payload)
       THEN NoProtocol
       ELSE IF ~isMagicWordCorrect(header, payload)
       THEN parsed(FALSE, header, payload, invalidMagic)
       ELSE parsed(TRUE, header, payload, noError)

getCommandCode(protocol) == protocol.header.code

sessionIdThrows(protocol) ==
  getCommandCode(protocol) # sigmaTeardown \/ protocol.payload.size < 8
getSigmaTeardownSessionId(protocol) ==
  decode(protocol.payload, SIGMA_TEARDOWN_SESSIONID_OFFSET)

certificateRequestThrows(protocol) ==
  getCommandCode(protocol) # getAttestationCertificate \/ protocol.payload.size < 4
getCertificateRequest(protocol) == decode(protocol.payload, 0) % RequestMaskRange

-----------------------------------------------------------------------------
(* Replies: a header, whose fields are cut to their ranges by the encoding, *)
(* and a payload of some size.                                              *)

\* Fault: the return code is not cut to its eleven bits.
replyUncut(protocol, size, returnCode) ==
  [header |->
     [client |-> protocol.header.client, id |-> protocol.header.id,
      res1 |-> 0, length |-> (size \div WORD_SIZE) % LengthRange,
      res2 |-> 0, code |-> returnCode],
   payload |-> size]

reply(protocol, size, returnCode) ==
  [header |->
     [client |-> protocol.header.client, id |-> protocol.header.id,
      res1 |-> 0, length |-> (size \div WORD_SIZE) % LengthRange,
      res2 |-> 0, code |-> returnCode % CodeRange],
   payload |-> size]

prepareEmptyResponseMessage(protocol, returnCode) == reply(protocol, 0, returnCode)

\* Fault: the size is rounded down instead of refused.
prepareRoundedResponse(protocol, size, returnCode) == reply(protocol, size, returnCode)

prepareResponseMessage(protocol, size, returnCode) ==
  IF size % WORD_SIZE # 0
  THEN prepareEmptyResponseMessage(protocol, genericError)
  ELSE reply(protocol, size, returnCode)

=============================================================================
