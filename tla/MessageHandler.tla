--------------------------- MODULE MessageHandler ---------------------------
(***************************************************************************)
(* handleIncomingMessage (FCSFilter/src/MessageHandler.cpp): a request is  *)
(* parsed, dispatched on its command code, handed to the driver and        *)
(* answered; the server behind it closes the connection when there is no   *)
(* reply.  One request follows the other; only deviceFds lives on.         *)
(***************************************************************************)
EXTENDS VerifierProtocol, FcsCommunication

CONSTANTS
  Requests,    \* messages a client may send
  NoMessage,   \* between two calls
  NoReply      \* the response buffer is left empty

VARIABLES
  pc,          \* "idle", "parse", "dispatch", "device", "done" or "thrown"
  message,     \* messageBuffer
  protocol,    \* verifierProtocol
  response     \* responseBuffer

handlerVars == <<pc, message, protocol, response>>
vars == <<handlerVars, fcsVars>>

IsRequest(m) ==
  /\ m \in [size : Nat, header : Header, body : Seq(Nat)]
  /\ Len(m.body) = WordsBehindHeader(m.size)

Reply == [header : Header, payload : Nat]
Protocol ==
  [ok : BOOLEAN, header : Header, payload : [size : Nat, words : Seq(Nat)],
   errorCode : ErrorCode]

\* The largest response fits the length field and the largest request the sizes
\* of the mailbox.  A status is any int: the code field may cut it.
ASSUME HandlerAssumption ==
  /\ \A m \in Requests : IsRequest(m)
  /\ NoMessage \notin Requests
  /\ NoReply \notin Reply
  /\ NoProtocol \notin Protocol
  /\ LengthRange > 1024 /\ LengthRange * WORD_SIZE <= MailboxSizeRange
  /\ CodeRange > invalidMagic

HandlerTypeOK ==
  /\ pc \in {"idle", "parse", "dispatch", "device", "done", "thrown"}
  /\ message \in Requests \cup {NoMessage}
  /\ protocol \in Protocol \cup {NoProtocol}
  /\ response \in Reply \cup {NoReply}
  /\ FcsTypeOK

HandlerInit ==
  /\ pc = "idle"
  /\ message = NoMessage
  /\ protocol = NoProtocol
  /\ response = NoReply
  /\ FcsInit

Receive(m) ==
  /\ pc = "idle"
  /\ pc' = "parse"
  /\ message' = m
  /\ UNCHANGED <<protocol, response, fcsVars>>

\* handleIncomingMessage returns: its variables are gone, the reply is the server's.
Return ==
  /\ pc = "done"
  /\ pc' = "idle"
  /\ message' = NoMessage
  /\ protocol' = NoProtocol
  /\ response' = NoReply
  /\ Forget

Parse ==
  /\ pc = "parse"
  /\ protocol' = parseMessage(message)
  /\ IF protocol' = NoProtocol
     THEN pc' = "thrown" /\ UNCHANGED response
     ELSE IF protocol'.ok
     THEN pc' = "dispatch" /\ UNCHANGED response
     ELSE /\ pc' = "done"
          /\ response' = prepareResponseMessage(protocol', 0, protocol'.errorCode)
  /\ UNCHANGED <<message, fcsVars>>

-----------------------------------------------------------------------------
(* The switch over the command code.                                        *)

Command(codes) == pc = "dispatch" /\ getCommandCode(protocol) \in codes

CallChipId ==
  /\ Command({getChipId})
  /\ Call("getChipId", 0, <<>>, 0)
  /\ pc' = "device"
  /\ UNCHANGED <<message, protocol, response>>

CallSigmaTeardown ==
  /\ Command({sigmaTeardown})
  /\ IF sessionIdThrows(protocol)
     THEN pc' = "thrown" /\ UNCHANGED fcsVars
     ELSE /\ pc' = "device"
          /\ Call("sigmaTeardown", 0, <<getSigmaTeardownSessionId(protocol)>>, WORD_SIZE)
  /\ UNCHANGED <<message, protocol, response>>

CallWithPayload ==
  /\ \/ /\ Command({createAttestationSubKey})
        /\ Call("createAttestationSubkey", 0, protocol.payload.words, protocol.payload.size)
     \/ /\ Command({getMeasurement})
        /\ Call("getMeasurement", 0, protocol.payload.words, protocol.payload.size)
     \/ /\ Command({mctp, getIdCode, getDeviceIdentity})
        /\ Call("mailboxGeneric", getCommandCode(protocol),
                protocol.payload.words, protocol.payload.size)
  /\ pc' = "device"
  /\ UNCHANGED <<message, protocol, response>>

CallCertificate ==
  /\ Command({getAttestationCertificate})
  /\ IF certificateRequestThrows(protocol)
     THEN pc' = "thrown" /\ UNCHANGED fcsVars
     ELSE /\ pc' = "device"
          /\ Call("getAttestationCertificate", 0, <<getCertificateRequest(protocol)>>, WORD_SIZE)
  /\ UNCHANGED <<message, protocol, response>>

Known ==
  {getChipId, sigmaTeardown, createAttestationSubKey, getMeasurement,
   getAttestationCertificate, mctp, getIdCode, getDeviceIdentity}

\* Fault: a command nobody knows is not answered.
IgnoreUnknown ==
  /\ pc = "dispatch" /\ getCommandCode(protocol) \notin Known
  /\ pc' = "done"
  /\ UNCHANGED <<message, protocol, response, fcsVars>>

Unknown ==
  /\ pc = "dispatch" /\ getCommandCode(protocol) \notin Known
  /\ pc' = "done"
  /\ response' = prepareEmptyResponseMessage(protocol, unknownCommand)
  /\ UNCHANGED <<message, protocol, fcsVars>>

-----------------------------------------------------------------------------
(* Inside FcsCommunication, and after it.                                   *)

Device == pc = "device" /\ FcsNext /\ UNCHANGED handlerVars

Returned == pc = "device" /\ step = "returned"

\* statusReturnedFromFcs is compared with -1 also when nothing was assigned to
\* it: it then holds whatever was on the stack.
MayBeMinusOne == fcsStatus \in {-1, Unset}
IsCertificate == getCommandCode(protocol) = getAttestationCertificate

CertificateUnsupported ==
  /\ Returned
  /\ IsCertificate /\ MayBeMinusOne
  /\ pc' = "done"
  /\ response' = prepareEmptyResponseMessage(protocol, unknownCommand)
  /\ UNCHANGED <<message, protocol, fcsVars>>

\* No message is prepared: the server disconnects.
Disconnect ==
  /\ Returned
  /\ ~succeeded
  /\ IsCertificate => fcsStatus # -1
  /\ pc' = "done"
  /\ UNCHANGED <<message, protocol, response, fcsVars>>

\* Fault: the response is left out.
AnswerEmpty ==
  /\ Returned
  /\ succeeded
  /\ IsCertificate => fcsStatus # -1
  /\ pc' = "done"
  /\ response' = prepareEmptyResponseMessage(protocol, fcsStatus)
  /\ UNCHANGED <<message, protocol, fcsVars>>

Answer ==
  /\ Returned
  /\ succeeded
  /\ IsCertificate => fcsStatus # -1
  /\ pc' = "done"
  /\ response' = prepareResponseMessage(protocol, outBuffer, fcsStatus)
  /\ UNCHANGED <<message, protocol, fcsVars>>

\* Inside handleIncomingMessage.
Handle ==
  \/ Parse
  \/ CallChipId \/ CallSigmaTeardown \/ CallWithPayload \/ CallCertificate \/ Unknown
  \/ Device
  \/ CertificateUnsupported \/ Disconnect \/ Answer

HandlerNext == (\E m \in Requests : Receive(m)) \/ Handle \/ Return

HandlerSpec == HandlerInit /\ [][HandlerNext]_vars

-----------------------------------------------------------------------------
(* Correctness.                                                             *)

(* "should never happen" (VerifierProtocol.cpp:174, 180, 191, 197): no      *)
(* request makes the handler throw, neither where it reads a word of the    *)
(* payload nor in these two functions.  An exception ends the server.       *)
NeverThrows == pc # "thrown"

(* sendIoctl closes the device on every path: over any number of requests   *)
(* the process holds it only while it is inside the ioctl.                  *)
DeviceReleased == deviceFds = IF pc = "device" /\ step = "ioctl" THEN 1 ELSE 0

(* What each function may be called for, by the place of the words in the   *)
(* message: length in words, code, and what the driver is given.            *)
ValidCall(r, m) ==
  LET n == m.header.length
      b == m.body
      passed == [k \in 1 .. n - 1 |-> b[k + 1]]
  IN \/ r.function = "getChipId" /\ m.header.code = getChipId /\ n = 0
     \/ /\ r.function = "sigmaTeardown" /\ m.header.code = sigmaTeardown /\ n = 3
        /\ b[2] = SIGMA_TEARDOWN_MAGIC
        /\ r.words = <<b[3]>>
     \/ /\ r.function = "getAttestationCertificate"
        /\ m.header.code = getAttestationCertificate /\ n = 1
        /\ r.words = <<b[1] % RequestMaskRange>>
     \/ /\ r.function = "createAttestationSubkey"
        /\ m.header.code = createAttestationSubKey /\ n >= 1
        /\ r.words = passed
     \/ /\ r.function = "getMeasurement" /\ m.header.code = getMeasurement /\ n >= 1
        /\ r.words = passed
     \/ /\ r.function = "mailboxGeneric"
        /\ m.header.code \in {mctp, getIdCode, getDeviceIdentity}
        /\ m.header.code # mctp => n = 0
        /\ r.mbox_cmd = m.header.code
        /\ r.words = b

(* Only a complete and well formed message reaches the device, whatever a   *)
(* stream cut anywhere has put in the message buffer, and the device gets   *)
(* exactly the words of that message (VerifierProtocolUT tests the parts).  *)
DeviceSeesValidRequests ==
  step # "idle" =>
    /\ message.size = getRequiredSize + WORD_SIZE * message.header.length
    /\ ValidCall(request, message)
    /\ request.cmd_data_sz = WORD_SIZE * Len(request.words)

\* How many words belong behind a header.
RightLength(h) ==
  /\ h.code \in {getChipId, getIdCode, getDeviceIdentity} => h.length = 0
  /\ h.code = getAttestationCertificate => h.length = 1
  /\ h.code = sigmaTeardown => h.length = 3
  /\ h.code \in {createAttestationSubKey, getMeasurement} => h.length >= 1

WellSized(m) ==
  m.size = getRequiredSize + WORD_SIZE * m.header.length /\ RightLength(m.header)

\* What is wrong with a message, and the code that says so.
Refusal(m, code) ==
  \/ code = invalidHeader /\ ~WellSized(m)
  \/ /\ code = invalidMagic /\ WellSized(m)
     /\ m.header.code = sigmaTeardown /\ m.body[2] # SIGMA_TEARDOWN_MAGIC
  \/ code = unknownCommand /\ WellSized(m) /\ m.header.code \notin Known

(* The other way round: a message that the device is not asked about has    *)
(* something wrong with it, and the reply says what.  No well formed        *)
(* request is refused.                                                      *)
RefusalsDeserved ==
  pc = "done" /\ step = "idle" =>
    response # NoReply /\ Refusal(message, response.header.code)

(* A verifier can find its request and the end of the reply: client and id  *)
(* are those of the request, reserved bits are zero, and the length field   *)
(* tells the size by the rule parseMessage itself applies.                  *)
RepliesWellFormed ==
  pc = "done" /\ response # NoReply =>
    /\ message.size >= getRequiredSize =>
         /\ response.header.client = message.header.client
         /\ response.header.id = message.header.id
    /\ response.header.res1 = 0 /\ response.header.res2 = 0
    /\ response.payload = WORD_SIZE * response.header.length

(* A reply that says noError stands for a request the device has carried    *)
(* out, and its status was 0 in the bits the code field keeps: a status     *)
(* that is a multiple of CodeRange is answered noError as well              *)
(* (VerifierProtocol.cpp:148).  It carries no more than the buffer the      *)
(* device was given could hold.                                             *)
SuccessMeansDone ==
  pc = "done" /\ response # NoReply /\ response.header.code = noError =>
    /\ step = "returned" /\ succeeded /\ data.status % CodeRange = 0
    /\ request.function \in Sized => response.payload <= RSP_MAX_SZ[request.function]

(* The client is cut off only when the device could not be asked: a request *)
(* that is malformed or unknown is always answered.                         *)
SilenceMeansFailure ==
  pc = "done" /\ response = NoReply =>
    step = "returned" /\ ~succeeded

(* "don't prepare any message, server should disconnect"                    *)
(* (MessageHandler.cpp:125): a call that failed is not answered.            *)
FailureIsSilent == pc = "done" /\ step = "returned" /\ ~succeeded => response = NoReply

(* "Certificate request field consists of last 5 bits in word. The rest is  *)
(* reserved" (VerifierProtocol.h:46).                                       *)
CertificateRequestFiveBits ==
  request.function = "getAttestationCertificate" => request.words[1] < 32

-----------------------------------------------------------------------------
(* The handler implements RequestService.                                   *)

Certificates == {m \in Requests : m.header.code = getAttestationCertificate}

CarriedOut == step = "returned" /\ succeeded
Replied == pc = "done" /\ response # NoReply

DeviceOutcome ==
  [kind |-> IF step # "returned" THEN "nothing" ELSE IF succeeded THEN "said" ELSE "silence",
   code |-> IF CarriedOut THEN data.status ELSE 0,
   size |-> IF CarriedOut THEN outBuffer ELSE 0]

ReplyOutcome ==
  [kind |-> IF pc # "done" THEN "nothing" ELSE IF response # NoReply THEN "said" ELSE "silence",
   code |-> IF Replied THEN response.header.code ELSE 0,
   size |-> IF Replied THEN response.payload ELSE 0]

(* A request reaches the device once at most and only if there is nothing   *)
(* wrong with it, and its answer is made of what the device has said: what  *)
(* the code field keeps of the status and a response of that size, or       *)
(* genericError when that is not whole words.                               *)
Service == INSTANCE RequestService WITH
  Optional <- Certificates,
  MaxSize <- 4096,
  device <- DeviceOutcome,
  answer <- ReplyOutcome

ImplementsService == Service!ServiceSpec

=============================================================================
