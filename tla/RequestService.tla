--------------------------- MODULE RequestService ---------------------------
(***************************************************************************)
(* What the message handler promises of each request, without parsing,     *)
(* dispatch and the inside of a device call: the device hears of a request *)
(* once at most, and only if nothing is wrong with it; otherwise the       *)
(* answer says what is; and the answer to a request the device has carried *)
(* out is what the device has said of it.                                  *)
(***************************************************************************)
EXTENDS Integers

CONSTANTS
  Requests, NoMessage,
  Refusal(_, _),   \* whether a code says what is wrong with a request
  Optional,        \* requests that a driver need not support
  Statuses, MaxSize, CodeRange, WORD_SIZE,
  ErrorCode, genericError, unknownCommand

VARIABLES
  message,     \* the request in hand
  device,      \* what the device has made of it
  answer       \* what the client gets

serviceVars == <<message, device, answer>>

Nothing == [kind |-> "nothing", code |-> 0, size |-> 0]
Silence == [kind |-> "silence", code |-> 0, size |-> 0]
Said(code, size) == [kind |-> "said", code |-> code, size |-> size]

ServiceInit == message = NoMessage /\ device = Nothing /\ answer = Nothing

Receive(m) ==
  /\ message = NoMessage
  /\ message' = m
  /\ UNCHANGED <<device, answer>>

Unanswered == message # NoMessage /\ answer = Nothing

Refuse(code) ==
  /\ Unanswered /\ device = Nothing
  /\ Refusal(message, code)
  /\ answer' = Said(code, 0)
  /\ UNCHANGED <<message, device>>

\* The device answers, or cannot be asked, or what it says is unusable.
AskDevice ==
  /\ Unanswered /\ device = Nothing
  /\ \A code \in ErrorCode : ~Refusal(message, code)
  /\ device' \in {Silence} \cup [kind : {"said"}, code : Statuses, size : 0 .. MaxSize]
  /\ UNCHANGED <<message, answer>>

PassOn ==
  /\ Unanswered /\ device.kind = "said"
  /\ message \in Optional => device.code # -1
  /\ answer' = IF device.size % WORD_SIZE = 0
               THEN Said(device.code % CodeRange, device.size) ELSE Said(genericError, 0)
  /\ UNCHANGED <<message, device>>

\* A driver that does not know the command; one that fails may look like it.
Unsupported ==
  /\ Unanswered /\ message \in Optional
  /\ device = Silence \/ (device.kind = "said" /\ device.code = -1)
  /\ answer' = Said(unknownCommand, 0)
  /\ UNCHANGED <<message, device>>

HangUp ==
  /\ Unanswered /\ device = Silence
  /\ answer' = Silence
  /\ UNCHANGED <<message, device>>

Return ==
  /\ answer # Nothing
  /\ message' = NoMessage /\ device' = Nothing /\ answer' = Nothing

ServiceNext ==
  \/ \E m \in Requests : Receive(m)
  \/ \E code \in ErrorCode : Refuse(code)
  \/ AskDevice \/ PassOn \/ Unsupported \/ HangUp \/ Return

ServiceSpec == ServiceInit /\ [][ServiceNext]_serviceVars

=============================================================================
