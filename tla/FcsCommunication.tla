-------------------------- MODULE FcsCommunication --------------------------
(***************************************************************************)
(* Calls to the /dev/fcs driver (FCSFilter/src/FcsCommunication.{h,cpp}).  *)
(*                                                                         *)
(* Every function fills an intel_fcs_dev_ioctl, opens the device, makes    *)
(* one ioctl, closes the device and, if all went well, hands status and    *)
(* response to its caller.  The driver is external: it may refuse, and     *)
(* otherwise returns any status and response size.                         *)
(***************************************************************************)
EXTENDS Integers, Sequences

CONSTANTS
  Statuses,    \* values the driver may leave in data.status
  RspSizes,    \* values the driver may leave in rsp_data_sz
  Unset        \* a variable that was never assigned

ASSUME FcsAssumption ==
  /\ Statuses \subseteq Int
  /\ RspSizes \subseteq Nat
  /\ Unset \notin Int

VARIABLES
  step,        \* where sendIoctl stands: "idle", "open", "ioctl", "returned"
  request,     \* the function called, and what it puts in the ioctl data
  deviceFds,   \* descriptors of the device the process holds
  data,        \* status and rsp_data_sz of the ioctl data
  succeeded,   \* what the function returned
  fcsStatus,   \* the caller's status variable
  outBuffer    \* size of the caller's response buffer

fcsVars == <<step, request, deviceFds, data, succeeded, fcsStatus, outBuffer>>

\* The functions whose response has the size the driver says.
Sized == {"createAttestationSubkey", "getMeasurement", "getAttestationCertificate",
          "mailboxGeneric"}
FcsFunctions == Sized \cup {"getChipId", "sigmaTeardown"}

RSP_MAX_SZ ==
  [createAttestationSubkey |-> 820, getMeasurement |-> 4092,
   getAttestationCertificate |-> 4096, mailboxGeneric |-> 4092,
   getChipId |-> 0, sigmaTeardown |-> 0]

ChipIdSize == 8   \* sizeof(fcs_attestation_chipid)

MailboxSizeRange == 65536   \* cmd_data_sz of intel_fcs_mbox_send_cmd is a uint16_t

NoRequest == [function |-> "none", mbox_cmd |-> 0, words |-> <<>>, cmd_data_sz |-> 0]
NoData == [status |-> -1, rsp_data_sz |-> 0]

FcsTypeOK ==
  /\ step \in {"idle", "open", "ioctl", "returned"}
  /\ request \in [function : FcsFunctions \cup {"none"}, mbox_cmd : Nat,
                  words : Seq(Nat), cmd_data_sz : Nat]
  /\ deviceFds \in Nat
  /\ data \in [status : Int, rsp_data_sz : Nat]
  /\ succeeded \in BOOLEAN
  /\ fcsStatus \in Int \cup {Unset}
  /\ outBuffer \in Nat

FcsInit ==
  /\ step = "idle"
  /\ request = NoRequest
  /\ deviceFds = 0
  /\ data = NoData
  /\ succeeded = FALSE
  /\ fcsStatus = Unset
  /\ outBuffer = 0

\* The caller's variables go out of scope with it.
Forget ==
  /\ step' = "idle"
  /\ request' = NoRequest
  /\ data' = NoData
  /\ succeeded' = FALSE
  /\ fcsStatus' = Unset
  /\ outBuffer' = 0
  /\ UNCHANGED deviceFds

\* Entering a function: the words it hands to the driver, their size in bytes
\* and, for the mailbox, the command.
Call(function, mbox_cmd, words, size) ==
  /\ step = "idle"
  /\ step' = "open"
  /\ request' = [function |-> function, mbox_cmd |-> mbox_cmd, words |-> words,
                 cmd_data_sz |-> IF function = "mailboxGeneric"
                                 THEN size % MailboxSizeRange ELSE size]
  /\ data' = [status |-> -1, rsp_data_sz |-> RSP_MAX_SZ[function]]
  /\ outBuffer' = RSP_MAX_SZ[function]
  /\ UNCHANGED <<deviceFds, succeeded, fcsStatus>>

OpenFails ==
  /\ step = "open"
  /\ step' = "returned"
  /\ UNCHANGED <<request, deviceFds, data, succeeded, fcsStatus, outBuffer>>

Open ==
  /\ step = "open"
  /\ step' = "ioctl"
  /\ deviceFds' = deviceFds + 1
  /\ UNCHANGED <<request, data, succeeded, fcsStatus, outBuffer>>

\* Fault: the early return forgets to close.
IoctlFailsKeepingDevice ==
  /\ step = "ioctl"
  /\ step' = "returned"
  /\ UNCHANGED <<request, deviceFds, data, succeeded, fcsStatus, outBuffer>>

IoctlFails ==
  /\ step = "ioctl"
  /\ step' = "returned"
  /\ deviceFds' = deviceFds - 1
  /\ UNCHANGED <<request, data, succeeded, fcsStatus, outBuffer>>

\* Whether the response size the driver left is refused.
tooLarge(function, size) == function \in Sized /\ size > RSP_MAX_SZ[function]

responseSize(function, size) ==
  CASE function \in Sized -> size
    [] function = "getChipId" -> ChipIdSize
    [] function = "sigmaTeardown" -> 0

\* Fault: the status is not handed on.
IoctlStatusLost(status, size) ==
  /\ step = "ioctl"
  /\ step' = "returned"
  /\ deviceFds' = deviceFds - 1
  /\ data' = [status |-> status, rsp_data_sz |-> size]
  /\ IF tooLarge(request.function, size)
     THEN UNCHANGED <<succeeded, fcsStatus, outBuffer>>
     ELSE /\ succeeded' = TRUE
          /\ fcsStatus' = 0
          /\ outBuffer' = responseSize(request.function, size)
  /\ UNCHANGED request

\* The device is closed, then the response size is compared with the limit.
Ioctl(status, size) ==
  /\ step = "ioctl"
  /\ step' = "returned"
  /\ deviceFds' = deviceFds - 1
  /\ data' = [status |-> status, rsp_data_sz |-> size]
  /\ IF tooLarge(request.function, size)
     THEN UNCHANGED <<succeeded, fcsStatus, outBuffer>>
     ELSE /\ succeeded' = TRUE
          /\ fcsStatus' = status
          /\ outBuffer' = responseSize(request.function, size)
  /\ UNCHANGED request

FcsNext ==
  \/ OpenFails \/ Open \/ IoctlFails
  \/ \E status \in Statuses, size \in RspSizes : Ioctl(status, size)

=============================================================================
