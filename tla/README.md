# Verification of the FCS server

FCS Server is a small TCP server that forwards attestation requests of remote
verifiers to the FPGA crypto services driver (`/dev/fcs`) and returns its
answers. This directory holds TLA+ models of the program, the TLC
configurations that check them on small instances, and proofs checked by TLAPS
for every instance. Paths are relative to `src/`.

Contents: [the system](#the-system), [the modules](#the-modules),
[the runs](#the-runs), [what the runs found](#what-the-runs-found),
[the proofs](#the-proofs), [what is not modelled](#what-is-not-modelled),
[the plan](#the-plan).

## The system

One process, one thread. `main` (FCSServer/src/main.cpp) installs a handler
for SIGINT and SIGTERM and calls `TcpServer::run` with `handleIncomingMessage`
as callback. systemd restarts the process whenever it ends.

| Component | State | Operations | Talks to |
|---|---|---|---|
| Connection server, FCSServer/src/TcpServer.{h,cpp} | poll table `sockets` (listening socket and 20 clients), `messageBuffer` | `run`: poll, drop on timeout, scan; accept, recv + callback + send, close | kernel sockets; the message handler (synchronous call) |
| Process, FCSServer/src/main.cpp | none | command line, signal handler, exception handler | `TcpServer::closeSockets`, Logger |
| Message handler, FCSFilter/src/MessageHandler.cpp | locals of one call | parse, dispatch on the command code, call the device, prepare the reply | protocol, device |
| Verifier protocol, FCSFilter/src/VerifierProtocol.{h,cpp} | header, payload and error code of one message | `parseMessage`, accessors, `prepareResponseMessage` | header codec, Utils |
| Device communication, FCSFilter/src/FcsCommunication.{h,cpp} | locals of one call, a device descriptor | six functions around `sendIoctl` | driver: open, ioctl, close |
| Header codec, FCSFilter/src/CommandHeader.{h,cpp} | six fields | `parse`, `encode` | Utils |
| Utils, FCSFilter/src/utils.h | none | word from bytes, bytes from word; four conversions of word buffers | |
| Logger, FCSFilter/src/Logger.{h,cpp} | log level | print, set the level by name | |
| Service unit, FCSServer/fcsServer.service | systemd's state of the unit, its start count | start, stop, restart; restart always, at most 5 starts in 2 s | process |
| Installation, FCSServer/install.sh | none | copies the program and the unit, enables it | |

What is hard here:

- the scan acts on what poll reported *before* earlier slots were handled,
  accepted sockets are blocking, and slots and descriptors are reused: accept is
  slot 0 and comes first, so that a slot freed in one scan is filled at the
  beginning of the next, and a slot that is filled is handled later in the same
  scan with the report of an empty one;
- one buffer serves all connections;
- clients half-close, reset, go silent, and compete for slots; signals,
  exceptions and SIGPIPE end the process at any point;
- requests are taken from a byte stream without framing, so the handler sees
  messages of any length with any content;
- the process ends between the device's work and the reply, and comes back to an
  address that connections of its predecessor still hold;
- the device may refuse, fail, or return any status and size;
- fields of the header cross byte boundaries.

What makes each component correct:

- **Server.** Descriptors and slots agree; recv never blocks; replies are made
  from the requester's bytes; no connection is closed over unread requests
  without cause; requests are read, and closed, reset and idle connections
  leave their slot to others.
- **Handler, protocol, device.** No request throws; exactly the well formed
  requests reach the device, unchanged, and the others are answered with what is
  wrong with them; the device is always closed; a reply can be matched to its
  request and parsed; noError is only said of what was done (with a status that is
  0 or that the code field cuts to 0); silence means that the device failed.
- **Whole server.** The device is asked once for what a client asked for, and for
  nothing else; a reply belongs to its request and is true; replies come in the
  order of the requests, none after a missing one; nobody waits for ever.
- **Codec.** Fields are where the layout puts them; parse and encode are
  inverse.
- **Word buffers.** What is written is read back.
- **Service.** A process that gives up says why; a server that ended comes back,
  unless it was started too often.

## The modules

| Module | Models | Kind |
|---|---|---|
| `TcpServer` | TcpServer.{h,cpp}, main.cpp, the kernel's sockets, the clients | state machine |
| `ConnectionPool` | what the server promises, without table, polling and buffers | abstract state machine |
| `TcpServerProofs`, `TcpServerPoolProofs` | | proofs |
| `CommandHeader` | CommandHeader.{h,cpp} | operators |
| `CommandHeaderProofs` | | proofs |
| `Utils` | the six conversions of utils.h | operators |
| `HeaderCodec` | a header object and its bytes: composes `CommandHeader` and `Utils` | state machine |
| `HeaderCodecProofs` | | proofs |
| `WordBuffers` | the word buffer conversions of `Utils`, with an assumed caller | state machine |
| `WordBuffersProofs` | | proofs |
| `VerifierProtocol` | VerifierProtocol.{h,cpp}, uses `CommandHeader` | operators |
| `FcsCommunication` | FcsCommunication.{h,cpp} with the driver | steps |
| `MessageHandler` | MessageHandler.cpp: composes `VerifierProtocol` and `FcsCommunication` | state machine |
| `RequestService` | what the handler promises, without parsing, dispatch and ioctls | abstract state machine |
| `MessageHandlerProofs` | | proofs |
| `FcsServer` | the whole server: composes `ConnectionPool`, `MessageHandler` and the clients' streams | state machine |
| `FcsServerProofs` | | proofs |
| `Logger` | Logger.{h,cpp} | operators and their state |
| `FcsService` | main.cpp's command line, setup, the ends of the process and the unit that starts it again; uses `Logger` | state machine |
| `FcsServiceProofs` | | proofs |
| `MC...` | sets for the runs | model checking |

`PROJECT.json` maps each definition to its lines.

### TcpServer

`pc` says where `run()` stands: `poll` (about to poll), `drop` (poll timed
out), `scan` (about to handle slot `cur`), `message` (in the callback), `send`.
Each system call is a step of its own, so clients and signals act between any
two. `fd` and `revents` are the poll table; `open` is the kernel's set of
descriptors, so that the two can be compared; `backlog`, `link`, `rx` and `tx`
are the kernel's side of the connections. A client is identified with its
descriptor, at most one connection each; a closed one may connect again.

The byte stream is cut into chunks. `rx` counts unread chunks; a chunk in
`messageBuffer` is the connection it came from, or `Zero`; a reply is the set
of chunks it was computed from. This is enough to see bytes of one client
reach another. What the chunks mean is `MessageHandler`'s business: the
callback has three outcomes here, a reply, no data and an exception.

`Reported` is poll as the kernel computes it. For a reset connection the flags
are a parameter, `HangupRevents`, because the code compares `revents` with
single flags and the runs differ in this. `PollTimeout` needs that nothing is
to report; data that arrives before `dropUnusedConnections` runs is then closed
over, as in the code.

Before `setup` the table's numbers have no meaning (the object is static and
zeroed); the model starts it as free. A signal there closes nothing of
consequence.

`Exit` forgets everything at once: the kernel closes what the process holds.
It stands for `closeSockets` and `exit`, for the exception handler of `main`
and for SIGPIPE. In `closeConnectionAndEnableForReuse` the close of a socket and
the -1 in its slot are one step too (see [what is not
modelled](#what-is-not-modelled)).

### VerifierProtocol, FcsCommunication, MessageHandler

A message is its size in bytes, its header and the whole words behind it;
messages shorter than a header and cut inside a word exist. Words are numbers;
the magic number is a parameter, since only equality with it matters. A C++
exception is the value `NoProtocol` or a `...Throws` operator, and ends in
`pc = "thrown"`.

`FcsCommunication` is the inside of a device call, step by step: `Call` fills
the ioctl data, then open, ioctl and close succeed or fail. The driver is
external: it leaves any status and response size. `fcsStatus = Unset` is the
caller's status variable while nothing has been assigned to it; where the code
compares it with -1 all the same (MessageHandler.cpp:92) both outcomes exist.

The status is an int without a bound (intel_fcs-ioctl.h:437), and the reply has
eleven bits for it: `prepareResponseMessage` cuts it (VerifierProtocol.cpp:148),
and `SuccessMeansDone` says what is left of noError, a status that is 0 modulo
`CodeRange`.

`MessageHandler` handles one request after the other. Its locals die with
`Return`, which is also what shows a leaked device descriptor in the next
request. When `response = NoReply` at `done` the server closes the connection.

`RequestService` is what it implements: a request is refused with a code that
says what is wrong with it, or given to the device; the device answers with a
status and a size or not at all; the client gets that answer or nothing. Parsing
and dispatch are no steps there, and open, ioctl and close are one. The mapping
is `DeviceOutcome` (nothing until `step = "returned"`, then what the driver has
left) and `ReplyOutcome` (nothing until `pc = "done"`). `Unsupported`
is there with its flaw: a certificate request whose device call failed may be
answered as unknown.

### CommandHeader, Utils, HeaderCodec

A field of n bits is a number below 2^n, and the four ranges are parameters.
`readBits` and `writeBits` are what masking and shifting do to a number.
`HeaderCodec` scales the format down (bytes of 2 bits, word of 8 bits) so that
TLC sees every word and every header, with all fields but `code` one bit and
`code` crossing a byte; the layout formula it checks against uses the weights
of the fields only.

### WordBuffers

The four conversions of word buffers (utils.h:73-115) have no caller in the
repository; utilsUT.cpp tests only the two conversions of single words. The
caller in `WordBuffers` is therefore an assumption: it keeps its memory and its
in/out size from one call to the next, as the signature of
`writeToWordPointerFromByteBuffer` invites, or starts again with the full size.
`held` is a ghost: the bytes that the words up to the size stand for.

### FcsServer

Connections are those of `ConnectionPool`, which `TcpServer` is shown (and
proved) to implement: `Accept`, `Recv`, `Send` and the closing actions are its
`Admit`, `Begin`, `Finish` and `Release` with what they do to streams and
handler. `sent[c]` is the stream of a client, the words of its requests, and
`asked[c]` says which requests they are and where each begins and ends in the
stream, which nothing in the server knows; `taken(c)` words have been read.
`Recv` takes any number of words
that have arrived, up to the size of the buffer, makes a message of them (a
word read as a header is what `CommandHeader` makes of it) and calls the
handler, whose steps then run as in `MessageHandler` (`Handle`). So one recv may
bring a request, a part of one, or several, and a client may send the next one
without waiting.

`exchanges` records, for each connection, what every recv took, what the device
was asked and answered meanwhile, and the reply. It is history: no step of the
server depends on it except through `taken`. `OnlyAsked` and `AnswersTrue` are
about every exchange that begins where a request begins, however the exchanges
before it were cut; one that begins inside a request takes words of a payload
for a header, and the code has nothing against it. The record ends with the
connection, so a request repeated on a new one is a new request.

What the client has sent before a reset can still be read (`unread`), but a reply
cannot be sent then: `SendFails` is send returning -1, which the server logs and
otherwise ignores (TcpServer.cpp:177-180), keeping the connection until recv or
poll tells of its end. `RepliesInOrder` says what follows: the k-th reply on a
connection is the one to its k-th exchange. It is about what is sent; a client
whose connection ends cannot know which of its requests were carried out, and
nothing in the protocol tells it.

`ProcessEnds` is the end of the process at any point, in the middle of a device
call too; `Restart` is a new process that remembers nothing. `idle` is the
window between poll's timeout and `dropUnusedConnections`, in which data may
arrive that is then lost.

### Logger, FcsService

`FcsService` looks at the process from outside. `main`, the arguments and
`setup()` are steps (`ReadLogLevel`, `ReadPort`, `SetupFails`,
`SetupSucceeds`), with one command line for every branch; `requestedPort` is
the number as `htons` leaves it, cut to 16 bits. Of `run()` only its ends are
left: a failing poll, an exception, a signal, SIGPIPE. The log is the set of
lines printed at the current level.

`Interrupted` is the signal handler. It allocates, prints and calls `exit`,
none of which a signal handler may do (main.cpp:43-51): if it interrupts such
a call, the process may crash or hang, so the model has all three outcomes.

A connection matters for what it leaves behind: the side that closes first
keeps the address in TIME_WAIT, and bind (no SO_REUSEADDR, TcpServer.cpp:92)
finds it in use as long as `linger` runs. systemd is external: `Reap`,
`AutoRestart`, `Sigkill` and the systemctl commands do what systemd's
documentation says of Restart=always, StartLimitBurst, StartLimitIntervalSec,
RestartSec and TimeoutStopSec. `Tick` passes time, and only when nothing is
`Due`: a process starts, systemd reacts and a signal arrives in less than a
tick.

## The runs

| Run | Configuration | Shows | Bounds |
|---|---|---|---|
| `server_safety` | TcpServerSafety.cfg | types, descriptor accounting, recv never blocks, replies to the sender, no request dropped, refinement of `ConnectionPool` | 3 clients, 2 slots, buffer of 2 chunks, 2 unread chunks, 1 unread reply; every report of a reset; clients symmetric |
| `server_live` | TcpServerLive.cfg | requests are read; closed and idle connections leave, and reset ones that poll reports with one flag; free slots are given | 2 clients, 2 slots, 1 chunk; every report of a reset |
| `server_leak` | TcpServerLeak.cfg | violated: a reset connection keeps its slot | 2 clients, 1 slot; flags as Linux sets them |
| `server_unused` | TcpServerUnused.cfg | violated: an idle connection keeps its slot | 2 clients, 1 slot |
| `handler` | MessageHandler.cfg | the eight properties of the handler: nothing throws, the device is released, asked exactly what is well formed and answers truthfully; refinement of `RequestService` | 8 commands and an unknown one, sizes 0 to 16 bytes, lengths 0 to 3, two senders, 3 words, 7 statuses (0, 1, -1, and around 2048 on both sides of 0), 8 response sizes |
| `handler_silent` | MessageHandlerSilent.cfg | violated: a failed certificate call may be answered | certificate requests |
| `handler_mask` | MessageHandlerMask.cfg | violated: reserved bits reach the device | certificate requests |
| `conversions` | Conversions.cfg | layout and inverse of the codec; word buffers read back | all 256 words of the scaled-down format; 14 buffers of 0 to 16 bytes, 3 words of memory |
| `system` | FcsServer.cfg | from the beginning of a request the device is only asked what was asked, once, and the reply is true; replies in order | 2 clients, 2 slots, 2 requests of 1 and 2 words on each connection, recv of at most 3 words, status 1 or 2048 (which reads as noError); clients symmetric |
| `system_live` | FcsServerLive.cfg | everything sent is answered | 2 clients, 2 slots, 1 request of 2 words each |
| `service` | FcsService.cfg | ends are explained; a restart comes back when RestartSec is long enough; a server that ended comes back unless the start limit is reached | 11 command lines, 2 clients, 2 commands, 1 failure; RestartSec 1 or 2, start limit 5 in 6, TIME_WAIT 7 ticks |
| `service_restart` | FcsServiceRestart.cfg | violated: a restart comes back | the command line as installed, no failures but the address; RestartSec 1, TIME_WAIT 8 ticks |

Why the bounds are enough. Three clients for two slots: a client can wait while
two are served, a slot freed in one scan be filled at the beginning of the next,
and a third party notice it. Two chunks in the buffer: one remains from the
message before when a shorter one arrives. One unread reply fills the send buffer, so that send
blocks. Sizes around every fixed payload (0, 4 and 8 bytes, with and without
the reserved word), one below and one inside a word; response sizes on both
sides of each limit and one that is not whole words. In `system`, the second
request's payload is the first request, so that a stream that is split badly
makes a request of what was data; three words hold one request with its
payload and one that follows it, or the end of one and the beginning of
another, and do not hold the four words of two long ones. The properties
proved below do not depend on bounds at all.

In `conversions` the two parts share no variable: each moves while the other
has not started, which is every state of each.

In `service` the ticks keep the order of the real times and not their ratio.
The real ones are 100 ms (the default of RestartSec), 2 s, a minute and 90 s. A
behaviour has one RestartSec: with 1 tick five starts fit into the interval of 6,
which is the unit as installed; with 2 ticks three do, and two more by command
are still allowed (`Spaced`). `SpacedRestartComesBack` is about the second only, and
`service_restart` shows that it is false of the first. `RestartedWithinLimit` is
about both, and excepts the start limit: Restart=always (fcsServer.service:12)
does *not* hold of the unit as installed without that exception, since a kill or
an exception while a client is connected leaves the address in use, five starts
fail and the unit is failed for good. The run contains that behaviour.
`MaxCommands` and `MaxFailures` bound what systemctl and the world do; every
property is about what follows one command or failure while another may come.

Each run allows deadlock detection except those where the system really may
stop: the server after `Exit`, which is for good in `TcpServer`; the
conversions, whose steps may change nothing; the whole server when every client
has sent what the bound allows and the process has ended; the service after
its last command. `handler` checks for deadlock.

Fairness, only for liveness:

- `TcpServer.FairSpec`: the process runs when it can (`WF_vars(ServerStep)`: a
  single thread that is scheduled); accept does not fail for ever
  (`SF_vars(acceptConnection)`: its failures are transient, and between them poll
  keeps reporting the listening socket); clients read their replies
  (`WF_vars(ClientRead(c))`: without it send blocks the thread for good, see the
  hazards). No fairness is assumed of the clients' sending, closing or resetting,
  of failures or of signals.
- `FcsServer.SystemFairness`: the handler, send and close go on, for the same
  reason; `SF(Recv(c) /\ link[c] # "reset")` because other connections are served in
  between. This one is not an assumption about the code: it is what
  `RequestsRead` of `server_live` says of the scan, and of connections that were
  not reset.
- `FcsService.ServiceFairness`: a process that starts goes on, a signal sent
  arrives, systemd reacts, time passes. Not that a stuck process ends by itself:
  that is what TimeoutStopSec is for.

## What the runs found

1. `server_leak`: TcpServer.cpp:189 compares `revents` with exactly POLLHUP and
   exactly POLLERR. Linux reports a reset connection with POLLIN set too. No
   branch matches, the slot is lost, and poll returns at once for ever.
   `HangupReaped` of `server_live` shows that the rest of the logic is right when
   a single flag is reported.
2. `server_unused`: "Dropping unused connection" (TcpServer.cpp:135) happens
   only when *all* sockets were silent for a minute. As long as any other one
   is active, if only in the backlog, an idle client keeps its slot.
3. `handler_silent`: a failed certificate call should lead to a disconnect
   (MessageHandler.cpp:125) but line 92 reads a status that was never assigned.
4. `handler_mask`: the comment on VerifierProtocol.h:46 says 5 bits, the mask
   on line 47 has 8. A unit test agrees with the mask.
5. `service_restart`: README.md:86-89 says that `systemctl restart fcsServer`
   restarts the server. With a client connected, the server closes first and
   its address stays in TIME_WAIT for a minute; without SO_REUSEADDR
   (TcpServer.cpp:92) bind fails; five failures 100 ms apart reach the start
   limit of the unit, which is then failed for good in spite of Restart=always.
   `service` shows that a longer RestartSec is enough; so would SO_REUSEADDR be.
   It takes no command either: a process that is killed or ends by an exception
   while a client is connected leaves the same behind, so that Restart=always
   (fcsServer.service:12) holds only with the exception of `RestartedWithinLimit`.

Seen while modelling, and no run of its own: the port of the command line is cut
to 16 bits without a check, so that 115537 listens on 50001 and logs 115537
(TcpServer.cpp:47), and -1 on 65535. `requestedPort` is this cut. A driver status
that is a multiple of 2048 is answered noError (VerifierProtocol.cpp:148); the
`handler` run has such statuses. A poll that fails at level Fatal ends the
process without a line (TcpServer.cpp:60), which `EndIsExplained` excepts.

## The proofs

`tlapm` checks every leaf; nothing is assumed but the named assumptions on the
constants, which TLC evaluates in the runs.

**TcpServerProofs.** Types (`TypeCorrect`), descriptor accounting
(`AccountingCorrect`), recv never blocks (`NeverBlocks`) and replies to the
sender (`RepliesCorrect`), for any clients, slots, buffer sizes and flags of a
reset. None of the last three is inductive. `SafetyInv` adds `Settled` (outside
its life the process holds nothing, a message in hand has a client, the
listening socket is readable or not) and `FreshReports`: of the slots the scan
has still to handle, one reported readable is readable, *and when the scan
starts a free slot has an empty report*. The second half is what makes a slot
that acceptConnection fills during the scan harmless: it inherits an empty
report, never a stale POLLIN.

**MessageHandlerProofs.** The eight properties of the `handler` run, for any
set of requests and any driver. `ParseFacts` says what a successful
`parseMessage` tells of a message (`Fits`): length and size agree, fixed sizes
and magic are right, and the payload is the words behind the skipped ones; and
that a failed one has the code for what is wrong (`Refusal`). So
`ValidRequestsCorrect` and `RefusalsCorrect` are the two directions of one
statement: the device is asked exactly what is well formed. `Refusal` is stated
in words and lengths of the message, not in the payloads and offsets the code
compares. `ReplyFacts` says what a reply tells. `HandlerInv` adds to the eight
properties `InHand` (the object in hand fits the message in hand) and
`DeviceData` (what has come back is within the buffer, and nothing has when the
call failed). Assumed: the field ranges hold the largest response and request
(`HandlerAssumption`; 2048 in the code). Nothing is assumed of the driver's
statuses, so `SuccessCorrect` says of noError only what is true of any int: the
device carried the request out, with a status that is 0 modulo `CodeRange`.

`ServiceImplemented`: the handler implements `RequestService`, which no invariant
says, since it is about steps: the device is asked once at most for a message in
hand, what it has said does not change afterwards, and the answer is made of it.
Each step of the handler is shown to be a step of the service or a stutter
(`ServiceStutter`: parsing that succeeds, dispatch, opening the device).
`HandlerInv` supplies what the mapping needs: that nothing is wrong with a message
while the device is asked (`NothingWrong`, from `DeviceSeesValidRequests`), that a
refusal is deserved, that a failed call leaves `Silence`, and that no message is
in hand between two calls.

**TcpServerPoolProofs.** `PoolImplemented`: the initial states of `TcpServer` map
to initial states of `ConnectionPool`, and every step to a step or a stutter.
From `SafetyInv` follows what the mapping needs: two slots never hold the same
connection (so that closing a slot takes exactly one out of the pool), a free
slot means that fewer than the maximum are held, and while one connection is
served only that one can be closed. `RequestsKept` (`NoRequestDropped`) needs one
more invariant, `HangupReports`: of the slots the scan has still to handle, a
report other than POLLIN alone comes from a connection that was reset, and none
is inherited by a slot that is filled during the scan.

**CommandHeaderProofs, HeaderCodecProofs.** Parse and encode are inverse, both
ways, for any field ranges; with the bytes, for any range of a byte: fields are
where the layout puts them in the little-endian word (`LayoutCorrect`), no byte
is lost or changed by parsing and encoding (`InverseCorrect`), also for a code that
is too wide and is cut. The argument is positional notation (`Digit`,
`DivDiv`): a field is what division by the weight below it and the remainder by
its range leave. Assumed: the fields fill four bytes (`CodecAssumption`).

**WordBuffersProofs.** What is read back is what was written, over any number of
calls (`ReadBackCorrect`), and types (`BuffersTypeCorrect`). `PointerBytes` and `WordAt` reduce a buffer to its
words, and the lemmas of `HeaderCodecProofs` on one word do the rest; with the
types `ReadsBackWritten` is inductive.

**FcsServiceProofs.** For any command lines, clients, limits and times: types
(`ServiceTypeCorrect`) and `EndIsExplained` (`EndExplained`). `PortRead` is the
strengthening: setup is reached with a number for a port only.

**FcsServerProofs.** For any clients, slots, requests and buffer size, however
streams are cut, and with the process ending anywhere: types
(`SystemTypeCorrect`), replies in order (`RepliesInOrderCorrect`), and
all that is proved of the handler (`SystemHandlerCorrect`). The last is not for
free: a request may be cut short by the end of the process and another one
begins, which `MessageHandler` alone never does. `SystemInv` adds to these
`PendingFresh` (nothing has been read from a connection that is not held, and
those that wait for accept are not; hence the record starts empty) and
`ServedHasExchange`. A failing send is why the order needs an argument: it leaves
a connection held with a reply missing, and `RepliesInOrder` keeps because such a
connection was reset and stays so until it is closed.

The same module proves that the device is only asked what was asked
(`OnlyAskedCorrect`) and that replies are true (`AnswersTrueCorrect`). Both speak
of exchanges that are over and of the stream as it is now, so the invariant is
about the whole record. `Record` says for each connection: every request is in the
stream where `asked` says; an exchange begins where the one before it has ended,
or later; and what the device was asked and what was replied during an exchange
follow from the words it has read (`Justified`), whatever requests those were
part of. `InProgress` ties the exchange being made to the message in the
handler's hands. That the stream only grows leaves the words of earlier exchanges as they
were (`RecordGrows`). The meaning comes at the end (`RecordMeans`): an exchange
that begins at a request has read that request's header (`AtHeader`, which needs
`ParseEncoded` of `CommandHeaderProofs`); the device was asked, so the size of
what was read is the one the header tells, which is the request's
(`WholeRequest`); and exchanges that begin at one place are one (`ReadOnce`).
Assumed of a client's requests: their length field tells their size
(`FcsServerAssumption`). What the server does with others is `MessageHandler`'s.

Every invariant and action property that a passing run checks is proved. Only
model-checked is liveness (the prover handles neither fairness nor ENABLED): all of
`server_live` and `system_live`, and the two restart properties of `service`.

## What is not modelled

- Installation (FCSServer/install.sh): copies two files, keeps no state.
- The wording of the log and the hex dumps; the level and whether a line is
  printed are modelled.
- The unit tests and device mocks, which served as reference.
- Of the driver's header, the structures of commands this program never sends.
- The content of words the device receives and returns: passed through by the
  code, modelled as identity (requests) and size (responses).
- A signal between `close` and the assignment of -1 (TcpServer.cpp:220-221), or
  between two of them in the handler (119-125): `closeSockets` would then close a
  number twice. The process ends with the handler and nothing opens a descriptor
  in between, so nobody would notice.
- That a process which ends between the device's work and the reply leaves its
  client unable to tell what was done: the code keeps nothing that would help.
- In `FcsServer`, streams are cut between words only. Cuts inside a word are
  in `MessageHandler`, which takes messages of any size.
- What a signal handler that interrupts an allocation leaves in memory; its
  outcomes are (`FcsService.Interrupted`).
- Client and server machines going down without closing (no keepalive is set):
  such a client is one that never sends again.

## The plan

Done, in this order: `ConnectionPool`, `TcpServer` and its proofs;
`CommandHeader`, `Utils`, `HeaderCodec`; `VerifierProtocol`,
`FcsCommunication`, `MessageHandler` and its proofs; `WordBuffers`; `Logger` and
`FcsService`; `FcsServer` and its proofs; the proofs of `HeaderCodec`, of
`ImplementsPool` and `NoRequestDropped`, of `FcsService` and of `WordBuffers`;
`RefusalsDeserved` with its proof; the proofs of `OnlyAsked` and `AnswersTrue`;
`RequestService` and the proof that `MessageHandler` implements it.

Left:

1. The whole server composed of its two abstract specifications, `ConnectionPool`
   and `RequestService`, small enough for three clients, with `FcsServer` shown to
   implement it.
2. Cuts inside a word in `FcsServer`: streams of bytes instead of words.
