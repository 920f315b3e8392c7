----------------------------- MODULE TcpServer -----------------------------
(***************************************************************************)
(* The connection server (FCSServer/src/TcpServer.{h,cpp}) with the kernel *)
(* sockets it polls and the clients behind them.                           *)
(*                                                                         *)
(* The process is one thread: pc and cur say where run() stands.  Every    *)
(* system call is a step of its own, so that clients, the network and      *)
(* signals act between any two of them.  Byte streams are cut in chunks;   *)
(* a chunk in flight is only counted, a chunk in the shared message buffer *)
(* remembers the connection it came from.                                  *)
(***************************************************************************)
EXTENDS Integers, Sequences, FiniteSets

CONSTANTS
  Conns,                    \* clients, each with at most one connection
  kMaxNumberOfConnections,  \* client slots of the poll table
  kMaxMessageSize,          \* message buffer, in chunks
  MaxRx,                    \* bound: unread chunks the kernel holds per connection
  SndBuf,                   \* bound: replies the kernel holds per connection
  HangupRevents,            \* what poll reports for a connection that was reset
  ServerFd,                 \* the listening socket
  NoFd,                     \* -1
  Zero                      \* a byte nobody sent

POLLIN == "POLLIN"
POLLHUP == "POLLHUP"
POLLERR == "POLLERR"
Flags == {POLLIN, POLLHUP, POLLERR}

ASSUME ServerAssumption ==
  /\ kMaxNumberOfConnections \in Nat \ {0}
  /\ kMaxMessageSize \in Nat \ {0}
  /\ MaxRx \in Nat \ {0}
  /\ SndBuf \in Nat \ {0}
  /\ HangupRevents \subseteq (SUBSET Flags) \ {{}, {POLLIN}}
  /\ HangupRevents # {}
  /\ ServerFd \notin Conns
  /\ NoFd \notin Conns \cup {ServerFd}
  /\ Zero \notin Conns

VARIABLES
  pc,              \* where the process is
  cur,             \* loop index of run(): the slot being handled
  fd,              \* sockets[i].fd
  revents,         \* sockets[i].revents
  messageBuffer,   \* member of the server: its content outlives a message
  responseBuffer,  \* whose chunks the reply is computed from; {} for no data
  open,            \* descriptors the kernel holds for the process
  backlog,         \* connections waiting for accept, oldest first
  link,            \* "none", "up", "fin" (client sent FIN) or "reset"
  rx,              \* chunks received by the kernel and not yet by the server
  tx               \* replies sent and not yet read by the client

serverVars == <<pc, cur, fd, revents, messageBuffer, responseBuffer, open>>
netVars == <<backlog, link, rx, tx>>
vars == <<serverVars, netVars>>

Chunk == Conns \cup {Zero}
Slots == 0 .. kMaxNumberOfConnections
ClientSlots == 1 .. kMaxNumberOfConnections
FreeSlots == {i \in ClientSlots : fd[i] = NoFd}
Waiting == {backlog[k] : k \in DOMAIN backlog}
Running == pc \notin {"setup", "exited"}

TypeOK ==
  /\ pc \in {"setup", "poll", "drop", "scan", "message", "send", "exited"}
  /\ cur \in Slots
  /\ fd \in [Slots -> Conns \cup {ServerFd, NoFd}]
  /\ revents \in [Slots -> SUBSET Flags]
  /\ messageBuffer \in Seq(Chunk)
  /\ Len(messageBuffer) <= kMaxMessageSize
  /\ responseBuffer \subseteq Chunk
  /\ open \subseteq Conns \cup {ServerFd}
  /\ backlog \in Seq(Conns)
  /\ link \in [Conns -> {"none", "up", "fin", "reset"}]
  /\ rx \in [Conns -> 0 .. MaxRx]
  /\ tx \in [Conns -> Seq(SUBSET Chunk)]

Init ==
  /\ pc = "setup"
  /\ cur = 0
  /\ fd = [i \in Slots |-> NoFd]
  /\ revents = [i \in Slots |-> {}]
  /\ messageBuffer = [k \in 1 .. kMaxMessageSize |-> Zero]
  /\ responseBuffer = {}
  /\ open = {}
  /\ backlog = <<>>
  /\ link = [c \in Conns |-> "none"]
  /\ rx = [c \in Conns |-> 0]
  /\ tx = [c \in Conns |-> <<>>]

-----------------------------------------------------------------------------
(* Start and end of the process.                                           *)

\* socket, bind and listen succeed; the table holds the listening socket only.
setup ==
  /\ pc = "setup"
  /\ pc' = "poll"
  /\ fd' = [i \in Slots |-> IF i = 0 THEN ServerFd ELSE NoFd]
  /\ open' = {ServerFd}
  /\ UNCHANGED <<cur, revents, messageBuffer, responseBuffer, netVars>>

\* The process ends: the kernel closes what it still holds.
Exit ==
  /\ pc' = "exited"
  /\ cur' = 0
  /\ fd' = [i \in Slots |-> NoFd]
  /\ revents' = [i \in Slots |-> {}]
  /\ messageBuffer' = <<>>
  /\ responseBuffer' = {}
  /\ open' = {}
  /\ backlog' = <<>>
  /\ link' = [c \in Conns |-> "none"]
  /\ rx' = [c \in Conns |-> 0]
  /\ tx' = [c \in Conns |-> <<>>]

SetupFails == pc = "setup" /\ Exit

\* SIGINT or SIGTERM: closeSockets() and exit(0), from wherever run() stands.
onSignal == pc # "exited" /\ Exit

-----------------------------------------------------------------------------
(* poll.                                                                    *)

\* What poll reports for a descriptor; h for a connection that was reset.
Reported(s, h) ==
  CASE s = NoFd -> {}
    [] s = ServerFd -> IF backlog # <<>> THEN {POLLIN} ELSE {}
    [] s \in Conns -> IF link[s] = "reset" THEN h
                      ELSE IF rx[s] > 0 \/ link[s] = "fin" THEN {POLLIN} ELSE {}

\* Fault: the scan starts at slot 1, as every other loop of the class does.
PollReadySkippingServer ==
  /\ pc = "poll"
  /\ \E h \in HangupRevents :
       /\ \E i \in Slots : Reported(fd[i], h) # {}
       /\ revents' = [i \in Slots |-> Reported(fd[i], h)]
  /\ pc' = "scan"
  /\ cur' = 1
  /\ UNCHANGED <<fd, messageBuffer, responseBuffer, open, netVars>>

PollReady ==
  /\ pc = "poll"
  /\ \E h \in HangupRevents :
       /\ \E i \in Slots : Reported(fd[i], h) # {}
       /\ revents' = [i \in Slots |-> Reported(fd[i], h)]
  /\ pc' = "scan"
  /\ cur' = 0
  /\ UNCHANGED <<fd, messageBuffer, responseBuffer, open, netVars>>

\* Nothing happened for kPollTimeoutInMilliseconds.
PollTimeout ==
  /\ pc = "poll"
  /\ \A h \in HangupRevents : \A i \in Slots : Reported(fd[i], h) = {}
  /\ revents' = [i \in Slots |-> {}]
  /\ pc' = "drop"
  /\ UNCHANGED <<cur, fd, messageBuffer, responseBuffer, open, netVars>>

PollFails == pc = "poll" /\ Exit

-----------------------------------------------------------------------------
(* Closing.                                                                 *)

\* The kernel forgets the connections in C, with all that was in flight.
Disconnect(C) ==
  /\ link' = [c \in Conns |-> IF c \in C THEN "none" ELSE link[c]]
  /\ rx' = [c \in Conns |-> IF c \in C THEN 0 ELSE rx[c]]
  /\ tx' = [c \in Conns |-> IF c \in C THEN <<>> ELSE tx[c]]

\* Fault: the slot keeps the number of the closed descriptor.
CloseKeepingSlot(i) ==
  /\ open' = open \ {fd[i]}
  /\ fd' = fd
  /\ Disconnect({fd[i]})

closeConnectionAndEnableForReuse(i) ==
  /\ open' = open \ {fd[i]}
  /\ fd' = [fd EXCEPT ![i] = NoFd]
  /\ Disconnect({fd[i]})

\* Fault: the loop stops one slot early.
DropAllButLast ==
  /\ pc = "drop"
  /\ open' = open \ {fd[i] : i \in ClientSlots \ {kMaxNumberOfConnections}}
  /\ fd' = [i \in Slots |-> IF i \in ClientSlots \ {kMaxNumberOfConnections}
                            THEN NoFd ELSE fd[i]]
  /\ Disconnect({fd[i] : i \in ClientSlots \ {kMaxNumberOfConnections}})
  /\ pc' = "poll"
  /\ UNCHANGED <<cur, revents, messageBuffer, responseBuffer, backlog>>

\* Runs after poll has returned: data that arrived since is not looked at.
dropUnusedConnections ==
  /\ pc = "drop"
  /\ open' = open \ {fd[i] : i \in ClientSlots}
  /\ fd' = [i \in Slots |-> IF i \in ClientSlots THEN NoFd ELSE fd[i]]
  /\ Disconnect({fd[i] : i \in ClientSlots})
  /\ pc' = "poll"
  /\ UNCHANGED <<cur, revents, messageBuffer, responseBuffer, backlog>>

-----------------------------------------------------------------------------
(* The scan over the table: handleEventIfAny on every slot in use.          *)

\* Fault: the bound of the loop is one too large, or one too small.
NextSlotPastEnd ==
  IF cur = kMaxNumberOfConnections + 1
  THEN pc' = "poll" /\ cur' = 0
  ELSE pc' = "scan" /\ cur' = cur + 1
NextSlotButLast ==
  IF cur + 1 = kMaxNumberOfConnections
  THEN pc' = "poll" /\ cur' = 0
  ELSE pc' = "scan" /\ cur' = cur + 1

\* The loop of run() moves on, to the next slot or back to poll.
NextSlot ==
  IF cur = kMaxNumberOfConnections
  THEN pc' = "poll" /\ cur' = 0
  ELSE pc' = "scan" /\ cur' = cur + 1

\* The slot is being handled and poll reported exactly f for it.
Handling(f) == pc = "scan" /\ fd[cur] # NoFd /\ revents[cur] = f

\* A free slot, and any report that is not one single flag: nothing is done.
NoEvent ==
  /\ pc = "scan"
  /\ \/ fd[cur] = NoFd
     \/ revents[cur] \notin {{POLLIN}, {POLLHUP}, {POLLERR}}
  /\ NextSlot
  /\ UNCHANGED <<fd, revents, messageBuffer, responseBuffer, open, netVars>>

\* Fault: POLLERR is forgotten.
HandleHangupOnly ==
  /\ Handling({POLLHUP})
  /\ closeConnectionAndEnableForReuse(cur)
  /\ NextSlot
  /\ UNCHANGED <<revents, messageBuffer, responseBuffer, backlog>>

HandleHangup ==
  /\ Handling({POLLHUP}) \/ Handling({POLLERR})
  /\ closeConnectionAndEnableForReuse(cur)
  /\ NextSlot
  /\ UNCHANGED <<revents, messageBuffer, responseBuffer, backlog>>

\* Fault: the test that the slot is free is missing.
IsFirstAny(i) == i \in ClientSlots /\ \A j \in FreeSlots : i <= j

IsFirstFree(i) == i \in FreeSlots /\ \A j \in FreeSlots : i <= j

\* accept returns the oldest waiting connection; its revents stay as poll left them.
acceptConnection ==
  /\ Handling({POLLIN}) /\ fd[cur] = ServerFd
  /\ backlog # <<>>
  /\ \E i \in ClientSlots : IsFirstFree(i) /\ fd' = [fd EXCEPT ![i] = Head(backlog)]
  /\ open' = open \cup {Head(backlog)}
  /\ backlog' = Tail(backlog)
  /\ NextSlot
  /\ UNCHANGED <<revents, messageBuffer, responseBuffer, link, rx, tx>>

\* accept returns -1: no descriptor left, or the connection is gone.
AcceptFails ==
  /\ Handling({POLLIN}) /\ fd[cur] = ServerFd
  /\ FreeSlots # {}
  /\ \/ UNCHANGED netVars
     \/ /\ backlog # <<>>
        /\ backlog' = Tail(backlog)
        /\ Disconnect({Head(backlog)})
  /\ NextSlot
  /\ UNCHANGED <<fd, revents, messageBuffer, responseBuffer, open>>

\* Every slot is taken: the connection goes on waiting.
AcceptNoSlot ==
  /\ Handling({POLLIN}) /\ fd[cur] = ServerFd
  /\ FreeSlots = {}
  /\ NextSlot
  /\ UNCHANGED <<fd, revents, messageBuffer, responseBuffer, open, netVars>>

-----------------------------------------------------------------------------
(* recv, onMessage, send.                                                   *)

resize(buffer, n) ==
  [k \in 1 .. n |-> IF k <= Len(buffer) THEN buffer[k] ELSE Zero]

\* recv writes n chunks of connection c over the start of the buffer.
received(buffer, c, n) == [k \in DOMAIN buffer |-> IF k <= n THEN c ELSE buffer[k]]

MessageSize(c) == IF rx[c] < kMaxMessageSize THEN rx[c] ELSE kMaxMessageSize

\* Fault: the buffer is not cut to the size recv returned.
RecvDataUncut ==
  /\ Handling({POLLIN}) /\ fd[cur] # ServerFd
  /\ LET c == fd[cur]
         n == MessageSize(c)
     IN /\ n > 0
        /\ messageBuffer' = received(resize(messageBuffer, kMaxMessageSize), c, n)
        /\ rx' = [rx EXCEPT ![c] = @ - n]
  /\ pc' = "message"
  /\ UNCHANGED <<cur, fd, revents, responseBuffer, open, backlog, link, tx>>

RecvData ==
  /\ Handling({POLLIN}) /\ fd[cur] # ServerFd
  /\ LET c == fd[cur]
         n == MessageSize(c)
     IN /\ n > 0
        /\ messageBuffer' =
             resize(received(resize(messageBuffer, kMaxMessageSize), c, n), n)
        /\ rx' = [rx EXCEPT ![c] = @ - n]
  /\ pc' = "message"
  /\ UNCHANGED <<cur, fd, revents, responseBuffer, open, backlog, link, tx>>

\* Fault: an empty message is ignored.
RecvEndIgnored ==
  /\ Handling({POLLIN}) /\ fd[cur] # ServerFd
  /\ \/ /\ link[fd[cur]] = "fin" /\ rx[fd[cur]] = 0
        /\ UNCHANGED <<fd, open, link, rx, tx>>
     \/ /\ link[fd[cur]] = "reset"
        /\ closeConnectionAndEnableForReuse(cur)
  /\ messageBuffer' = resize(messageBuffer, kMaxMessageSize)
  /\ NextSlot
  /\ UNCHANGED <<revents, responseBuffer, backlog>>

\* recv returns 0 (orderly end) or -1 (reset).
RecvEnd ==
  /\ Handling({POLLIN}) /\ fd[cur] # ServerFd
  /\ \/ link[fd[cur]] = "fin" /\ rx[fd[cur]] = 0
     \/ link[fd[cur]] = "reset"
  /\ messageBuffer' = resize(messageBuffer, kMaxMessageSize)
  /\ closeConnectionAndEnableForReuse(cur)
  /\ NextSlot
  /\ UNCHANGED <<revents, responseBuffer, backlog>>

\* onMessage fills the fresh response buffer from the message buffer.
OnMessageReply ==
  /\ pc = "message"
  /\ responseBuffer' = {messageBuffer[k] : k \in DOMAIN messageBuffer}
  /\ pc' = "send"
  /\ UNCHANGED <<cur, fd, revents, messageBuffer, open, netVars>>

\* onMessage leaves the response buffer empty: the connection is closed.
OnMessageNoData ==
  /\ pc = "message"
  /\ closeConnectionAndEnableForReuse(cur)
  /\ NextSlot
  /\ UNCHANGED <<revents, messageBuffer, responseBuffer, backlog>>

\* An exception leaves run(); main logs it and exits.
OnMessageThrows == pc = "message" /\ Exit

\* Fault: the slot is read again without asking poll.
SendAndReadAgain ==
  /\ pc = "send"
  /\ link[fd[cur]] # "reset"
  /\ Len(tx[fd[cur]]) < SndBuf
  /\ tx' = [tx EXCEPT ![fd[cur]] = Append(@, responseBuffer)]
  /\ responseBuffer' = {}
  /\ pc' = "scan"
  /\ UNCHANGED <<cur, fd, revents, messageBuffer, open, backlog, link, rx>>

\* Fault: the connection is closed as soon as the reply is sent.
SendAndClose ==
  /\ pc = "send"
  /\ link[fd[cur]] # "reset"
  /\ Len(tx[fd[cur]]) < SndBuf
  /\ closeConnectionAndEnableForReuse(cur)
  /\ responseBuffer' = {}
  /\ NextSlot
  /\ UNCHANGED <<revents, messageBuffer, backlog>>

\* send copies the reply to the kernel; it blocks while there is no room.
Send ==
  /\ pc = "send"
  /\ link[fd[cur]] # "reset"
  /\ Len(tx[fd[cur]]) < SndBuf
  /\ tx' = [tx EXCEPT ![fd[cur]] = Append(@, responseBuffer)]
  /\ responseBuffer' = {}
  /\ NextSlot
  /\ UNCHANGED <<fd, revents, messageBuffer, open, backlog, link, rx>>

\* send returns -1: the error is logged and the slot kept.
SendFails ==
  /\ pc = "send"
  /\ link[fd[cur]] = "reset"
  /\ responseBuffer' = {}
  /\ NextSlot
  /\ UNCHANGED <<fd, revents, messageBuffer, open, netVars>>

\* SIGPIPE is neither handled nor ignored.
SendKills == pc = "send" /\ link[fd[cur]] = "reset" /\ Exit

-----------------------------------------------------------------------------
(* Clients and network.  A listening socket completes up to                 *)
(* kMaxNumberOfConnections connections before they are accepted.            *)

Connect(c) ==
  /\ Running
  /\ link[c] = "none"
  /\ Len(backlog) < kMaxNumberOfConnections
  /\ link' = [link EXCEPT ![c] = "up"]
  /\ backlog' = Append(backlog, c)
  /\ UNCHANGED <<serverVars, rx, tx>>

ClientSend(c) ==
  /\ link[c] = "up"
  /\ rx[c] < MaxRx
  /\ rx' = [rx EXCEPT ![c] = @ + 1]
  /\ UNCHANGED <<serverVars, backlog, link, tx>>

ClientRead(c) ==
  /\ tx[c] # <<>>
  /\ tx' = [tx EXCEPT ![c] = Tail(@)]
  /\ UNCHANGED <<serverVars, backlog, link, rx>>

\* The client has sent all it wanted to; it may still read.
ClientClose(c) ==
  /\ link[c] = "up"
  /\ link' = [link EXCEPT ![c] = "fin"]
  /\ UNCHANGED <<serverVars, backlog, rx, tx>>

\* RST: the client aborts, or a reply reached a client that is gone.
ClientReset(c) ==
  /\ link[c] \in {"up", "fin"}
  /\ link' = [link EXCEPT ![c] = "reset"]
  /\ tx' = [tx EXCEPT ![c] = <<>>]
  /\ UNCHANGED <<serverVars, backlog, rx>>

-----------------------------------------------------------------------------
\* What the process does when no system call goes wrong.
ServerStep ==
  \/ setup
  \/ PollReady \/ PollTimeout \/ dropUnusedConnections
  \/ NoEvent \/ HandleHangup
  \/ acceptConnection \/ AcceptNoSlot
  \/ RecvData \/ RecvEnd
  \/ OnMessageReply \/ OnMessageNoData
  \/ Send \/ SendFails

Failure ==
  \/ SetupFails \/ PollFails \/ AcceptFails
  \/ OnMessageThrows \/ SendKills \/ onSignal

Client(c) ==
  \/ Connect(c) \/ ClientSend(c) \/ ClientRead(c)
  \/ ClientClose(c) \/ ClientReset(c)

Next == ServerStep \/ Failure \/ \E c \in Conns : Client(c)

Spec == Init /\ [][Next]_vars

\* The process is scheduled, accept does not fail for ever, clients read.
Fairness ==
  /\ WF_vars(ServerStep)
  /\ SF_vars(acceptConnection)
  /\ \A c \in Conns : WF_vars(ClientRead(c))

FairSpec == Spec /\ Fairness

-----------------------------------------------------------------------------
(* Correctness.                                                             *)

Held == {fd[i] : i \in ClientSlots} \ {NoFd}

\* The connection whose request is in the hands of onMessage or send.
Serving == IF pc \in {"message", "send"} THEN fd[cur] ELSE NoFd

(* The poll table and the kernel agree: every descriptor the process holds  *)
(* is in exactly one slot and no slot names a closed one, so that nothing   *)
(* leaks and nothing is closed twice or under another connection.  It must  *)
(* survive accept, the five places that close, and the reuse of slots.      *)
DescriptorAccounting ==
  /\ open = {fd[i] : i \in Slots} \ {NoFd}
  /\ \A i, j \in Slots : fd[i] = fd[j] /\ fd[i] # NoFd => i = j
  /\ Running => fd[0] = ServerFd
  /\ open \cap Waiting = {}
  /\ \A k, l \in DOMAIN backlog : backlog[k] = backlog[l] => k = l
  /\ \A c \in Conns : link[c] # "none" <=> c \in open \cup Waiting

Readable(c) == rx[c] > 0 \/ link[c] \in {"fin", "reset"}

(* Accepted sockets are blocking and the scan trusts what poll reported     *)
(* before accept and other handlers ran.  Whenever recv is about to be      *)
(* called there is something for it to return: one silent client cannot     *)
(* stop the server.                                                         *)
RecvNeverBlocks == Handling({POLLIN}) /\ cur # 0 => Readable(fd[cur])

(* The message buffer is shared by all connections and keeps its content:   *)
(* what onMessage sees comes from one connection only, the one the reply    *)
(* is sent to, and no client ever reads a reply made from another's bytes.  *)
RepliesToSender ==
  /\ pc = "message" =>
       /\ messageBuffer # <<>>
       /\ \A k \in DOMAIN messageBuffer : messageBuffer[k] = fd[cur]
  /\ pc = "send" => responseBuffer = {fd[cur]}
  /\ \A c \in Conns : \A k \in DOMAIN tx[c] : tx[c][k] = {c}

\* Outside its life the process holds nothing; a message in hand has a client.
Settled ==
  /\ ~Running => \A i \in Slots : fd[i] = NoFd
  /\ pc \in {"message", "send"} => fd[cur] \in Conns
  /\ revents[0] \in {{}, {POLLIN}}

\* The slots the scan has still to handle, and what poll said of them.
Ahead ==
  {i \in ClientSlots : \/ pc = "scan" /\ i >= cur
                       \/ pc \in {"message", "send"} /\ i > cur}
FreshReports ==
  /\ \A i \in Ahead : fd[i] \in Conns /\ revents[i] = {POLLIN} => Readable(fd[i])
  /\ pc = "scan" /\ cur = 0 => \A i \in FreeSlots : revents[i] = {}

(* The inductive invariant behind the three properties above.               *)
SafetyInv ==
  TypeOK /\ DescriptorAccounting /\ Settled /\ FreshReports /\ RepliesToSender

(* A connection is closed with requests unread only by the idle timeout     *)
(* racing new data, by a handler that returns no data, by a reset or by the *)
(* end of the process: in particular never because a reply has been sent or *)
(* the client has half-closed (README.md:99-102, netcat < get_chip_id.bin). *)
NoRequestDropped ==
  [][\A c \in Held : c \notin Held' /\ rx[c] > 0
       => \/ pc \in {"drop", "message"}
          \/ link[c] = "reset"
          \/ pc' = "exited"]_vars

(* What a client sent on an open connection is read.                        *)
RequestsRead ==
  \A c \in Conns :
    (c \in Held /\ rx[c] > 0) ~> (Serving = c \/ c \notin Held \/ link[c] = "reset")

(* The slot of a client that has closed in order is freed.                  *)
OrderlyCloseReaped ==
  \A c \in Conns : (c \in Held /\ link[c] = "fin") ~> (c \notin Held \/ link[c] = "reset")

(* The slot of a connection that was reset is freed.                        *)
ResetReaped == \A c \in Conns : (c \in Held /\ link[c] = "reset") ~> c \notin Held

(* It is, unless poll reports it with more than one flag: with POLLHUP or   *)
(* POLLERR alone, as handleEventIfAny expects (TcpServer.cpp:189).          *)
HangupReaped ==
  \A c \in Conns :
    (c \in Held /\ link[c] = "reset")
      ~> (c \notin Held \/ \E i \in ClientSlots, f, g \in Flags :
                              fd[i] = c /\ f # g /\ {f, g} \subseteq revents[i])

(* A connection does not wait for ever while there is a free slot.          *)
AcceptedWhenFree == \A c \in Conns : []<>~(c \in Waiting /\ FreeSlots # {})

Quiet == backlog = <<>> /\ \A c \in Held : link[c] = "up" /\ rx[c] = 0

(* When nobody connects, sends or closes any more, the connections that are *)
(* left are dropped (dropUnusedConnections).                                *)
IdleDropped == \A c \in Conns : []<>~(c \in Held /\ Quiet)

(* "Dropping unused connection" (TcpServer.cpp:135): a connection over      *)
(* which nothing is received any more is dropped, whatever the others do.   *)
UnusedDropped ==
  \A c \in Conns : []<>~(c \in Held /\ link[c] = "up" /\ rx[c] = 0 /\ Serving # c)

(* The table, the scan and the kernel queues implement a pool of            *)
(* kMaxNumberOfConnections connections served one request at a time.        *)
Pool == INSTANCE ConnectionPool WITH
  Capacity <- kMaxNumberOfConnections,
  None <- NoFd,
  stopped <- pc = "exited",
  pending <- backlog,
  held <- Held,
  serving <- Serving

ImplementsPool == Pool!PoolSpec

=============================================================================
