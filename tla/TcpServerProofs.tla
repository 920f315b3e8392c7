-------------------------- MODULE TcpServerProofs --------------------------
(***************************************************************************)
(* Safety of the connection server for every number of clients and slots,  *)
(* every buffer size and every set of hang-up reports.                     *)
(***************************************************************************)
EXTENDS TcpServer, TLAPS

-----------------------------------------------------------------------------
(* Buffers.                                                                 *)

(* A function on 1 .. n is a sequence of length n.                          *)
LEMMA FunctionIsSeq ==
  ASSUME NEW S, NEW n \in Nat, NEW f \in [1 .. n -> S]
  PROVE  f \in Seq(S) /\ Len(f) = n /\ DOMAIN f = 1 .. n
  OBVIOUS

(* resize gives a buffer of the size asked for, with the old bytes or zeros. *)
LEMMA ResizeType ==
  ASSUME NEW b \in Seq(Chunk), NEW n \in Nat
  PROVE  /\ resize(b, n) \in [1 .. n -> Chunk]
         /\ resize(b, n) \in Seq(Chunk)
         /\ Len(resize(b, n)) = n
<1>1. resize(b, n) \in [1 .. n -> Chunk]
  BY DEF resize, Chunk
<1> QED BY <1>1, FunctionIsSeq

(* What recv leaves in a buffer that is then cut to n chunks of c.          *)
LEMMA ReceivedCut ==
  ASSUME NEW b \in Seq(Chunk), NEW c \in Conns, NEW m \in Nat, NEW n \in 1 .. m
  PROVE  /\ resize(received(resize(b, m), c, n), n) \in Seq(Chunk)
         /\ Len(resize(received(resize(b, m), c, n), n)) = n
         /\ \A k \in 1 .. n : resize(received(resize(b, m), c, n), n)[k] = c
<1> DEFINE r == received(resize(b, m), c, n)
<1>1. resize(b, m) \in [1 .. m -> Chunk]
  BY ResizeType
<1>2. r \in [1 .. m -> Chunk] /\ \A k \in 1 .. n : r[k] = c
  BY <1>1 DEF received, Chunk
<1>3. r \in Seq(Chunk) /\ Len(r) = m
  BY <1>2, FunctionIsSeq
<1> HIDE DEF r
<1>4. resize(r, n) \in Seq(Chunk) /\ Len(resize(r, n)) = n
  <2>1. n \in Nat
    OBVIOUS
  <2> QED BY <1>3, <2>1, ResizeType
<1>5. \A k \in 1 .. n : resize(r, n)[k] = c
  BY <1>2, <1>3 DEF resize
<1> QED BY <1>4, <1>5 DEF r

-----------------------------------------------------------------------------
(* Types.                                                                   *)

(* Forgetting connections keeps the types of what is in flight.             *)
LEMMA DisconnectType ==
  ASSUME TypeOK, NEW C, Disconnect(C), ServerAssumption
  PROVE  /\ link' \in [Conns -> {"none", "up", "fin", "reset"}]
         /\ rx' \in [Conns -> 0 .. MaxRx]
         /\ tx' \in [Conns -> Seq(SUBSET Chunk)]
  BY DEF TypeOK, Disconnect, ServerAssumption

(* Closing a slot keeps the types of everything it changes.                 *)
LEMMA CloseType ==
  ASSUME TypeOK, NEW i \in Slots, closeConnectionAndEnableForReuse(i), ServerAssumption
  PROVE  /\ fd' \in [Slots -> Conns \cup {ServerFd, NoFd}]
         /\ open' \subseteq Conns \cup {ServerFd}
         /\ link' \in [Conns -> {"none", "up", "fin", "reset"}]
         /\ rx' \in [Conns -> 0 .. MaxRx]
         /\ tx' \in [Conns -> Seq(SUBSET Chunk)]
<1>1. fd' \in [Slots -> Conns \cup {ServerFd, NoFd}] /\ open' \subseteq Conns \cup {ServerFd}
  BY DEF TypeOK, closeConnectionAndEnableForReuse
<1> QED BY <1>1, DisconnectType DEF closeConnectionAndEnableForReuse

(* The loop index stays in the table.                                       *)
LEMMA NextSlotType ==
  ASSUME cur \in Slots, NextSlot, ServerAssumption
  PROVE  /\ pc' \in {"poll", "scan"}
         /\ cur' \in Slots
         /\ pc' = "scan" => cur' = cur + 1
  BY DEF NextSlot, Slots, ServerAssumption

(* The state left behind by the end of the process is well typed.           *)
LEMMA ExitType == ServerAssumption /\ Exit => TypeOK'
  BY DEF Exit, TypeOK, Slots, ServerAssumption

LEMMA InitType == ServerAssumption /\ Init => TypeOK
  BY FunctionIsSeq DEF Init, TypeOK, Chunk, Slots, ServerAssumption

LEMMA TypeStep == ServerAssumption /\ TypeOK /\ [Next]_vars => TypeOK'
<1> SUFFICES ASSUME ServerAssumption, TypeOK, [Next]_vars
             PROVE  TypeOK'
  OBVIOUS
<1> USE DEF serverVars, netVars
<1>1. CASE setup
  BY <1>1 DEF setup, TypeOK, Slots
<1>2. CASE PollReady
  <2>1. \A h \in HangupRevents, s \in Conns \cup {ServerFd, NoFd} : Reported(s, h) \in SUBSET Flags
    BY DEF Reported, Flags, ServerAssumption
  <2>2. revents' \in [Slots -> SUBSET Flags]
    <3>1. PICK h \in HangupRevents : revents' = [i \in Slots |-> Reported(fd[i], h)]
      BY <1>2 DEF PollReady
    <3>2. \A i \in Slots : Reported(fd[i], h) \in SUBSET Flags
      BY <2>1 DEF TypeOK
    <3> QED BY <3>1, <3>2
  <2>3. 0 \in Slots
    BY DEF Slots, ServerAssumption
  <2> QED BY <1>2, <2>2, <2>3 DEF PollReady, TypeOK
<1>3. CASE PollTimeout
  BY <1>3 DEF PollTimeout, TypeOK
<1>4. CASE dropUnusedConnections
  <2>1. fd' \in [Slots -> Conns \cup {ServerFd, NoFd}] /\ open' \subseteq Conns \cup {ServerFd}
    BY <1>4 DEF dropUnusedConnections, TypeOK
  <2> QED BY <1>4, <2>1, DisconnectType DEF dropUnusedConnections, TypeOK
<1>5. CASE NoEvent
  BY <1>5, NextSlotType DEF NoEvent, TypeOK
<1>6. CASE HandleHangup
  BY <1>6, NextSlotType, CloseType DEF HandleHangup, TypeOK
<1>7. CASE acceptConnection
  <2>1. Head(backlog) \in Conns /\ Tail(backlog) \in Seq(Conns)
    BY <1>7 DEF acceptConnection, TypeOK
  <2>2. fd' \in [Slots -> Conns \cup {ServerFd, NoFd}]
    BY <1>7, <2>1 DEF acceptConnection, TypeOK
  <2> QED BY <1>7, <2>1, <2>2, NextSlotType DEF acceptConnection, TypeOK
<1>8. CASE AcceptNoSlot
  BY <1>8, NextSlotType DEF AcceptNoSlot, TypeOK
<1>9. CASE RecvData
  <2>1. fd[cur] \in Conns /\ cur \in Slots
    BY <1>9 DEF RecvData, Handling, TypeOK
  <2> DEFINE n == MessageSize(fd[cur])
  <2>2. n \in 1 .. kMaxMessageSize /\ n <= rx[fd[cur]]
    BY <1>9, <2>1 DEF RecvData, MessageSize, TypeOK, ServerAssumption
  <2>3. messageBuffer' \in Seq(Chunk) /\ Len(messageBuffer') = n
    <3>1. messageBuffer' = resize(received(resize(messageBuffer, kMaxMessageSize), fd[cur], n), n)
      BY <1>9 DEF RecvData
    <3>2. fd[cur] \in Conns /\ messageBuffer \in Seq(Chunk)
      BY <2>1 DEF TypeOK
    <3> QED BY <2>2, <3>1, <3>2, ReceivedCut DEF ServerAssumption
  <2>4. rx' \in [Conns -> 0 .. MaxRx]
    BY <1>9, <2>1, <2>2 DEF RecvData, TypeOK, ServerAssumption
  <2> QED BY <1>9, <2>2, <2>3, <2>4 DEF RecvData, TypeOK, ServerAssumption
<1>10. CASE RecvEnd
  <2>1. messageBuffer' \in Seq(Chunk) /\ Len(messageBuffer') = kMaxMessageSize
    <3>1. messageBuffer \in Seq(Chunk) /\ kMaxMessageSize \in Nat
      BY DEF TypeOK, ServerAssumption
    <3> QED BY <1>10, <3>1, ResizeType DEF RecvEnd
  <2>2. cur \in Slots /\ closeConnectionAndEnableForReuse(cur) /\ NextSlot
    BY <1>10 DEF RecvEnd, TypeOK
  <2>3. pc' \in {"poll", "scan"} /\ cur' \in Slots
    BY <2>2, NextSlotType
  <2>4. kMaxMessageSize <= kMaxMessageSize
    BY DEF ServerAssumption
  <2>5. UNCHANGED <<revents, responseBuffer, backlog>>
    BY <1>10 DEF RecvEnd
  <2> QED BY <2>1, <2>2, <2>3, <2>4, <2>5, CloseType DEF TypeOK
<1>11. CASE OnMessageReply
  BY <1>11 DEF OnMessageReply, TypeOK
<1>12. CASE OnMessageNoData
  BY <1>12, NextSlotType, CloseType DEF OnMessageNoData, TypeOK
<1>13. CASE Send
  <2>1. tx' \in [Conns -> Seq(SUBSET Chunk)]
    <3>1. \A c \in Conns : Append(tx[c], responseBuffer) \in Seq(SUBSET Chunk)
      BY DEF TypeOK
    <3> QED BY <1>13, <3>1 DEF Send, TypeOK
  <2> QED BY <1>13, <2>1, NextSlotType DEF Send, TypeOK
<1>14. CASE SendFails
  BY <1>14, NextSlotType DEF SendFails, TypeOK
<1>15. CASE Failure
  <2>1. CASE AcceptFails
    <3>1. CASE UNCHANGED netVars
      BY <2>1, <3>1, NextSlotType DEF AcceptFails, TypeOK
    <3>2. CASE /\ backlog # <<>>
               /\ backlog' = Tail(backlog)
               /\ Disconnect({Head(backlog)})
      <4>1. backlog' \in Seq(Conns)
        BY <3>2 DEF TypeOK
      <4> QED BY <2>1, <3>2, <4>1, NextSlotType, DisconnectType DEF AcceptFails, TypeOK
    <3> QED BY <2>1, <3>1, <3>2 DEF AcceptFails
  <2> QED
    BY <1>15, <2>1, ExitType
    DEF Failure, SetupFails, PollFails, OnMessageThrows, SendKills, onSignal
<1>16. ASSUME NEW c \in Conns, Client(c)
       PROVE  TypeOK'
  <2>1. CASE Connect(c)
    BY <2>1 DEF Connect, TypeOK
  <2>2. CASE ClientSend(c)
    BY <2>2 DEF ClientSend, TypeOK, ServerAssumption
  <2>3. CASE ClientRead(c)
    <3>1. Tail(tx[c]) \in Seq(SUBSET Chunk)
      BY <2>3 DEF ClientRead, TypeOK
    <3> QED BY <2>3, <3>1 DEF ClientRead, TypeOK
  <2>4. CASE ClientClose(c)
    BY <2>4 DEF ClientClose, TypeOK
  <2>5. CASE ClientReset(c)
    BY <2>5 DEF ClientReset, TypeOK
  <2> QED BY <1>16, <2>1, <2>2, <2>3, <2>4, <2>5 DEF Client
<1>17. CASE UNCHANGED vars
  BY <1>17 DEF vars, TypeOK
<1> QED
  BY <1>1, <1>2, <1>3, <1>4, <1>5, <1>6, <1>7, <1>8, <1>9, <1>10, <1>11, <1>12,
     <1>13, <1>14, <1>15, <1>16, <1>17
  DEF Next, ServerStep

(* Every variable keeps its type: the loop index of run() never leaves the  *)
(* table and no buffer outgrows its capacity.                               *)
THEOREM TypeCorrect == Spec => []TypeOK
  BY InitType, TypeStep, ServerAssumption, PTL DEF Spec

-----------------------------------------------------------------------------
(* Descriptors.                                                             *)

(* Closing the socket of a client slot keeps table and kernel in agreement. *)
LEMMA CloseAccounting ==
  ASSUME ServerAssumption, TypeOK, DescriptorAccounting, Running, Running',
         NEW i \in ClientSlots, fd[i] \in Conns,
         closeConnectionAndEnableForReuse(i), UNCHANGED backlog
  PROVE  DescriptorAccounting'
<1> USE DEF ServerAssumption, Slots, ClientSlots
<1>1. fd' = [fd EXCEPT ![i] = NoFd] /\ fd \in [Slots -> Conns \cup {ServerFd, NoFd}]
  BY DEF closeConnectionAndEnableForReuse, TypeOK
<1>2. \A j, k \in Slots : fd[j] = fd[k] /\ fd[j] # NoFd => j = k
  BY DEF DescriptorAccounting
<1>3. open' = {fd'[j] : j \in Slots} \ {NoFd}
  <2>1. open = {fd[j] : j \in Slots} \ {NoFd} /\ open' = open \ {fd[i]}
    BY DEF DescriptorAccounting, closeConnectionAndEnableForReuse
  <2> QED BY <1>1, <1>2, <2>1
<1>4. \A j, k \in Slots : fd'[j] = fd'[k] /\ fd'[j] # NoFd => j = k
  BY <1>1, <1>2
<1>5. fd'[0] = ServerFd
  BY <1>1 DEF DescriptorAccounting
<1>6. Waiting' = Waiting
  BY DEF Waiting
<1>7. open' = open \ {fd[i]} /\ open \cap Waiting = {}
  BY DEF closeConnectionAndEnableForReuse, DescriptorAccounting
<1>8. \A c \in Conns : link'[c] # "none" <=> c \in open' \cup Waiting'
  <2>1. fd[i] \in open
    BY DEF DescriptorAccounting
  <2> QED
    BY <1>6, <1>7, <2>1 DEF closeConnectionAndEnableForReuse, Disconnect, DescriptorAccounting
<1> QED
  BY <1>3, <1>4, <1>5, <1>6, <1>7, <1>8 DEF DescriptorAccounting

(* Steps that touch neither table nor queue nor the life of a connection.   *)
LEMMA SameAccounting ==
  ASSUME DescriptorAccounting, UNCHANGED <<fd, open, backlog>>, Running' => Running,
         \A c \in Conns : link'[c] = "none" <=> link[c] = "none"
  PROVE  DescriptorAccounting'
<1>1. fd' = fd /\ open' = open /\ backlog' = backlog /\ Waiting' = Waiting
  BY DEF Waiting
<1>2. \A c \in Conns : link'[c] # "none" <=> c \in open \cup Waiting
  BY DEF DescriptorAccounting
<1> QED BY <1>1, <1>2 DEF DescriptorAccounting

(* Taking the head of the backlog away leaves the others waiting, once each. *)
LEMMA TailOfBacklog ==
  ASSUME TypeOK, DescriptorAccounting, backlog # <<>>, backlog' = Tail(backlog)
  PROVE  /\ Head(backlog) \in Conns /\ Head(backlog) \in Waiting
         /\ Waiting' = Waiting \ {Head(backlog)}
         /\ \A k, l \in DOMAIN backlog' : backlog'[k] = backlog'[l] => k = l
<1> DEFINE n == Len(backlog)
<1>1. /\ backlog \in Seq(Conns) /\ n \in Nat \ {0}
      /\ \A k, l \in 1 .. n : backlog[k] = backlog[l] => k = l
  BY DEF TypeOK, DescriptorAccounting
<1>2. Head(backlog) = backlog[1] /\ 1 \in 1 .. n /\ backlog[1] \in Conns
  BY <1>1
<1>3. DOMAIN backlog' = 1 .. n - 1 /\ \A k \in 1 .. n - 1 : backlog'[k] = backlog[k + 1]
  BY <1>1
<1>4. Waiting = {backlog[k] : k \in 1 .. n} /\ Waiting' = {backlog[k + 1] : k \in 1 .. n - 1}
  <2>1. DOMAIN backlog = 1 .. n
    BY <1>1
  <2>2. Waiting = {backlog[k] : k \in 1 .. n}
    BY <2>1 DEF Waiting
  <2>3. Waiting' = {backlog'[k] : k \in 1 .. n - 1}
    BY <1>3 DEF Waiting
  <2> QED BY <1>3, <2>2, <2>3
<1>5. Waiting' = Waiting \ {backlog[1]}
  <2>1. ASSUME NEW x \in Waiting' PROVE x \in Waiting \ {backlog[1]}
    <3>1. PICK k \in 1 .. n - 1 : x = backlog[k + 1]
      BY <1>4, <2>1
    <3> QED BY <1>1, <1>4, <3>1
  <2>2. ASSUME NEW x \in Waiting \ {backlog[1]} PROVE x \in Waiting'
    <3>1. PICK k \in 1 .. n : x = backlog[k]
      BY <1>4, <2>2
    <3>2. k # 1 /\ k - 1 \in 1 .. n - 1 /\ (k - 1) + 1 = k
      BY <1>1, <2>2, <3>1
    <3> QED BY <1>4, <3>1, <3>2
  <2> QED BY <2>1, <2>2
<1>6. \A k, l \in 1 .. n - 1 : backlog'[k] = backlog'[l] => k = l
  BY <1>1, <1>3
<1> QED BY <1>2, <1>3, <1>4, <1>5, <1>6

(* The slot being handled, when it is not the listening socket's, is a      *)
(* client slot holding a connection.                                        *)
LEMMA HandledSlot ==
  ASSUME ServerAssumption, TypeOK, DescriptorAccounting, Settled
  PROVE  /\ Handling({POLLHUP}) \/ Handling({POLLERR}) => cur \in ClientSlots /\ fd[cur] \in Conns
         /\ pc = "scan" /\ fd[cur] \notin {NoFd, ServerFd} => cur \in ClientSlots /\ fd[cur] \in Conns
         /\ pc = "scan" /\ fd[cur] = ServerFd => cur = 0
         /\ pc \in {"message", "send"} => cur \in ClientSlots /\ fd[cur] \in Conns
<1> USE DEF ServerAssumption, Slots, ClientSlots
<1>1. cur \in Slots /\ 0 \in Slots /\ fd[cur] \in Conns \cup {ServerFd, NoFd}
  BY DEF TypeOK
<1>2. pc \in {"scan", "message", "send"} => fd[0] = ServerFd
  BY DEF DescriptorAccounting, Running
<1>3. pc \in {"scan", "message", "send"} /\ fd[cur] = ServerFd => cur = 0
  BY <1>1, <1>2 DEF DescriptorAccounting
<1>4. Handling({POLLHUP}) \/ Handling({POLLERR}) => pc = "scan" /\ cur # 0 /\ fd[cur] # NoFd
  BY DEF Handling, Settled, POLLIN, POLLHUP, POLLERR
<1> QED
  BY <1>1, <1>2, <1>3, <1>4 DEF Settled

LEMMA AccountingStep ==
  ASSUME ServerAssumption, TypeOK, DescriptorAccounting, Settled, [Next]_vars
  PROVE  DescriptorAccounting'
<1> USE DEF netVars, serverVars
<1>1. CASE Exit
  BY <1>1 DEF Exit, DescriptorAccounting, Running, Waiting
<1>2. CASE setup
  <2>1. open = {} /\ (\A i \in Slots : fd[i] = NoFd) /\ 0 \in Slots
    BY <1>2 DEF setup, Settled, Running, DescriptorAccounting, Slots, ServerAssumption
  <2>2. open' = {fd'[i] : i \in Slots} \ {NoFd} /\ fd'[0] = ServerFd
    BY <1>2, <2>1 DEF setup, ServerAssumption
  <2>3. \A i, j \in Slots : fd'[i] = fd'[j] /\ fd'[i] # NoFd => i = j
    BY <1>2 DEF setup, ServerAssumption
  <2>4. Waiting \subseteq Conns /\ Waiting' = Waiting
    BY <1>2 DEF setup, Waiting, TypeOK
  <2> QED
    BY <1>2, <2>1, <2>2, <2>3, <2>4 DEF setup, DescriptorAccounting, ServerAssumption
<1>3. CASE /\ Running /\ UNCHANGED <<fd, open, backlog>>
           /\ \A c \in Conns : link'[c] = "none" <=> link[c] = "none"
  BY <1>3, SameAccounting
<1>4. CASE dropUnusedConnections
  <2> DEFINE gone == {fd[i] : i \in ClientSlots}
  <2>1. /\ fd \in [Slots -> Conns \cup {ServerFd, NoFd}] /\ fd[0] = ServerFd
        /\ \A i \in Slots : i \in ClientSlots \/ i = 0
        /\ 0 \in Slots \ ClientSlots /\ ClientSlots \subseteq Slots
    BY <1>4 DEF dropUnusedConnections, TypeOK, DescriptorAccounting, Running,
                Slots, ClientSlots, ServerAssumption
  <2>2. ServerFd \notin gone
    BY <2>1 DEF DescriptorAccounting, ServerAssumption
  <2>3. open' = {ServerFd} /\ open = {ServerFd} \cup (gone \ {NoFd})
    BY <1>4, <2>1, <2>2 DEF dropUnusedConnections, DescriptorAccounting, ServerAssumption
  <2>4. open' = {fd'[i] : i \in Slots} \ {NoFd} /\ fd'[0] = ServerFd
    BY <1>4, <2>1, <2>3 DEF dropUnusedConnections, ServerAssumption
  <2>5. \A i, j \in Slots : fd'[i] = fd'[j] /\ fd'[i] # NoFd => i = j
    BY <1>4, <2>1 DEF dropUnusedConnections
  <2>6. Waiting' = Waiting /\ open' \cap Waiting = {}
    BY <1>4, <2>3 DEF dropUnusedConnections, Waiting, DescriptorAccounting
  <2>7. \A c \in Conns : link'[c] # "none" <=> c \in open' \cup Waiting
    <3>1. ASSUME NEW c \in Conns PROVE link'[c] # "none" <=> c \in Waiting
      <4>1. link'[c] = IF c \in gone THEN "none" ELSE link[c]
        BY <1>4 DEF dropUnusedConnections, Disconnect
      <4>2. link[c] # "none" <=> c \in gone \cup Waiting
        BY <2>3 DEF DescriptorAccounting, ServerAssumption
      <4>3. gone \cap Conns \cap Waiting = {}
        BY <2>3 DEF DescriptorAccounting, ServerAssumption
      <4> QED BY <4>1, <4>2, <4>3
    <3> QED BY <2>3, <3>1 DEF ServerAssumption
  <2> QED
    BY <1>4, <2>4, <2>5, <2>6, <2>7 DEF dropUnusedConnections, DescriptorAccounting
<1>5. CASE HandleHangup \/ RecvEnd \/ OnMessageNoData
  <2>1. /\ cur \in ClientSlots /\ fd[cur] \in Conns
        /\ closeConnectionAndEnableForReuse(cur) /\ NextSlot
        /\ UNCHANGED backlog /\ Running
    BY <1>5, HandledSlot DEF HandleHangup, RecvEnd, OnMessageNoData, Handling, Running
  <2>2. Running'
    BY <2>1 DEF NextSlot, Running
  <2> QED BY <2>1, <2>2, CloseAccounting
<1>6. CASE acceptConnection
  <2> DEFINE h == Head(backlog)
  <2>1. PICK i \in ClientSlots : IsFirstFree(i) /\ fd' = [fd EXCEPT ![i] = h]
    BY <1>6 DEF acceptConnection
  <2>2. h \in Conns /\ h \in Waiting /\ Waiting' = Waiting \ {h}
        /\ \A k, l \in DOMAIN backlog' : backlog'[k] = backlog'[l] => k = l
    BY <1>6, TailOfBacklog DEF acceptConnection
  <2>3. /\ fd \in [Slots -> Conns \cup {ServerFd, NoFd}]
        /\ i \in Slots /\ i # 0 /\ fd[i] = NoFd
    BY <2>1 DEF TypeOK, IsFirstFree, FreeSlots, Slots, ClientSlots, ServerAssumption
  <2>4. h \notin open /\ open' = open \cup {h} /\ link' = link
    BY <1>6, <2>2 DEF acceptConnection, DescriptorAccounting
  <2>5. open' = {fd'[j] : j \in Slots} \ {NoFd}
    BY <2>1, <2>2, <2>3, <2>4 DEF DescriptorAccounting, ServerAssumption
  <2>6. \A j, k \in Slots : fd'[j] = fd'[k] /\ fd'[j] # NoFd => j = k
    <3>1. \A j \in Slots : fd[j] # h
      BY <2>2, <2>4 DEF DescriptorAccounting, ServerAssumption
    <3> QED BY <2>1, <2>3, <3>1 DEF DescriptorAccounting
  <2>7. fd'[0] = ServerFd
    BY <1>6, <2>1, <2>3 DEF acceptConnection, Handling, DescriptorAccounting, Running
  <2>8. open' \cap Waiting' = {} /\ open' \cup Waiting' = open \cup Waiting
    BY <2>2, <2>4 DEF DescriptorAccounting
  <2> QED
    BY <2>2, <2>4, <2>5, <2>6, <2>7, <2>8 DEF DescriptorAccounting
<1>7. CASE AcceptFails
  <2>1. CASE UNCHANGED netVars
    BY <1>7, <2>1, <1>3 DEF AcceptFails, Handling, Running
  <2>2. CASE /\ backlog # <<>> /\ backlog' = Tail(backlog)
             /\ Disconnect({Head(backlog)})
    <3>1. /\ Head(backlog) \in Waiting /\ Waiting' = Waiting \ {Head(backlog)}
          /\ \A k, l \in DOMAIN backlog' : backlog'[k] = backlog'[l] => k = l
      BY <2>2, TailOfBacklog
    <3>2. fd' = fd /\ open' = open /\ fd[0] = ServerFd
      BY <1>7 DEF AcceptFails, Handling, DescriptorAccounting, Running
    <3>3. \A c \in Conns : link'[c] # "none" <=> c \in open' \cup Waiting'
      <4>1. \A c \in Conns : link'[c] = IF c = Head(backlog) THEN "none" ELSE link[c]
        BY <2>2 DEF Disconnect
      <4> QED BY <3>1, <3>2, <4>1 DEF DescriptorAccounting
    <3> QED BY <3>1, <3>2, <3>3 DEF DescriptorAccounting
  <2> QED BY <1>7, <2>1, <2>2 DEF AcceptFails
<1>8. ASSUME NEW c \in Conns, Connect(c)
      PROVE  DescriptorAccounting'
  <2> DEFINE n == Len(backlog)
  <2>1. /\ backlog \in Seq(Conns) /\ n \in Nat /\ DOMAIN backlog = 1 .. n
        /\ DOMAIN backlog' = 1 .. n + 1 /\ backlog'[n + 1] = c
        /\ \A k \in 1 .. n : backlog'[k] = backlog[k]
    BY <1>8 DEF Connect, TypeOK
  <2>2. Waiting' = Waiting \cup {c}
    <3>1. Waiting = {backlog[k] : k \in 1 .. n}
      BY <2>1 DEF Waiting
    <3>2. Waiting' = {backlog'[k] : k \in 1 .. n + 1}
      BY <2>1 DEF Waiting
    <3>3. \A k \in 1 .. n + 1 : k \in 1 .. n \/ k = n + 1
      BY <2>1
    <3>4. n + 1 \in 1 .. n + 1 /\ 1 .. n \subseteq 1 .. n + 1
      BY <2>1
    <3> QED BY <2>1, <3>1, <3>2, <3>3, <3>4
  <2>3. c \notin open /\ c \notin Waiting
    BY <1>8 DEF Connect, DescriptorAccounting
  <2>4. \A k, l \in DOMAIN backlog' : backlog'[k] = backlog'[l] => k = l
    <3>1. \A k \in 1 .. n : backlog[k] # c
      BY <2>1, <2>3 DEF Waiting
    <3> QED BY <2>1, <3>1 DEF DescriptorAccounting
  <2>5. fd' = fd /\ open' = open /\ fd[0] = ServerFd
    BY <1>8 DEF Connect, DescriptorAccounting
  <2>6. \A d \in Conns : link'[d] # "none" <=> d \in open' \cup Waiting'
    <3>1. \A d \in Conns : link'[d] = IF d = c THEN "up" ELSE link[d]
      BY <1>8 DEF Connect, TypeOK
    <3> QED BY <2>2, <2>5, <3>1 DEF DescriptorAccounting
  <2> QED BY <2>2, <2>3, <2>4, <2>5, <2>6 DEF DescriptorAccounting
<1>9. ASSUME NEW c \in Conns, ClientSend(c) \/ ClientRead(c) \/ ClientClose(c) \/ ClientReset(c)
      PROVE  DescriptorAccounting'
  <2>1. /\ UNCHANGED <<fd, open, backlog, pc>>
        /\ \A d \in Conns : link'[d] = "none" <=> link[d] = "none"
    BY <1>9 DEF ClientSend, ClientRead, ClientClose, ClientReset, TypeOK
  <2> QED BY <2>1, SameAccounting DEF Running
<1>10. CASE \/ PollReady \/ PollTimeout \/ NoEvent \/ AcceptNoSlot
            \/ RecvData \/ OnMessageReply \/ Send \/ SendFails
  BY <1>3, <1>10
  DEF PollReady, PollTimeout, NoEvent, AcceptNoSlot, RecvData, OnMessageReply, Send,
      SendFails, Handling, Running
<1>11. CASE UNCHANGED vars
  BY <1>11, SameAccounting DEF vars, Running
<1> QED
  BY <1>1, <1>2, <1>4, <1>5, <1>6, <1>7, <1>8, <1>9, <1>10, <1>11
  DEF Next, ServerStep, Failure, Client, SetupFails, PollFails, OnMessageThrows,
      SendKills, onSignal

LEMMA SettledStep ==
  ASSUME ServerAssumption, TypeOK, DescriptorAccounting, Settled, [Next]_vars
  PROVE  Settled'
<1> USE DEF netVars, serverVars
<1>0. 0 \in Slots /\ cur \in Slots
  BY DEF Slots, ServerAssumption, TypeOK
<1>1. CASE Exit
  BY <1>0, <1>1 DEF Exit, Settled, Running
<1>2. CASE setup
  BY <1>2 DEF setup, Settled, Running
<1>3. CASE PollReady
  <2>1. PICK h \in HangupRevents : revents' = [i \in Slots |-> Reported(fd[i], h)]
    BY <1>3 DEF PollReady
  <2>2. fd[0] = ServerFd /\ ServerFd # NoFd
    BY <1>3 DEF PollReady, DescriptorAccounting, Running, ServerAssumption
  <2>3. Reported(ServerFd, h) \in {{}, {POLLIN}}
    BY <2>2 DEF Reported, ServerAssumption
  <2> QED BY <1>0, <1>3, <2>1, <2>2, <2>3 DEF PollReady, Settled, Running
<1>4. CASE PollTimeout
  BY <1>0, <1>4 DEF PollTimeout, Settled, Running
<1>5. CASE dropUnusedConnections
  BY <1>5 DEF dropUnusedConnections, Settled, Running
<1>6. CASE \/ NoEvent \/ HandleHangup \/ acceptConnection \/ AcceptNoSlot
           \/ AcceptFails \/ RecvEnd \/ OnMessageNoData \/ Send \/ SendFails
  <2>1. NextSlot /\ revents' = revents
    BY <1>6 DEF NoEvent, HandleHangup, acceptConnection, AcceptNoSlot, AcceptFails,
                RecvEnd, OnMessageNoData, Send, SendFails
  <2> QED BY <2>1 DEF NextSlot, Settled, Running
<1>7. CASE RecvData
  <2>1. fd[cur] \in Conns
    BY <1>0, <1>7 DEF RecvData, Handling, TypeOK
  <2> QED BY <1>7, <2>1 DEF RecvData, Settled, Running
<1>8. CASE OnMessageReply
  BY <1>8 DEF OnMessageReply, Settled, Running
<1>9. ASSUME NEW c \in Conns, Client(c)
      PROVE  Settled'
  BY <1>9 DEF Client, Connect, ClientSend, ClientRead, ClientClose, ClientReset,
              Settled, Running
<1>10. CASE UNCHANGED vars
  BY <1>10 DEF vars, Settled, Running
<1> QED
  BY <1>1, <1>2, <1>3, <1>4, <1>5, <1>6, <1>7, <1>8, <1>9, <1>10
  DEF Next, ServerStep, Failure, SetupFails, PollFails, OnMessageThrows, SendKills, onSignal

-----------------------------------------------------------------------------
(* What the scan trusts.                                                    *)

(* A step of the scan that leaves the slots ahead, and what their sockets   *)
(* have to read, alone.                                                     *)
LEMMA FreshStays ==
  ASSUME FreshReports, pc \in {"scan", "message", "send"}, ~(pc' = "scan" /\ cur' = 0),
         Ahead' \subseteq Ahead, revents' = revents,
         \A i \in Ahead' : fd'[i] \in Conns /\ revents[i] = {POLLIN} =>
            fd'[i] = fd[i] /\ (Readable(fd[i]) => Readable(fd[i])')
  PROVE  FreshReports'
  BY DEF FreshReports

(* Moving on leaves fewer slots ahead, and not the one just handled.        *)
LEMMA NextSlotAhead ==
  ASSUME ServerAssumption, TypeOK, pc \in {"scan", "message", "send"}, NextSlot
  PROVE  /\ Ahead' \subseteq Ahead \ {cur}
         /\ ~(pc' = "scan" /\ cur' = 0)
  BY DEF NextSlot, Ahead, TypeOK, ServerAssumption, Slots, ClientSlots

(* Different slots hold different connections.                              *)
LEMMA OtherSlots ==
  ASSUME DescriptorAccounting, NEW i \in Slots, NEW j \in Slots, i # j, fd[j] # NoFd
  PROVE  fd[i] # fd[j]
  BY DEF DescriptorAccounting

LEMMA FreshStep ==
  ASSUME ServerAssumption, TypeOK, DescriptorAccounting, Settled, FreshReports, [Next]_vars
  PROVE  FreshReports'
<1> USE DEF netVars, serverVars
<1>0. /\ 0 \in Slots /\ cur \in Slots /\ ClientSlots \subseteq Slots
      /\ Ahead \subseteq ClientSlots /\ Ahead' \subseteq ClientSlots
  BY DEF Slots, ClientSlots, Ahead, ServerAssumption, TypeOK
<1>1. CASE Exit \/ setup \/ PollTimeout \/ dropUnusedConnections
  BY <1>1 DEF Exit, setup, PollTimeout, dropUnusedConnections, FreshReports, Ahead
<1>2. CASE PollReady
  <2>1. PICK h \in HangupRevents : revents' = [i \in Slots |-> Reported(fd[i], h)]
    BY <1>2 DEF PollReady
  <2>2. fd' = fd /\ pc' = "scan" /\ UNCHANGED <<rx, link>>
    BY <1>2 DEF PollReady
  <2>3. ASSUME NEW i \in ClientSlots, fd[i] \in Conns, revents'[i] = {POLLIN}
        PROVE  Readable(fd[i])'
    <3>1. Reported(fd[i], h) = {POLLIN} /\ h # {POLLIN} /\ POLLIN \in {POLLIN}
      BY <1>0, <2>1, <2>3 DEF ServerAssumption
    <3>2. fd[i] # NoFd /\ fd[i] # ServerFd
      BY <2>3 DEF ServerAssumption
    <3> QED BY <2>2, <2>3, <3>1, <3>2 DEF Reported, Readable, TypeOK
  <2>4. \A i \in FreeSlots' : revents'[i] = {}
    BY <1>0, <2>1, <2>2 DEF FreeSlots, Reported
  <2> QED BY <1>0, <2>2, <2>3, <2>4 DEF FreshReports
<1>3. CASE NoEvent \/ AcceptNoSlot \/ Send \/ SendFails
  <2>1. /\ NextSlot /\ pc \in {"scan", "send"}
        /\ UNCHANGED <<fd, revents, rx, link>>
    BY <1>3 DEF NoEvent, AcceptNoSlot, Handling, Send, SendFails
  <2> QED BY <2>1, NextSlotAhead, FreshStays DEF Readable
<1>4. CASE HandleHangup \/ RecvEnd \/ OnMessageNoData
  <2>1. /\ NextSlot /\ pc \in {"scan", "message"} /\ revents' = revents
        /\ closeConnectionAndEnableForReuse(cur) /\ fd[cur] # NoFd
    BY <1>4, HandledSlot DEF HandleHangup, RecvEnd, OnMessageNoData, Handling, ServerAssumption
  <2>2. ASSUME NEW i \in Ahead', fd'[i] \in Conns
        PROVE  fd'[i] = fd[i] /\ (Readable(fd[i]) => Readable(fd[i])')
    <3>1. i \in Slots /\ i # cur
      BY <1>0, <2>1, NextSlotAhead
    <3>2. fd'[i] = fd[i] /\ fd[i] # fd[cur]
      BY <1>0, <2>1, <3>1, OtherSlots DEF closeConnectionAndEnableForReuse, TypeOK
    <3> QED
      BY <2>1, <2>2, <3>2 DEF closeConnectionAndEnableForReuse, Disconnect, Readable
  <2> QED BY <2>1, <2>2, NextSlotAhead, FreshStays
<1>5. CASE acceptConnection
  <2>1. /\ NextSlot /\ pc = "scan" /\ fd[cur] = ServerFd /\ cur = 0
        /\ UNCHANGED <<revents, rx, link>>
    BY <1>5, HandledSlot DEF acceptConnection, Handling
  <2>2. PICK k \in ClientSlots : k \in FreeSlots /\ fd' = [fd EXCEPT ![k] = Head(backlog)]
    BY <1>5 DEF acceptConnection, IsFirstFree
  <2>3. revents[k] = {} /\ revents[k] # {POLLIN}
    BY <2>1, <2>2 DEF FreshReports
  <2>4. \A i \in Ahead' : revents[i] = {POLLIN} => fd'[i] = fd[i]
    BY <1>0, <2>2, <2>3 DEF TypeOK
  <2> QED BY <2>1, <2>4, NextSlotAhead, FreshStays DEF Readable
<1>6. CASE AcceptFails
  <2>1. NextSlot /\ pc = "scan" /\ UNCHANGED <<fd, revents>>
    BY <1>6 DEF AcceptFails, Handling
  <2>2. ASSUME NEW i \in Ahead', fd'[i] \in Conns
        PROVE  Readable(fd[i]) => Readable(fd[i])'
    <3>1. fd[i] \in open /\ fd'[i] = fd[i]
      BY <1>0, <2>1, <2>2 DEF DescriptorAccounting, ServerAssumption
    <3>2. CASE UNCHANGED netVars
      BY <3>1, <3>2 DEF Readable
    <3>3. CASE backlog # <<>> /\ backlog' = Tail(backlog) /\ Disconnect({Head(backlog)})
      <4>1. Head(backlog) # fd[i]
        BY <3>1, <3>3, TailOfBacklog DEF DescriptorAccounting
      <4> QED BY <2>1, <2>2, <3>1, <3>3, <4>1 DEF Disconnect, Readable
    <3> QED BY <1>6, <3>2, <3>3 DEF AcceptFails
  <2> QED BY <2>1, <2>2, NextSlotAhead, FreshStays
<1>7. CASE RecvData
  <2>1. /\ pc = "scan" /\ pc' = "message" /\ UNCHANGED <<cur, fd, revents, link>>
        /\ \E n : rx' = [rx EXCEPT ![fd[cur]] = @ - n]
        /\ fd[cur] # NoFd
    BY <1>7 DEF RecvData, Handling
  <2>2. Ahead' \subseteq Ahead \ {cur}
    BY <2>1 DEF Ahead, ClientSlots, TypeOK, Slots, ServerAssumption
  <2>3. ASSUME NEW i \in Ahead', fd[i] \in Conns
        PROVE  Readable(fd[i]) => Readable(fd[i])'
    <3>1. fd[i] # fd[cur]
      BY <1>0, <2>1, <2>2, OtherSlots
    <3> QED BY <2>1, <2>3, <3>1 DEF Readable, TypeOK
  <2> QED BY <2>1, <2>2, <2>3, FreshStays
<1>8. CASE OnMessageReply
  BY <1>8, FreshStays DEF OnMessageReply, Ahead, Readable
<1>9. ASSUME NEW c \in Conns, Client(c)
      PROVE  FreshReports'
  <2>1. UNCHANGED serverVars /\ Ahead' = Ahead /\ FreeSlots' = FreeSlots
    BY <1>9 DEF Client, Connect, ClientSend, ClientRead, ClientClose, ClientReset,
                Ahead, FreeSlots
  <2>2. \A d \in Conns : Readable(d) => Readable(d)'
    <3>1. CASE Connect(c)
      BY <3>1 DEF Connect, Readable, TypeOK
    <3>2. CASE ClientSend(c)
      BY <3>2 DEF ClientSend, Readable, TypeOK
    <3>3. CASE ClientRead(c) \/ ClientClose(c) \/ ClientReset(c)
      BY <3>3 DEF ClientRead, ClientClose, ClientReset, Readable, TypeOK
    <3> QED BY <1>9, <3>1, <3>2, <3>3 DEF Client
  <2> QED BY <2>1, <2>2 DEF FreshReports
<1>10. CASE UNCHANGED vars
  BY <1>10 DEF vars, FreshReports, Ahead, FreeSlots, Readable
<1> QED
  BY <1>1, <1>2, <1>3, <1>4, <1>5, <1>6, <1>7, <1>8, <1>9, <1>10
  DEF Next, ServerStep, Failure, SetupFails, PollFails, OnMessageThrows, SendKills, onSignal

-----------------------------------------------------------------------------
(* The shared message buffer.                                               *)

LEMMA RepliesStep ==
  ASSUME ServerAssumption, TypeOK, DescriptorAccounting, Settled, RepliesToSender, [Next]_vars
  PROVE  RepliesToSender'
<1> USE DEF netVars, serverVars
<1>1. CASE Exit
  BY <1>1 DEF Exit, RepliesToSender
<1>2. CASE setup \/ PollReady \/ PollTimeout
  BY <1>2 DEF setup, PollReady, PollTimeout, RepliesToSender
<1>3. CASE \/ dropUnusedConnections \/ NoEvent \/ HandleHangup \/ acceptConnection
           \/ AcceptNoSlot \/ AcceptFails \/ RecvEnd \/ OnMessageNoData \/ SendFails
  <2>1. pc' \in {"poll", "scan"}
    BY <1>3 DEF dropUnusedConnections, NoEvent, HandleHangup, acceptConnection, AcceptNoSlot,
                AcceptFails, RecvEnd, OnMessageNoData, SendFails, NextSlot
  <2>2. \A c \in Conns : tx'[c] = tx[c] \/ tx'[c] = <<>>
    BY <1>3 DEF dropUnusedConnections, NoEvent, HandleHangup, acceptConnection, AcceptNoSlot,
                AcceptFails, RecvEnd, OnMessageNoData, SendFails, Disconnect,
                closeConnectionAndEnableForReuse
  <2> QED BY <2>1, <2>2 DEF RepliesToSender
<1>4. CASE RecvData
  <2>1. fd[cur] \in Conns /\ messageBuffer \in Seq(Chunk) /\ kMaxMessageSize \in Nat
    BY <1>4 DEF RecvData, Handling, TypeOK, ServerAssumption
  <2> DEFINE n == MessageSize(fd[cur])
  <2>2. n \in 1 .. kMaxMessageSize
    BY <1>4, <2>1 DEF RecvData, MessageSize, TypeOK, ServerAssumption
  <2>3. messageBuffer' = resize(received(resize(messageBuffer, kMaxMessageSize), fd[cur], n), n)
    BY <1>4 DEF RecvData
  <2> HIDE DEF n
  <2>4. /\ messageBuffer' \in Seq(Chunk) /\ Len(messageBuffer') = n
        /\ \A k \in 1 .. n : messageBuffer'[k] = fd[cur]
    BY <2>1, <2>2, <2>3, ReceivedCut
  <2>5. messageBuffer' # <<>> /\ DOMAIN messageBuffer' = 1 .. n
    BY <2>2, <2>4
  <2> QED BY <1>4, <2>4, <2>5 DEF RecvData, RepliesToSender
<1>5. CASE OnMessageReply
  <2>1. \A k \in DOMAIN messageBuffer : messageBuffer[k] = fd[cur]
    BY <1>5 DEF OnMessageReply, RepliesToSender
  <2>2. 1 \in DOMAIN messageBuffer
    BY <1>5 DEF OnMessageReply, RepliesToSender, TypeOK
  <2> QED BY <1>5, <2>1, <2>2 DEF OnMessageReply, RepliesToSender
<1>6. CASE Send
  <2>1. pc' \in {"poll", "scan"}
    BY <1>6 DEF Send, NextSlot
  <2>2. responseBuffer = {fd[cur]}
    BY <1>6 DEF Send, RepliesToSender
  <2>3. ASSUME NEW c \in Conns, NEW k \in DOMAIN tx'[c]
        PROVE  tx'[c][k] = {c}
    <3>1. CASE c # fd[cur]
      BY <1>6, <2>3, <3>1 DEF Send, TypeOK, RepliesToSender
    <3>2. CASE c = fd[cur]
      <4>1. tx[c] \in Seq(SUBSET Chunk) /\ tx'[c] = Append(tx[c], {c})
        BY <1>6, <2>2, <2>3, <3>2 DEF Send, TypeOK
      <4>2. \A l \in DOMAIN tx[c] : tx[c][l] = {c}
        BY <2>3 DEF RepliesToSender
      <4> QED BY <2>3, <4>1, <4>2
    <3> QED BY <3>1, <3>2
  <2> QED BY <2>1, <2>3 DEF RepliesToSender
<1>7. ASSUME NEW c \in Conns, Client(c)
      PROVE  RepliesToSender'
  <2>1. CASE Connect(c) \/ ClientSend(c) \/ ClientClose(c)
    BY <2>1 DEF Connect, ClientSend, ClientClose, RepliesToSender
  <2>2. CASE ClientReset(c)
    BY <2>2 DEF ClientReset, RepliesToSender, TypeOK
  <2>3. CASE ClientRead(c)
    <3>1. UNCHANGED serverVars /\ tx' = [tx EXCEPT ![c] = Tail(@)] /\ tx[c] # <<>>
      BY <2>3 DEF ClientRead
    <3>2. ASSUME NEW d \in Conns, NEW k \in DOMAIN tx'[d]
          PROVE  tx'[d][k] = {d}
      <4>1. CASE d # c
        BY <3>1, <3>2, <4>1 DEF TypeOK, RepliesToSender
      <4>2. CASE d = c
        <5>1. tx[d] \in Seq(SUBSET Chunk) /\ tx'[d] = Tail(tx[d]) /\ tx[d] # <<>>
          BY <3>1, <4>2 DEF TypeOK
        <5>2. \A l \in DOMAIN tx[d] : tx[d][l] = {d}
          BY DEF RepliesToSender
        <5>3. k + 1 \in DOMAIN tx[d] /\ tx'[d][k] = tx[d][k + 1]
          BY <3>2, <5>1
        <5> QED BY <5>2, <5>3
      <4> QED BY <4>1, <4>2
    <3> QED BY <3>1, <3>2 DEF RepliesToSender
  <2> QED BY <1>7, <2>1, <2>2, <2>3 DEF Client
<1>8. CASE UNCHANGED vars
  BY <1>8 DEF vars, RepliesToSender
<1> QED
  BY <1>1, <1>2, <1>3, <1>4, <1>5, <1>6, <1>7, <1>8
  DEF Next, ServerStep, Failure, SetupFails, PollFails, OnMessageThrows, SendKills, onSignal

-----------------------------------------------------------------------------
(* The theorems.                                                            *)

LEMMA InitSafety == Init => SafetyInv
<1> SUFFICES ASSUME Init PROVE SafetyInv
  OBVIOUS
<1>1. TypeOK
  BY InitType, ServerAssumption
<1>2. DescriptorAccounting
  BY DEF Init, DescriptorAccounting, Running, Waiting
<1>3. Settled /\ FreshReports
  BY ServerAssumption DEF Init, Settled, FreshReports, Running, Ahead, Slots, ServerAssumption
<1>4. RepliesToSender
  BY DEF Init, RepliesToSender
<1> QED BY <1>1, <1>2, <1>3, <1>4 DEF SafetyInv

LEMMA SafetyStep == SafetyInv /\ [Next]_vars => SafetyInv'
  BY ServerAssumption, TypeStep, AccountingStep, SettledStep, FreshStep, RepliesStep
  DEF SafetyInv

LEMMA SafetyCorrect == Spec => []SafetyInv
  BY InitSafety, SafetyStep, PTL DEF Spec

(* No descriptor leaks, is closed twice or is shared by two slots.          *)
THEOREM AccountingCorrect == Spec => []DescriptorAccounting
<1>1. SafetyInv => DescriptorAccounting
  BY DEF SafetyInv
<1> QED BY <1>1, SafetyCorrect, PTL

(* recv on a blocking socket is only called when it has something to return. *)
THEOREM NeverBlocks == Spec => []RecvNeverBlocks
<1>1. SafetyInv => RecvNeverBlocks
  <2> SUFFICES ASSUME SafetyInv, Handling({POLLIN}), cur # 0
               PROVE  Readable(fd[cur])
    BY DEF RecvNeverBlocks
  <2>1. cur \in ClientSlots /\ fd[cur] # ServerFd
    <3>1. cur \in Slots /\ 0 \in Slots /\ fd[0] = ServerFd
      BY ServerAssumption
      DEF SafetyInv, TypeOK, DescriptorAccounting, Running, Handling, Slots, ServerAssumption
    <3> QED
      BY <3>1, ServerAssumption
      DEF SafetyInv, DescriptorAccounting, Slots, ClientSlots, ServerAssumption
  <2>2. cur \in Ahead /\ fd[cur] \in Conns /\ revents[cur] = {POLLIN}
    BY <2>1, ServerAssumption
    DEF Ahead, ClientSlots, Slots, Handling, SafetyInv, TypeOK, ServerAssumption
  <2> QED BY <2>2 DEF SafetyInv, FreshReports
<1> QED BY <1>1, SafetyCorrect, PTL

(* A reply is computed from the bytes of one connection and sent to it.     *)
THEOREM RepliesCorrect == Spec => []RepliesToSender
<1>1. SafetyInv => RepliesToSender
  BY DEF SafetyInv
<1> QED BY <1>1, SafetyCorrect, PTL

=============================================================================
