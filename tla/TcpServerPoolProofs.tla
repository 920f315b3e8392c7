------------------------ MODULE TcpServerPoolProofs ------------------------
(***************************************************************************)
(* The server implements the abstract ConnectionPool, and drops no request *)
(* for nothing, for every number of clients and slots, every buffer size   *)
(* and every set of hang-up reports.                                       *)
(***************************************************************************)
EXTENDS TcpServerProofs, FiniteSetTheorems

-----------------------------------------------------------------------------
(* The connections held.                                                    *)

(* A client slot in use holds a connection; no two hold the same.           *)
LEMMA HeldFacts ==
  ASSUME SafetyInv
  PROVE  /\ Held \subseteq Conns /\ Held \subseteq open
         /\ \A i \in ClientSlots : fd[i] = NoFd \/ fd[i] \in Conns
         /\ \A i \in ClientSlots : fd[i] \in Conns => fd[i] \in Held
         /\ \A i, j \in ClientSlots : fd[i] = fd[j] /\ fd[i] \in Conns => i = j
         /\ ClientSlots \subseteq Slots /\ fd \in [Slots -> Conns \cup {ServerFd, NoFd}]
<1>0. ServerAssumption /\ ClientSlots \subseteq Slots /\ 0 \in Slots /\ 0 \notin ClientSlots
  BY ServerAssumption DEF ServerAssumption, ClientSlots, Slots
<1>1. fd \in [Slots -> Conns \cup {ServerFd, NoFd}]
  BY DEF SafetyInv, TypeOK
<1>2. \A i \in ClientSlots : fd[i] # ServerFd
  <2>1. CASE Running
    BY <1>0, <2>1 DEF SafetyInv, DescriptorAccounting, ServerAssumption
  <2>2. CASE ~Running
    BY <1>0, <2>2 DEF SafetyInv, Settled, ServerAssumption
  <2> QED BY <2>1, <2>2
<1>3. \A i \in ClientSlots : fd[i] = NoFd \/ fd[i] \in Conns
  BY <1>0, <1>1, <1>2
<1>4. Held \subseteq Conns /\ Held \subseteq open
  BY <1>0, <1>3 DEF Held, SafetyInv, DescriptorAccounting
<1>5. \A i \in ClientSlots : fd[i] \in Conns => fd[i] \in Held
  BY <1>0 DEF Held, ServerAssumption
<1>6. \A i, j \in ClientSlots : fd[i] = fd[j] /\ fd[i] \in Conns => i = j
  BY <1>0 DEF SafetyInv, DescriptorAccounting, ServerAssumption
<1> QED BY <1>0, <1>1, <1>3, <1>4, <1>5, <1>6

(* Closing a slot takes its connection, and no other, out of those held.    *)
LEMMA CloseHeld ==
  ASSUME SafetyInv, NEW i \in ClientSlots, fd[i] \in Conns, closeConnectionAndEnableForReuse(i)
  PROVE  Held' = Held \ {fd[i]} /\ fd[i] \in Held
<1>1. \A j \in ClientSlots : fd'[j] = IF j = i THEN NoFd ELSE fd[j]
  BY HeldFacts DEF closeConnectionAndEnableForReuse
<1>2. \A j \in ClientSlots : j # i => fd[j] # fd[i]
  BY HeldFacts
<1>3. Held' = Held \ {fd[i]}
  BY <1>1, <1>2 DEF Held
<1> QED BY <1>3, HeldFacts

(* A free slot that is filled adds its connection.                          *)
LEMMA FillHeld ==
  ASSUME SafetyInv, NEW i \in FreeSlots, NEW c \in Conns, fd' = [fd EXCEPT ![i] = c]
  PROVE  Held' = Held \cup {c}
<1>1. i \in ClientSlots /\ fd[i] = NoFd
  BY DEF FreeSlots
<1>2. \A j \in ClientSlots : fd'[j] = IF j = i THEN c ELSE fd[j]
  BY <1>1, HeldFacts
<1>3. c # NoFd
  BY ServerAssumption DEF ServerAssumption
<1> QED BY <1>1, <1>2, <1>3 DEF Held

(* While there is a free slot the pool is not full.                         *)
LEMMA RoomInPool ==
  ASSUME SafetyInv, NEW k \in FreeSlots
  PROVE  IsFiniteSet(Held) /\ Cardinality(Held) < kMaxNumberOfConnections
<1> DEFINE n == kMaxNumberOfConnections
           used == {i \in ClientSlots : fd[i] # NoFd}
           f == [i \in used |-> fd[i]]
<1>1. n \in Nat \ {0} /\ k \in ClientSlots /\ fd[k] = NoFd
  BY ServerAssumption DEF ServerAssumption, FreeSlots
<1>2. IsFiniteSet(ClientSlots) /\ Cardinality(ClientSlots) = n
  BY <1>1, FS_Interval DEF ClientSlots
<1>3. IsFiniteSet(ClientSlots \ {k}) /\ Cardinality(ClientSlots \ {k}) = n - 1
  BY <1>1, <1>2, FS_RemoveElement
<1>4. used \in SUBSET (ClientSlots \ {k})
  BY <1>1
<1>5. IsFiniteSet(used) /\ Cardinality(used) <= n - 1
  BY <1>3, <1>4, FS_Subset
<1>6. f \in Surjection(used, Held)
  BY DEF Surjection, Held
<1>7. IsFiniteSet(Held) /\ Cardinality(Held) <= Cardinality(used)
  BY <1>5, <1>6, FS_Surjection
<1>8. Cardinality(Held) \in Nat /\ Cardinality(used) \in Nat
  BY <1>5, <1>7, FS_CardinalityType
<1> QED BY <1>1, <1>5, <1>7, <1>8

(* The slot being handled, when it is a client's.                           *)
LEMMA CurrentSlot ==
  ASSUME SafetyInv
  PROVE  /\ Handling({POLLHUP}) \/ Handling({POLLERR}) => cur \in ClientSlots /\ fd[cur] \in Conns
         /\ Handling({POLLIN}) /\ fd[cur] # ServerFd => cur \in ClientSlots /\ fd[cur] \in Conns
         /\ pc \in {"message", "send"} => cur \in ClientSlots /\ fd[cur] \in Conns
  BY ServerAssumption, HandledSlot DEF SafetyInv, Handling

-----------------------------------------------------------------------------
(* Refinement.                                                              *)

(* What a step leaves alone of the pool.                                    *)
LEMMA PoolUnchanged ==
  ASSUME Held' = Held, Serving' = Serving, backlog' = backlog,
         (pc' = "exited") <=> (pc = "exited")
  PROVE  UNCHANGED Pool!poolVars
<1>1. (pc' = "exited") = (pc = "exited")
  OBVIOUS
<1> QED BY <1>1 DEF Pool!poolVars

(* Closing connections is a release.                                        *)
LEMMA PoolRelease ==
  ASSUME NEW S \in SUBSET Held, Serving = NoFd \/ S = {Serving}, Held' = Held \ S,
         Serving' = NoFd, backlog' = backlog, pc # "exited", pc' # "exited"
  PROVE  Pool!PoolNext
<1>1. (pc' = "exited") = (pc = "exited")
  OBVIOUS
<1>2. Pool!Release(S)
  BY <1>1 DEF Pool!Release
<1> QED BY <1>2 DEF Pool!PoolNext

(* The end of the process stops the pool.                                   *)
LEMMA PoolStop ==
  ASSUME Exit, pc # "exited"
  PROVE  Pool!PoolNext
<1>1. \A i \in ClientSlots : fd'[i] = NoFd
  BY ServerAssumption DEF Exit, ClientSlots, Slots, ServerAssumption
<1>2. Held' = {} /\ Serving' = NoFd /\ backlog' = <<>>
  BY <1>1 DEF Exit, Held, Serving
<1>3. (pc' = "exited") = TRUE /\ ~(pc = "exited")
  BY DEF Exit
<1>4. Pool!Stop
  BY <1>2, <1>3 DEF Pool!Stop
<1> QED BY <1>4 DEF Pool!PoolNext

LEMMA PoolInitially == Init => Pool!PoolInit
<1> SUFFICES ASSUME Init PROVE Pool!PoolInit
  OBVIOUS
<1>1. \A i \in ClientSlots : fd[i] = NoFd
  BY ServerAssumption DEF Init, ClientSlots, Slots, ServerAssumption
<1>2. Held = {} /\ Serving = NoFd /\ backlog = <<>>
  BY <1>1 DEF Init, Held, Serving
<1>3. (pc = "exited") = FALSE
  BY DEF Init
<1> QED BY <1>2, <1>3 DEF Pool!PoolInit

(* Every step of the server is a step of the pool, or none.                 *)
LEMMA PoolStep ==
  ASSUME SafetyInv, [Next]_vars
  PROVE  [Pool!PoolNext]_Pool!poolVars
<1> USE DEF netVars, serverVars
<1>a. ServerAssumption
  BY ServerAssumption
<1>1. CASE Exit /\ pc # "exited"
  BY <1>1, PoolStop
<1>2. CASE setup
  <2>1. \A i \in ClientSlots : fd[i] = NoFd /\ fd'[i] = NoFd
    BY <1>2, <1>a DEF setup, SafetyInv, Settled, Running, ClientSlots, Slots, ServerAssumption
  <2>2. Held' = Held /\ Serving' = Serving
    BY <1>2, <2>1 DEF setup, Held, Serving
  <2> QED BY <1>2, <2>2, PoolUnchanged DEF setup
<1>3. CASE \/ PollReady \/ PollTimeout \/ NoEvent \/ AcceptNoSlot \/ OnMessageReply
  <2>1. /\ UNCHANGED <<fd, backlog>> /\ pc # "exited" /\ pc' # "exited"
        /\ Serving' = Serving
    BY <1>3 DEF PollReady, PollTimeout, NoEvent, AcceptNoSlot, Handling, OnMessageReply,
                Serving, NextSlot
  <2>2. Held' = Held
    BY <2>1 DEF Held
  <2> QED BY <2>1, <2>2, PoolUnchanged
<1>4. CASE dropUnusedConnections
  <2>1. \A i \in ClientSlots : fd'[i] = NoFd
    BY <1>4, HeldFacts DEF dropUnusedConnections
  <2>2. Held' = Held \ Held /\ Serving = NoFd /\ Serving' = NoFd
    BY <1>4, <2>1 DEF dropUnusedConnections, Held, Serving
  <2>3. backlog' = backlog /\ pc # "exited" /\ pc' # "exited"
    BY <1>4 DEF dropUnusedConnections
  <2> QED BY <2>2, <2>3, PoolRelease
<1>5. CASE HandleHangup \/ RecvEnd \/ OnMessageNoData
  <2>1. /\ cur \in ClientSlots /\ fd[cur] \in Conns
        /\ closeConnectionAndEnableForReuse(cur)
        /\ backlog' = backlog /\ pc # "exited" /\ pc' # "exited"
        /\ Serving' = NoFd /\ (Serving = NoFd \/ Serving = fd[cur])
    BY <1>5, CurrentSlot
    DEF HandleHangup, RecvEnd, OnMessageNoData, Handling, NextSlot, Serving
  <2>2. Held' = Held \ {fd[cur]} /\ {fd[cur]} \in SUBSET Held
    BY <2>1, CloseHeld
  <2>3. Serving = NoFd \/ {fd[cur]} = {Serving}
    BY <2>1
  <2> QED BY <2>1, <2>2, <2>3, PoolRelease
<1>6. CASE acceptConnection
  <2>1. PICK k \in ClientSlots : IsFirstFree(k) /\ fd' = [fd EXCEPT ![k] = Head(backlog)]
    BY <1>6 DEF acceptConnection
  <2>2. k \in FreeSlots
    BY <2>1 DEF IsFirstFree
  <2>3. backlog # <<>> /\ backlog' = Tail(backlog) /\ Head(backlog) \in Conns
    BY <1>6 DEF acceptConnection, SafetyInv, TypeOK
  <2>4. Held' = Held \cup {Head(backlog)}
    BY <2>1, <2>2, <2>3, FillHeld
  <2>5. Cardinality(Held) < kMaxNumberOfConnections
    BY <2>2, RoomInPool
  <2>6. Serving = NoFd /\ Serving' = NoFd /\ pc # "exited" /\ pc' # "exited"
    BY <1>6 DEF acceptConnection, Handling, NextSlot, Serving
  <2>7. (pc' = "exited") = (pc = "exited")
    BY <2>6
  <2>8. Pool!Cardinality(Held) = Cardinality(Held)
    BY DEF Pool!Cardinality, Cardinality
  <2>9. Pool!Admit
    BY <2>3, <2>4, <2>5, <2>6, <2>7, <2>8 DEF Pool!Admit
  <2> QED BY <2>9 DEF Pool!PoolNext
<1>7. CASE AcceptFails
  <2>1. Serving = NoFd /\ Serving' = NoFd /\ pc # "exited" /\ pc' # "exited" /\ fd' = fd
    BY <1>7 DEF AcceptFails, Handling, NextSlot, Serving
  <2>2. Held' = Held /\ Serving' = Serving /\ (pc' = "exited") = (pc = "exited")
    BY <2>1 DEF Held
  <2>3. CASE backlog' = backlog
    BY <2>1, <2>2, <2>3, PoolUnchanged
  <2>4. CASE backlog # <<>> /\ backlog' = Tail(backlog)
    <3>1. Pool!Abandon
      BY <2>1, <2>2, <2>4 DEF Pool!Abandon
    <3> QED BY <3>1 DEF Pool!PoolNext
  <2> QED BY <1>7, <2>3, <2>4 DEF AcceptFails
<1>8. CASE RecvData
  <2>1. cur \in ClientSlots /\ fd[cur] \in Conns
    BY <1>8, CurrentSlot DEF RecvData
  <2>2. /\ UNCHANGED <<fd, cur, backlog>> /\ pc = "scan" /\ pc' = "message"
    BY <1>8 DEF RecvData, Handling
  <2>3. Held' = Held /\ Serving = NoFd /\ Serving' = fd[cur] /\ fd[cur] \in Held
    BY <2>1, <2>2, HeldFacts DEF Held, Serving
  <2>4. (pc' = "exited") = (pc = "exited")
    BY <2>2
  <2>5. Pool!Begin(fd[cur])
    BY <2>2, <2>3, <2>4 DEF Pool!Begin
  <2> QED BY <2>1, <2>5 DEF Pool!PoolNext
<1>9. CASE Send \/ SendFails
  <2>1. fd[cur] \in Conns /\ fd[cur] # NoFd
    BY <1>9, <1>a, CurrentSlot DEF Send, SendFails, ServerAssumption
  <2>2. UNCHANGED <<fd, backlog>> /\ pc = "send" /\ pc' \in {"poll", "scan"}
    BY <1>9 DEF Send, SendFails, NextSlot
  <2>3. Held' = Held /\ Serving # NoFd /\ Serving' = NoFd
    BY <2>1, <2>2 DEF Held, Serving
  <2>4. (pc' = "exited") = (pc = "exited")
    BY <2>2
  <2>5. Pool!Finish
    BY <2>2, <2>3, <2>4 DEF Pool!Finish
  <2> QED BY <2>5 DEF Pool!PoolNext
<1>10. ASSUME NEW c \in Conns, Connect(c) PROVE Pool!PoolNext
  <2>1. UNCHANGED <<pc, cur, fd>> /\ pc # "exited" /\ backlog' = Append(backlog, c)
    BY <1>10 DEF Connect, Running
  <2>2. Held' = Held /\ Serving' = Serving /\ (pc' = "exited") = (pc = "exited")
    BY <2>1 DEF Held, Serving
  <2>3. c \notin open /\ c \notin Waiting
    BY <1>10 DEF Connect, SafetyInv, DescriptorAccounting
  <2>4. c \notin Held /\ \A k \in DOMAIN backlog : backlog[k] # c
    BY <2>3, HeldFacts DEF Waiting
  <2>5. Pool!Arrive(c)
    BY <2>1, <2>2, <2>4 DEF Pool!Arrive
  <2> QED BY <2>5 DEF Pool!PoolNext
<1>11. ASSUME \/ UNCHANGED vars
              \/ \E c \in Conns : ClientSend(c) \/ ClientRead(c) \/ ClientClose(c) \/ ClientReset(c)
       PROVE  UNCHANGED Pool!poolVars
  <2>1. UNCHANGED <<pc, cur, fd, backlog>>
    BY <1>11 DEF ClientSend, ClientRead, ClientClose, ClientReset, vars
  <2>2. Held' = Held /\ Serving' = Serving
    BY <2>1 DEF Held, Serving
  <2> QED BY <2>1, <2>2, PoolUnchanged
<1>12. CASE Failure
  <2>1. AcceptFails \/ (Exit /\ pc # "exited")
    BY <1>12 DEF Failure, SetupFails, PollFails, OnMessageThrows, SendKills, onSignal
  <2> QED BY <1>1, <1>7, <2>1
<1> QED
  BY <1>2, <1>3, <1>4, <1>5, <1>6, <1>8, <1>9, <1>10, <1>11, <1>12
  DEF Next, ServerStep, Client

(* The table, the scan and the kernel queues implement ConnectionPool: the  *)
(* connections are admitted in order, never more than there are slots, one  *)
(* is served at a time, and none is taken away while another is served.     *)
THEOREM PoolImplemented == Spec => ImplementsPool
  BY PoolInitially, PoolStep, SafetyCorrect, PTL DEF Spec, ImplementsPool, Pool!PoolSpec

-----------------------------------------------------------------------------
(* Requests dropped.                                                        *)

\* Of a slot ahead, any report but POLLIN comes from a reset.
HangupReports ==
  \A i \in Ahead :
    fd[i] \in Conns /\ revents[i] \notin {{}, {POLLIN}} => link[fd[i]] = "reset"

(* A step of the scan that leaves the slots ahead and their resets alone.   *)
LEMMA HangupStays ==
  ASSUME HangupReports, Ahead' \subseteq Ahead, revents' = revents,
         \A i \in Ahead' : fd'[i] \in Conns /\ revents[i] # {} =>
            fd'[i] = fd[i] /\ (link[fd[i]] = "reset" => link'[fd[i]] = "reset")
  PROVE  HangupReports'
  BY DEF HangupReports

LEMMA HangupStep ==
  ASSUME SafetyInv, HangupReports, [Next]_vars
  PROVE  HangupReports'
<1> USE DEF netVars, serverVars
<1>a. ServerAssumption
  BY ServerAssumption
<1>0. /\ TypeOK /\ DescriptorAccounting /\ FreshReports
      /\ 0 \in Slots /\ cur \in Slots /\ ClientSlots \subseteq Slots
      /\ Ahead \subseteq ClientSlots /\ Ahead' \subseteq ClientSlots
  BY <1>a DEF Slots, ClientSlots, Ahead, ServerAssumption, SafetyInv, TypeOK
<1>1. CASE Exit \/ setup \/ PollTimeout \/ dropUnusedConnections
  BY <1>1 DEF Exit, setup, PollTimeout, dropUnusedConnections, HangupReports, Ahead
<1>2. CASE PollReady
  <2>1. PICK h \in HangupRevents : revents' = [i \in Slots |-> Reported(fd[i], h)]
    BY <1>2 DEF PollReady
  <2>2. fd' = fd /\ link' = link
    BY <1>2 DEF PollReady
  <2>3. ASSUME NEW i \in ClientSlots, fd[i] \in Conns, revents'[i] \notin {{}, {POLLIN}}
        PROVE  link[fd[i]] = "reset"
    <3>1. Reported(fd[i], h) = revents'[i]
      BY <1>0, <2>1
    <3>2. fd[i] # NoFd /\ fd[i] # ServerFd
      BY <1>a, <2>3 DEF ServerAssumption
    <3> QED BY <2>3, <3>1, <3>2 DEF Reported
  <2> QED BY <1>0, <2>2, <2>3 DEF HangupReports
<1>3. CASE NoEvent \/ AcceptNoSlot \/ Send \/ SendFails
  <2>1. /\ NextSlot /\ pc \in {"scan", "send"} /\ UNCHANGED <<fd, revents, link>>
    BY <1>3 DEF NoEvent, AcceptNoSlot, Handling, Send, SendFails
  <2>2. Ahead' \subseteq Ahead
    BY <1>0, <1>a, <2>1, NextSlotAhead
  <2> QED BY <2>1, <2>2, HangupStays
<1>4. CASE HandleHangup \/ RecvEnd \/ OnMessageNoData
  <2>1. /\ NextSlot /\ pc \in {"scan", "message"} /\ revents' = revents
        /\ closeConnectionAndEnableForReuse(cur) /\ cur \in ClientSlots /\ fd[cur] \in Conns
    BY <1>4, CurrentSlot DEF HandleHangup, RecvEnd, OnMessageNoData, Handling
  <2>2. Ahead' \subseteq Ahead \ {cur}
    BY <1>0, <1>a, <2>1, NextSlotAhead
  <2>3. ASSUME NEW i \in Ahead', fd'[i] \in Conns
        PROVE  fd'[i] = fd[i] /\ (link[fd[i]] = "reset" => link'[fd[i]] = "reset")
    <3>1. i \in ClientSlots /\ i # cur
      BY <1>0, <2>2
    <3>2. fd'[i] = fd[i]
      BY <2>1, <3>1, HeldFacts DEF closeConnectionAndEnableForReuse
    <3>3. fd[i] # fd[cur] /\ fd[i] \in Conns
      BY <2>1, <2>3, <3>1, <3>2, HeldFacts
    <3> QED BY <2>1, <3>2, <3>3 DEF closeConnectionAndEnableForReuse, Disconnect
  <2> QED BY <2>1, <2>2, <2>3, HangupStays
<1>5. CASE acceptConnection
  <2>1. /\ NextSlot /\ pc = "scan" /\ cur = 0 /\ UNCHANGED <<revents, link>>
    BY <1>5, <1>a, HandledSlot DEF acceptConnection, Handling, SafetyInv
  <2>2. PICK k \in ClientSlots : k \in FreeSlots /\ fd' = [fd EXCEPT ![k] = Head(backlog)]
    BY <1>5 DEF acceptConnection, IsFirstFree
  <2>3. revents[k] = {}
    BY <1>0, <2>1, <2>2 DEF FreshReports
  <2>4. \A i \in Ahead' : revents[i] # {} => fd'[i] = fd[i]
    BY <1>0, <2>2, <2>3, HeldFacts
  <2>5. Ahead' \subseteq Ahead
    BY <1>0, <1>a, <2>1, NextSlotAhead
  <2> QED BY <2>1, <2>4, <2>5, HangupStays
<1>6. CASE AcceptFails
  <2>1. NextSlot /\ pc = "scan" /\ UNCHANGED <<fd, revents>>
    BY <1>6 DEF AcceptFails, Handling
  <2>2. ASSUME NEW i \in Ahead', fd'[i] \in Conns, link[fd[i]] = "reset"
        PROVE  link'[fd[i]] = "reset"
    <3>1. fd[i] \in open /\ fd[i] \in Conns
      BY <1>0, <2>1, <2>2, HeldFacts
    <3>2. CASE UNCHANGED netVars
      BY <2>2, <3>2
    <3>3. CASE backlog # <<>> /\ backlog' = Tail(backlog) /\ Disconnect({Head(backlog)})
      <4>1. Head(backlog) \in Waiting
        BY <1>0, <3>3, TailOfBacklog
      <4>2. Head(backlog) # fd[i]
        BY <1>0, <3>1, <4>1 DEF DescriptorAccounting
      <4> QED BY <2>2, <3>1, <3>3, <4>2 DEF Disconnect
    <3> QED BY <1>6, <3>2, <3>3 DEF AcceptFails
  <2>3. Ahead' \subseteq Ahead
    BY <1>0, <1>a, <2>1, NextSlotAhead
  <2> QED BY <2>1, <2>2, <2>3, HangupStays
<1>7. CASE RecvData \/ OnMessageReply
  <2>1. UNCHANGED <<cur, fd, revents, link>>
    BY <1>7 DEF RecvData, OnMessageReply
  <2>2. Ahead' \subseteq Ahead
    BY <1>7, <2>1, <1>a, <1>0
    DEF RecvData, OnMessageReply, Handling, Ahead, ClientSlots, Slots, ServerAssumption
  <2> QED BY <2>1, <2>2, HangupStays
<1>8. ASSUME NEW c \in Conns, Client(c)
      PROVE  HangupReports'
  <2>1. Ahead' = Ahead /\ UNCHANGED <<fd, revents>>
    BY <1>8 DEF Client, Connect, ClientSend, ClientRead, ClientClose, ClientReset, Ahead
  <2>2. \A d \in Conns : link[d] = "reset" => link'[d] = "reset"
    BY <1>0, <1>8 DEF Client, Connect, ClientSend, ClientRead, ClientClose, ClientReset, TypeOK
  <2> QED BY <2>1, <2>2, HangupStays
<1>9. CASE UNCHANGED vars
  BY <1>9 DEF vars, HangupReports, Ahead
<1> QED
  BY <1>1, <1>2, <1>3, <1>4, <1>5, <1>6, <1>7, <1>8, <1>9
  DEF Next, ServerStep, Failure, SetupFails, PollFails, OnMessageThrows, SendKills, onSignal

LEMMA HangupCorrect == Spec => []HangupReports
<1>1. Init => HangupReports
  BY DEF Init, HangupReports, Ahead
<1>2. SafetyInv /\ HangupReports /\ [Next]_vars => HangupReports'
  BY HangupStep
<1> QED BY <1>1, <1>2, SafetyCorrect, PTL DEF Spec

(* A connection with requests unread is only closed by the idle timeout, by *)
(* a handler without data, after a reset or with the process: never because *)
(* a reply was sent or the client has closed its side.                      *)
THEOREM RequestsKept == Spec => NoRequestDropped
<1> DEFINE Kept == \A c \in Held : c \notin Held' /\ rx[c] > 0
                     => \/ pc \in {"drop", "message"}
                        \/ link[c] = "reset"
                        \/ pc' = "exited"
<1>1. SafetyInv /\ HangupReports /\ [Next]_vars => [Kept]_vars
  <2> SUFFICES ASSUME SafetyInv, HangupReports, Next,
                      NEW c \in Held, c \notin Held', rx[c] > 0
               PROVE  pc \in {"drop", "message"} \/ link[c] = "reset" \/ pc' = "exited"
    OBVIOUS
  <2> USE DEF netVars, serverVars
  <2>1. CASE Exit \/ dropUnusedConnections \/ OnMessageNoData
    BY <2>1 DEF Exit, dropUnusedConnections, OnMessageNoData
  <2>2. CASE HandleHangup
    <3>1. cur \in ClientSlots /\ fd[cur] \in Conns /\ closeConnectionAndEnableForReuse(cur)
      BY <2>2, CurrentSlot DEF HandleHangup
    <3>2. c = fd[cur]
      BY <3>1, CloseHeld
    <3>3. cur \in Ahead /\ revents[cur] \notin {{}, {POLLIN}}
      BY <2>2, <3>1, ServerAssumption
      DEF HandleHangup, Handling, Ahead, ClientSlots, ServerAssumption, POLLIN, POLLHUP, POLLERR
    <3> QED BY <3>1, <3>2, <3>3 DEF HangupReports
  <2>3. CASE RecvEnd
    <3>1. cur \in ClientSlots /\ fd[cur] \in Conns /\ closeConnectionAndEnableForReuse(cur)
      BY <2>3, CurrentSlot DEF RecvEnd
    <3>2. c = fd[cur]
      BY <3>1, CloseHeld
    <3> QED BY <2>3, <3>2 DEF RecvEnd
  <2>4. CASE acceptConnection
    <3>1. PICK k \in ClientSlots : IsFirstFree(k) /\ fd' = [fd EXCEPT ![k] = Head(backlog)]
      BY <2>4 DEF acceptConnection
    <3>2. k \in FreeSlots /\ Head(backlog) \in Conns
      BY <2>4, <3>1 DEF IsFirstFree, acceptConnection, SafetyInv, TypeOK
    <3>3. Held' = Held \cup {Head(backlog)}
      BY <3>1, <3>2, FillHeld
    <3> QED BY <3>3
  <2>5. CASE setup
    <3>1. Held = {}
      BY <2>5, HeldFacts DEF setup, Held, SafetyInv, Settled, Running
    <3> QED BY <3>1
  <2>6. CASE \/ PollReady \/ PollTimeout \/ NoEvent \/ AcceptNoSlot \/ AcceptFails
             \/ RecvData \/ OnMessageReply \/ Send \/ SendFails
             \/ \E d \in Conns : Client(d)
    <3>1. fd' = fd
      BY <2>6 DEF PollReady, PollTimeout, NoEvent, AcceptNoSlot, AcceptFails, RecvData,
                  OnMessageReply, Send, SendFails, Client, Connect, ClientSend, ClientRead,
                  ClientClose, ClientReset
    <3> QED BY <3>1 DEF Held
  <2> QED
    BY <2>1, <2>2, <2>3, <2>4, <2>5, <2>6
    DEF Next, ServerStep, Failure, SetupFails, PollFails, OnMessageThrows, SendKills, onSignal
<1>2. NoRequestDropped <=> [][Kept]_vars
  BY DEF NoRequestDropped
<1> QED BY <1>1, SafetyCorrect, HangupCorrect, PTL DEF Spec, NoRequestDropped

=============================================================================
