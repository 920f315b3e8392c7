----------------------------- MODULE FcsServer -----------------------------
(***************************************************************************)
(* The whole server: connections as ConnectionPool promises them (TcpServer *)
(* implements it), the byte streams of the clients, and MessageHandler      *)
(* answering what recv takes out of a stream.                               *)
(*                                                                          *)
(* recv knows nothing of messages: what it takes, one exchange, may be a    *)
(* request, a part of one or several.  Streams are cut between words; a     *)
(* word is what fromUint32 makes a header of.                               *)
(***************************************************************************)
EXTENDS MessageHandler, ConnectionPool, FiniteSets

CONSTANTS
  Asks,       \* requests a client sends
  MaxWords,   \* kMaxMessageSizeInBytes
  MaxAsked    \* bound: requests on one connection

WordsOf(ask) == <<toUint32(ask.header)>> \o ask.body

\* What the handler sees of some words.
assemble(words) ==
  [size |-> WORD_SIZE * Len(words), header |-> fromUint32(words[1]), body |-> Tail(words)]

\* The length field of a request tells its size, and that is whole words.
ASSUME FcsServerAssumption ==
  /\ \A ask \in Asks : /\ IsRequest(ask)
                       /\ ask.header.length = Len(ask.body)
                       /\ ask.size = WORD_SIZE * (1 + Len(ask.body))
  /\ None \notin Conns
  /\ MaxWords \in Nat \ {0} /\ MaxAsked \in Nat \ {0}

VARIABLES
  link,       \* "none", "up", or how the client has left: "fin" or "reset"
  sent,       \* words the client has sent on the connection
  asked,      \* the requests they are, each with its place among them
  exchanges,  \* on it: words taken by recv, what was asked of the device, the reply
  idle        \* poll has timed out

clientVars == <<link, sent, asked>>
systemVars == <<vars, poolVars, clientVars, exchanges, idle>>

Asked == [request : Asks, from : Nat, to : Nat]
Exchange ==
  [from : Nat, to : Nat,
   calls : Seq([request : [function : FcsFunctions \cup {"none"}, mbox_cmd : Nat,
                           words : Seq(Nat), cmd_data_sz : Nat],
                status : Int]),
   reply : Reply \cup {NoReply}]

SystemTypeOK ==
  /\ link \in [Conns -> {"none", "up", "fin", "reset"}]
  /\ sent \in [Conns -> Seq(Nat)]
  /\ asked \in [Conns -> Seq(Asked)]
  /\ exchanges \in [Conns -> Seq(Exchange)]
  /\ \A c \in Conns : \A k \in DOMAIN exchanges[c] :
       exchanges[c][k].to - exchanges[c][k].from \in 1 .. MaxWords
  /\ idle \in BOOLEAN /\ (idle => serving = None)
  /\ held \subseteq Conns /\ pending \in Seq(Conns)
  /\ serving \in held \cup {None}
  /\ pc = "idle" <=> serving = None

SystemInit ==
  /\ HandlerInit /\ PoolInit
  /\ link = [c \in Conns |-> "none"]
  /\ sent = [c \in Conns |-> <<>>]
  /\ asked = [c \in Conns |-> <<>>]
  /\ exchanges = [c \in Conns |-> <<>>]
  /\ idle = FALSE

\* How many words recv has taken, and the words the kernel still holds: those
\* that came before a reset can be read after it.
taken(c) == IF exchanges[c] = <<>> THEN 0 ELSE exchanges[c][Len(exchanges[c])].to
unread(c) == IF link[c] = "none" THEN <<>> ELSE SubSeq(sent[c], taken(c) + 1, Len(sent[c]))

-----------------------------------------------------------------------------
(* Clients.                                                                 *)

Connect(c) ==
  /\ link[c] = "none" /\ Arrive(c)
  /\ link' = [link EXCEPT ![c] = "up"]
  /\ UNCHANGED <<vars, sent, asked, exchanges, idle>>

\* Also before the reply to the request before it has come.
Ask(c) ==
  /\ link[c] = "up" /\ Len(asked[c]) < MaxAsked
  /\ \E ask \in Asks :
       /\ sent' = [sent EXCEPT ![c] = @ \o WordsOf(ask)]
       /\ asked' = [asked EXCEPT ![c] =
            Append(@, [request |-> ask, from |-> Len(sent[c]), to |-> Len(sent'[c])])]
  /\ UNCHANGED <<vars, poolVars, link, exchanges, idle>>

\* In order, or with a reset: then also after it has closed in order.
Leave(c) ==
  /\ \/ link[c] = "up" /\ link' = [link EXCEPT ![c] = "fin"]
     \/ link[c] \in {"up", "fin"} /\ link' = [link EXCEPT ![c] = "reset"]
  /\ UNCHANGED <<vars, poolVars, sent, asked, exchanges, idle>>

-----------------------------------------------------------------------------
(* The server between two requests.                                         *)

\* The connections in C have ended: a client that connects again starts afresh.
Cleared(f, C) == [c \in Conns |-> IF c \in C THEN <<>> ELSE f[c]]
Gone(C) ==
  /\ link' = [c \in Conns |-> IF c \in C THEN "none" ELSE link[c]]
  /\ sent' = Cleared(sent, C) /\ asked' = Cleared(asked, C)
  /\ exchanges' = Cleared(exchanges, C)

Accept ==
  /\ ~idle /\ Admit
  /\ UNCHANGED <<vars, clientVars, exchanges, idle>>

AcceptFails ==
  /\ ~idle /\ Abandon
  /\ Gone({Head(pending)})
  /\ UNCHANGED <<vars, idle>>

\* recv returns 0 or -1: the client has left.
Close(c) ==
  /\ ~idle /\ serving = None
  /\ link[c] = "reset" \/ (link[c] = "fin" /\ unread(c) = <<>>)
  /\ Release({c})
  /\ Gone({c})
  /\ UNCHANGED <<vars, idle>>

PollTimeout ==
  /\ ~stopped /\ ~idle /\ serving = None /\ pending = <<>>
  /\ \A c \in held : link[c] = "up" /\ unread(c) = <<>>
  /\ idle' = TRUE
  /\ UNCHANGED <<vars, poolVars, clientVars, exchanges>>

\* Whatever has arrived since is lost.
dropUnusedConnections ==
  /\ idle
  /\ Release(held)
  /\ Gone(held)
  /\ idle' = FALSE
  /\ UNCHANGED vars

-----------------------------------------------------------------------------
(* A request: recv, handleIncomingMessage, send.                            *)

\* recv and the call of onMessage, for n words of the stream.
Take(c, n) ==
  /\ ~idle /\ Begin(c)
  /\ LET m == assemble(SubSeq(unread(c), 1, n)) IN m \in Requests /\ Receive(m)
  /\ exchanges' = [exchanges EXCEPT ![c] =
       Append(@, [from |-> taken(c), to |-> taken(c) + n, calls |-> <<>>, reply |-> NoReply])]
  /\ UNCHANGED <<clientVars, idle>>

\* Fault: recv waits until its buffer is full.
RecvAll(c) == Len(unread(c)) >= MaxWords /\ Take(c, MaxWords)

\* Fault: the size of the buffer is not passed to recv.
RecvUnlimited(c) == \E n \in 1 .. Len(unread(c)) : Take(c, n)

\* What has arrived by then, and no more than the buffer takes.
Recv(c) == \E n \in 1 .. MaxWords : n <= Len(unread(c)) /\ Take(c, n)

\* The exchange being made; the device has come back with a status.
Noted(status) ==
  exchanges' = [exchanges EXCEPT ![serving][Len(exchanges[serving])].calls =
                  Append(@, [request |-> request, status |-> status])]

handleIncomingMessage ==
  /\ Handle
  /\ IF step = "ioctl" THEN Noted(data'.status) ELSE UNCHANGED exchanges
  /\ UNCHANGED <<poolVars, clientVars, idle>>

\* The kernel has the reply; the client may read it, or lose it with the connection.
Send ==
  /\ serving # None /\ response # NoReply /\ link[serving] # "reset"
  /\ Return
  /\ Finish
  /\ exchanges' = [exchanges EXCEPT ![serving][Len(exchanges[serving])].reply = response]
  /\ UNCHANGED <<clientVars, idle>>

\* send returns -1: the reply is lost, the connection is kept.
SendFails ==
  /\ serving # None /\ response # NoReply /\ link[serving] = "reset"
  /\ Return
  /\ Finish
  /\ UNCHANGED <<clientVars, exchanges, idle>>

\* Fault: the connection is kept.
NoReplyKept ==
  /\ pc = "done" /\ response = NoReply
  /\ Return
  /\ Finish
  /\ UNCHANGED <<clientVars, exchanges, idle>>

CloseUnanswered ==
  /\ pc = "done" /\ response = NoReply
  /\ Return
  /\ Release({serving})
  /\ Gone({serving})
  /\ UNCHANGED idle

-----------------------------------------------------------------------------
(* The end of the process, at any point (SIGPIPE in send is one), and a new *)
(* one.                                                                     *)

ProcessEnds ==
  /\ Stop
  /\ pc' = "idle" /\ message' = NoMessage /\ protocol' = NoProtocol /\ response' = NoReply
  /\ step' = "idle" /\ request' = NoRequest /\ deviceFds' = 0 /\ data' = NoData
  /\ succeeded' = FALSE /\ fcsStatus' = Unset /\ outBuffer' = 0
  /\ Gone(Conns)
  /\ idle' = FALSE

Restart ==
  /\ stopped
  /\ stopped' = FALSE
  /\ UNCHANGED <<vars, pending, held, serving, clientVars, exchanges, idle>>

Client == \E c \in Conns : Connect(c) \/ Ask(c) \/ Leave(c)

SystemNext ==
  \/ Client
  \/ \E c \in Conns : Close(c) \/ Recv(c)
  \/ Accept \/ AcceptFails \/ PollTimeout \/ dropUnusedConnections
  \/ handleIncomingMessage \/ Send \/ SendFails \/ CloseUnanswered
  \/ ProcessEnds \/ Restart

SystemSpec == SystemInit /\ [][SystemNext]_systemVars

\* The process goes on, and its scan comes to every readable slot whose
\* connection has not been reset (TcpServer's RequestsRead).
SystemFairness ==
  /\ WF_systemVars(handleIncomingMessage) /\ WF_systemVars(CloseUnanswered)
  /\ WF_systemVars(Send) /\ WF_systemVars(SendFails)
  /\ WF_systemVars(dropUnusedConnections)
  /\ \A c \in Conns : SF_systemVars(Recv(c) /\ link[c] # "reset")

FairSystemSpec == SystemSpec /\ SystemFairness

-----------------------------------------------------------------------------
(* Correctness.                                                             *)

\* The exchange has read a request from its beginning; ask i, and it alone.
AtRequest(c, x) == \E i \in DOMAIN asked[c] : x.from = asked[c][i].from
IsAsk(c, x, i) == x.from = asked[c][i].from /\ x.to = asked[c][i].to

(* Where recv has read from the beginning of a request, the device is only  *)
(* asked for what the client has asked for: never for a part of a request   *)
(* or two read together, and never twice for one, whatever was read before  *)
(* and whatever other connections send.  Elsewhere words of a payload are   *)
(* taken for a header.                                                      *)
OnlyAsked ==
  \A c \in Conns : \A k \in DOMAIN exchanges[c] :
    LET x == exchanges[c][k]
    IN AtRequest(c, x) /\ x.calls # <<>> =>
         /\ Len(x.calls) = 1
         /\ \E i \in DOMAIN asked[c] :
              /\ IsAsk(c, x, i) /\ ValidCall(x.calls[1].request, asked[c][i].request)
              /\ \A l \in DOMAIN exchanges[c] \ {k} : ~IsAsk(c, exchanges[c][l], i)

(* The reply to such an exchange names the first request it was read from,  *)
(* and says noError only when the device has carried that very request out, *)
(* with a status that is 0 or that the code field cuts to 0.                *)
AnswersTrue ==
  \A c \in Conns : \A k \in DOMAIN exchanges[c] :
    LET x == exchanges[c][k]
    IN AtRequest(c, x) /\ x.reply # NoReply =>
         \E i \in DOMAIN asked[c] :
           LET ask == asked[c][i]
           IN /\ ask.from = x.from
              /\ x.reply.header.client = ask.request.header.client
              /\ x.reply.header.id = ask.request.header.id
              /\ x.reply.header.code = noError =>
                   /\ IsAsk(c, x, i)
                   /\ x.calls # <<>> /\ x.calls[1].status % CodeRange = 0

(* Replies bear no number, so a client pairs them with what it has sent by  *)
(* their order: the k-th reply on a connection answers the k-th exchange.   *)
(* Once one is missing, because there is none or because send has failed,   *)
(* none follows; and while the connection is held and not reset, none is    *)
(* missing but the one of the exchange being made.  It says what has been   *)
(* sent, not what the client has read: with the connection it may lose any  *)
(* number of replies, and be in doubt about that many exchanges.            *)
RepliesInOrder ==
  \A c \in Conns : \A k \in DOMAIN exchanges[c] :
    exchanges[c][k].reply = NoReply =>
      /\ \A l \in DOMAIN exchanges[c] : l > k => exchanges[c][l].reply = NoReply
      /\ c \in held /\ link[c] # "reset" => serving = c /\ k = Len(exchanges[c])

\* Words of the connection that have been answered.
answered(c) ==
  IF exchanges[c] = <<>> \/ exchanges[c][Len(exchanges[c])].reply # NoReply
  THEN taken(c) ELSE exchanges[c][Len(exchanges[c])].from

(* Every word sent on a connection that is held is answered, also after the *)
(* client has closed its side, unless the connection ends or was reset: no  *)
(* client waits for ever for a reply.                                       *)
Answered ==
  \A c \in Conns : \A n \in 1 .. MaxAsked :
    (c \in held /\ Len(asked[c]) = n)
      ~> \/ c \notin held \/ link[c] = "reset" \/ Len(asked[c]) > n
         \/ answered(c) = Len(sent[c])

=============================================================================
