-------------------------- MODULE FcsServerProofs --------------------------
(***************************************************************************)
(* Proofs about the whole server, for every number of clients and slots,   *)
(* every set of requests, however the streams are cut, and with the        *)
(* process ending at any point: what is proved of the handler holds in the *)
(* system, replies come in order, and the device is asked for no more than *)
(* clients have asked for.                                                 *)
(***************************************************************************)
EXTENDS FcsServer, MessageHandlerProofs, CommandHeaderProofs

\* Nothing has been read from a connection that is not held, and those that wait
\* for accept are such, none of them twice.
PendingFresh ==
  /\ \A c \in Conns : c \notin held => exchanges[c] = <<>>
  /\ \A k \in DOMAIN pending : pending[k] \notin held
  /\ \A j, k \in DOMAIN pending : pending[j] = pending[k] => j = k

\* The request being served has its exchange.
ServedHasExchange == serving # None => exchanges[serving] # <<>>

SystemInv ==
  /\ HandlerInv
  /\ SystemTypeOK
  /\ RepliesInOrder
  /\ PendingFresh
  /\ ServedHasExchange

-----------------------------------------------------------------------------
(* The two halves of the type invariant.                                    *)

HistoryTypeOK ==
  /\ sent \in [Conns -> Seq(Nat)]
  /\ asked \in [Conns -> Seq(Asked)]
  /\ exchanges \in [Conns -> Seq(Exchange)]
  /\ \A c \in Conns : \A k \in DOMAIN exchanges[c] :
       exchanges[c][k].to - exchanges[c][k].from \in 1 .. MaxWords

PoolTypeOK ==
  /\ link \in [Conns -> {"none", "up", "fin", "reset"}]
  /\ idle \in BOOLEAN /\ (idle => serving = None)
  /\ held \subseteq Conns /\ pending \in Seq(Conns)
  /\ serving \in held \cup {None}
  /\ pc = "idle" <=> serving = None

LEMMA TypeParts ==
  /\ SystemTypeOK <=> HistoryTypeOK /\ PoolTypeOK
  /\ SystemTypeOK' <=> HistoryTypeOK' /\ PoolTypeOK'
BY DEF SystemTypeOK, HistoryTypeOK, PoolTypeOK

LEMMA HistoryKept ==
  ASSUME HistoryTypeOK, UNCHANGED <<sent, asked, exchanges>>
  PROVE  HistoryTypeOK'
BY DEF HistoryTypeOK

\* Connections that have ended leave nothing behind, and the others untouched.
Ended(c) ==
  link'[c] = "none" /\ sent'[c] = <<>> /\ asked'[c] = <<>> /\ exchanges'[c] = <<>>
Untouched(c) ==
  /\ link'[c] = link[c] /\ sent'[c] = sent[c] /\ asked'[c] = asked[c]
  /\ exchanges'[c] = exchanges[c]

LEMMA GoneFacts ==
  ASSUME SystemTypeOK, NEW C, Gone(C)
  PROVE  /\ link' \in [Conns -> {"none", "up", "fin", "reset"}]
         /\ HistoryTypeOK'
         /\ \A c \in Conns : IF c \in C THEN Ended(c) ELSE Untouched(c)
<1>1. /\ link' = [c \in Conns |-> IF c \in C THEN "none" ELSE link[c]]
      /\ sent' = [c \in Conns |-> IF c \in C THEN <<>> ELSE sent[c]]
      /\ asked' = [c \in Conns |-> IF c \in C THEN <<>> ELSE asked[c]]
      /\ exchanges' = [c \in Conns |-> IF c \in C THEN <<>> ELSE exchanges[c]]
  BY DEF Gone, Cleared
<1>2. /\ link' \in [Conns -> {"none", "up", "fin", "reset"}]
      /\ \A c \in Conns : IF c \in C THEN Ended(c) ELSE Untouched(c)
  BY <1>1 DEF SystemTypeOK, Ended, Untouched
<1>3. sent' \in [Conns -> Seq(Nat)] /\ asked' \in [Conns -> Seq(Asked)]
  BY <1>1 DEF SystemTypeOK
<1>4. exchanges' \in [Conns -> Seq(Exchange)]
  BY <1>1 DEF SystemTypeOK
<1>5. \A c \in Conns : \A k \in DOMAIN exchanges'[c] :
        exchanges'[c][k].to - exchanges'[c][k].from \in 1 .. MaxWords
  <2>1. SUFFICES ASSUME NEW c \in Conns, NEW k \in DOMAIN exchanges'[c]
                 PROVE  exchanges'[c][k].to - exchanges'[c][k].from \in 1 .. MaxWords
    OBVIOUS
  <2>2. DOMAIN <<>> = {}
    OBVIOUS
  <2>3. exchanges'[c] = exchanges[c]
    BY <1>1, <2>2
  <2>4. QED
    BY <2>3 DEF SystemTypeOK
<1>6. QED
  BY <1>2, <1>3, <1>4, <1>5 DEF HistoryTypeOK

\* Replies of connections that have ended are no matter any more.
LEMMA GoneReplies ==
  ASSUME SystemTypeOK, RepliesInOrder, NEW C, Gone(C), held' = held \ C,
         serving' = None, serving \in C \cup {None}
  PROVE  RepliesInOrder'
<1>1. SUFFICES ASSUME NEW c \in Conns, NEW k \in DOMAIN exchanges'[c],
                      exchanges'[c][k].reply = NoReply
               PROVE  /\ \A l \in DOMAIN exchanges'[c] :
                           l > k => exchanges'[c][l].reply = NoReply
                      /\ ~(c \in held' /\ link'[c] # "reset")
  BY DEF RepliesInOrder
<1>2. DOMAIN <<>> = {}
  OBVIOUS
<1>3. c \notin C /\ Untouched(c)
  BY <1>1, <1>2, GoneFacts DEF Ended
<1>4. c # None
  BY FcsServerAssumption DEF FcsServerAssumption
<1>5. QED
  BY <1>1, <1>3, <1>4 DEF RepliesInOrder, Untouched

LEMMA SystemInitInv == SystemInit => SystemInv
<1> SUFFICES ASSUME SystemInit PROVE SystemInv
  OBVIOUS
<1>1. HandlerInv
  BY HandlerInitInv DEF SystemInit
<1>2. /\ pc = "idle" /\ pending = <<>> /\ held = {} /\ serving = None /\ idle = FALSE
      /\ link = [c \in Conns |-> "none"]
      /\ sent = [c \in Conns |-> <<>>] /\ asked = [c \in Conns |-> <<>>]
      /\ exchanges = [c \in Conns |-> <<>>]
  BY DEF SystemInit, HandlerInit, PoolInit
<1>3. /\ sent \in [Conns -> Seq(Nat)]
      /\ asked \in [Conns -> Seq(Asked)]
      /\ exchanges \in [Conns -> Seq(Exchange)]
  BY <1>2
<1>4. \A c \in Conns : DOMAIN exchanges[c] = {}
  BY <1>2
<1>5. SystemTypeOK
  <2>1. idle \in BOOLEAN /\ (idle => serving = None)
    BY <1>2
  <2>2. /\ link \in [Conns -> {"none", "up", "fin", "reset"}]
        /\ held \subseteq Conns /\ pending \in Seq(Conns) /\ serving \in held \cup {None}
    BY <1>2
  <2>3. pc = "idle" <=> serving = None
    BY <1>2
  <2>4. QED
    BY <1>3, <1>4, <2>1, <2>2, <2>3 DEF SystemTypeOK
<1>6. RepliesInOrder /\ PendingFresh /\ ServedHasExchange
  BY <1>2, <1>4 DEF RepliesInOrder, PendingFresh, ServedHasExchange
<1>7. QED
  BY <1>1, <1>5, <1>6 DEF SystemInv

-----------------------------------------------------------------------------
(* Steps that leave the handler alone.                                      *)

LEMMA ConnectInv == ASSUME SystemInv, NEW c \in Conns, Connect(c) PROVE SystemInv'
<1>1. /\ UNCHANGED <<vars, idle, stopped, held, serving>>
      /\ c \notin held /\ \A k \in DOMAIN pending : pending[k] # c
      /\ pending' = Append(pending, c)
      /\ link[c] = "none" /\ link' = [link EXCEPT ![c] = "up"]
      /\ UNCHANGED <<sent, asked, exchanges>>
  BY DEF Connect, Arrive
<1>2. HandlerInv' /\ UNCHANGED pc
  BY <1>1, StutterInv DEF SystemInv, vars, handlerVars
<1>3. SystemTypeOK'
  <2>1. PoolTypeOK'
    BY <1>1, <1>2 DEF SystemInv, SystemTypeOK, PoolTypeOK
  <2>2. HistoryTypeOK'
    BY <1>1, TypeParts, HistoryKept DEF SystemInv
  <2>3. QED
    BY <2>1, <2>2, TypeParts
<1>4. RepliesInOrder'
  BY <1>1 DEF SystemInv, SystemTypeOK, RepliesInOrder
<1>5. PendingFresh'
  <2>1. pending \in Seq(Conns)
    BY DEF SystemInv, SystemTypeOK
  <2>2. \A k \in DOMAIN pending' :
          \/ k \in DOMAIN pending /\ pending'[k] = pending[k]
          \/ k = Len(pending) + 1 /\ pending'[k] = c
    BY <1>1, <2>1
  <2>3. QED
    BY <1>1, <2>1, <2>2 DEF SystemInv, PendingFresh
<1>6. ServedHasExchange'
  BY <1>1 DEF SystemInv, ServedHasExchange
<1>7. QED
  BY <1>2, <1>3, <1>4, <1>5, <1>6 DEF SystemInv

(* The words of a request, and what the handler makes of them.              *)
LEMMA WordsOfAsk ==
  ASSUME NEW ask \in Asks
  PROVE  /\ WordsOf(ask) \in Seq(Nat)
         /\ Len(WordsOf(ask)) = 1 + Len(ask.body)
         /\ assemble(WordsOf(ask)) = ask
<1>1. /\ ask \in [size : Nat, header : Header, body : Seq(Nat)]
      /\ ask.size = WORD_SIZE * (1 + Len(ask.body))
  BY FcsServerAssumption DEF FcsServerAssumption, IsRequest
<1> DEFINE w == toUint32(ask.header)
<1>2. w \in Nat /\ fromUint32(w) = ask.header
  BY <1>1, EncodedIsNat, ParseEncoded
<1> HIDE DEF w
<1>3. <<w>> \in Seq(Nat) /\ ask.body \in Seq(Nat) /\ Len(<<w>>) = 1 /\ <<w>>[1] = w
  BY <1>1, <1>2
<1> DEFINE ws == <<w>> \o ask.body
<1>4. /\ ws \in Seq(Nat) /\ Len(ws) = 1 + Len(ask.body)
      /\ \A i \in 1 .. 1 + Len(ask.body) : ws[i] = IF i <= 1 THEN <<w>>[i] ELSE ask.body[i - 1]
  BY <1>3, ConcatProperties
<1> HIDE DEF ws
<1>5. ws[1] = w
  BY <1>1, <1>3, <1>4
<1>6. Tail(ws) = ask.body
  <2>1. ws # <<>>
    BY <1>1, <1>4
  <2>2. /\ Tail(ws) \in Seq(Nat) /\ Len(Tail(ws)) = Len(ws) - 1
        /\ \A i \in 1 .. Len(Tail(ws)) : Tail(ws)[i] = ws[i + 1]
    BY <1>4, <2>1, HeadTailProperties
  <2>3. Len(Tail(ws)) = Len(ask.body) /\ Len(ask.body) \in Nat
    BY <1>1, <1>4, <2>2
  <2>4. \A i \in 1 .. Len(Tail(ws)) : Tail(ws)[i] = ask.body[i]
    BY <1>4, <2>2, <2>3
  <2>5. QED
    BY <1>3, <2>2, <2>3, <2>4, SeqEqual
<1>7. WordsOf(ask) = ws
  BY DEF WordsOf, ws, w
<1>8. assemble(ws) = [size |-> ask.size, header |-> ask.header, body |-> ask.body]
  BY <1>1, <1>2, <1>4, <1>5, <1>6 DEF assemble
<1>9. QED
  BY <1>1, <1>4, <1>7, <1>8

LEMMA AskInv == ASSUME SystemInv, NEW c \in Conns, Ask(c) PROVE SystemInv'
<1>1. PICK ask \in Asks :
        /\ sent' = [sent EXCEPT ![c] = @ \o WordsOf(ask)]
        /\ asked' = [asked EXCEPT ![c] =
             Append(@, [request |-> ask, from |-> Len(sent[c]), to |-> Len(sent'[c])])]
        /\ UNCHANGED <<vars, poolVars, link, exchanges, idle>>
  BY DEF Ask
<1>2. HandlerInv' /\ UNCHANGED pc
  BY <1>1, StutterInv DEF SystemInv, vars, handlerVars
<1>3. sent[c] \o WordsOf(ask) \in Seq(Nat)
  BY WordsOfAsk, ConcatProperties DEF SystemInv, SystemTypeOK
<1>4. sent' \in [Conns -> Seq(Nat)] /\ sent[c] \in Seq(Nat) /\ sent'[c] \in Seq(Nat)
  BY <1>1, <1>3 DEF SystemInv, SystemTypeOK
<1>5. asked' \in [Conns -> Seq(Asked)]
  <2> DEFINE a == [request |-> ask, from |-> Len(sent[c]), to |-> Len(sent'[c])]
  <2>1. a \in Asked
    BY <1>4 DEF Asked
  <2> HIDE DEF a
  <2>2. asked' = [asked EXCEPT ![c] = Append(@, a)]
    BY <1>1 DEF a
  <2>3. QED
    BY <2>1, <2>2 DEF SystemInv, SystemTypeOK
<1>6. UNCHANGED <<stopped, pending, held, serving, link, exchanges, idle>>
  BY <1>1 DEF poolVars
<1>7. SystemTypeOK'
  <2>1. PoolTypeOK'
    BY <1>2, <1>6 DEF SystemInv, SystemTypeOK, PoolTypeOK
  <2>2. HistoryTypeOK'
    BY <1>4, <1>5, <1>6 DEF SystemInv, SystemTypeOK, HistoryTypeOK
  <2>3. QED
    BY <2>1, <2>2, TypeParts
<1>8. RepliesInOrder' /\ PendingFresh' /\ ServedHasExchange'
  BY <1>6 DEF SystemInv, RepliesInOrder, PendingFresh, ServedHasExchange
<1>9. QED
  BY <1>2, <1>7, <1>8 DEF SystemInv

LEMMA LeaveInv == ASSUME SystemInv, NEW c \in Conns, Leave(c) PROVE SystemInv'
<1>1. /\ UNCHANGED <<vars, poolVars, sent, asked, exchanges, idle>>
      /\ link' \in [Conns -> {"none", "up", "fin", "reset"}]
      /\ \A d \in Conns : link'[d] # "reset" => link[d] # "reset"
  BY DEF Leave, SystemInv, SystemTypeOK
<1>2. HandlerInv' /\ UNCHANGED pc
  BY <1>1, StutterInv DEF SystemInv, vars, handlerVars
<1>3. RepliesInOrder'
  BY <1>1 DEF SystemInv, RepliesInOrder, poolVars
<1>4. QED
  BY <1>1, <1>2, <1>3 DEF SystemInv, SystemTypeOK, PendingFresh, ServedHasExchange, poolVars

\* The oldest connection goes, the others move up.
LEMMA PendingTail ==
  ASSUME SystemTypeOK, pending # <<>>
  PROVE  /\ pending \in Seq(Conns) /\ 1 \in DOMAIN pending
         /\ Head(pending) = pending[1] /\ Head(pending) \in Conns
         /\ \A k \in DOMAIN Tail(pending) : k + 1 \in DOMAIN pending
                                            /\ Tail(pending)[k] = pending[k + 1] /\ k \in Nat
         /\ Tail(pending) \in Seq(Conns)
<1>1. pending \in Seq(Conns)
  BY DEF SystemTypeOK
<1>2. QED
  BY <1>1

LEMMA AcceptInv == ASSUME SystemInv, Accept PROVE SystemInv'
<1> DEFINE h == Head(pending)
<1>1. /\ UNCHANGED <<vars, link, sent, asked, exchanges, idle, serving>>
      /\ serving = None /\ pending # <<>>
      /\ held' = held \cup {h} /\ pending' = Tail(pending)
  BY DEF Accept, Admit, clientVars
<1>2. HandlerInv' /\ UNCHANGED pc
  BY <1>1, StutterInv DEF SystemInv, vars, handlerVars
<1>3. /\ pending \in Seq(Conns) /\ 1 \in DOMAIN pending /\ h = pending[1] /\ h \in Conns
      /\ \A k \in DOMAIN Tail(pending) : k + 1 \in DOMAIN pending
                                         /\ Tail(pending)[k] = pending[k + 1] /\ k \in Nat
      /\ Tail(pending) \in Seq(Conns)
  BY <1>1, PendingTail DEF SystemInv
<1>4. h \notin held /\ exchanges[h] = <<>>
  BY <1>3 DEF SystemInv, PendingFresh
<1> HIDE DEF h
<1>5. SystemTypeOK'
  BY <1>1, <1>2, <1>3 DEF SystemInv, SystemTypeOK
<1>6. RepliesInOrder'
  BY <1>1, <1>4 DEF SystemInv, RepliesInOrder
<1>7. PendingFresh'
  <2>1. \A k \in DOMAIN Tail(pending) : Tail(pending)[k] # h
    BY <1>3 DEF SystemInv, PendingFresh
  <2>2. QED
    BY <1>1, <1>3, <2>1 DEF SystemInv, PendingFresh
<1>8. QED
  BY <1>1, <1>2, <1>5, <1>6, <1>7 DEF SystemInv, ServedHasExchange

LEMMA AcceptFailsInv == ASSUME SystemInv, AcceptFails PROVE SystemInv'
<1> DEFINE h == Head(pending)
<1>1. /\ UNCHANGED <<vars, idle, serving, held>> /\ serving = None
      /\ pending # <<>> /\ pending' = Tail(pending)
      /\ Gone({h})
  BY DEF AcceptFails, Abandon
<1>2. HandlerInv' /\ UNCHANGED pc
  BY <1>1, StutterInv DEF SystemInv, vars, handlerVars
<1>3. /\ 1 \in DOMAIN pending /\ h = pending[1] /\ h \in Conns
      /\ \A k \in DOMAIN Tail(pending) : k + 1 \in DOMAIN pending
                                         /\ Tail(pending)[k] = pending[k + 1] /\ k \in Nat
      /\ Tail(pending) \in Seq(Conns)
  BY <1>1, PendingTail DEF SystemInv
<1> HIDE DEF h
<1>4. /\ link' \in [Conns -> {"none", "up", "fin", "reset"}] /\ HistoryTypeOK'
      /\ \A c \in Conns : IF c \in {h} THEN Ended(c) ELSE Untouched(c)
  BY <1>1, GoneFacts DEF SystemInv
<1>5. SystemTypeOK'
  <2>1. PoolTypeOK'
    BY <1>1, <1>2, <1>3, <1>4 DEF SystemInv, SystemTypeOK, PoolTypeOK
  <2>2. QED
    BY <1>4, <2>1, TypeParts
<1>6. RepliesInOrder'
  <2>1. h \notin held
    BY <1>3 DEF SystemInv, PendingFresh
  <2>2. held' = held \ {h}
    BY <1>1, <2>1
  <2>3. QED
    BY <1>1, <2>2, GoneReplies DEF SystemInv
<1>7. PendingFresh'
  <2>1. \A c \in Conns : c \notin held' => exchanges'[c] = <<>>
    BY <1>1, <1>4 DEF SystemInv, PendingFresh, Ended, Untouched
  <2>2. QED
    BY <1>1, <1>3, <2>1 DEF SystemInv, PendingFresh
<1>8. QED
  BY <1>1, <1>2, <1>5, <1>6, <1>7 DEF SystemInv, ServedHasExchange

\* Connections given up while none is being served.
LEMMA ReleaseInv ==
  ASSUME SystemInv, NEW C, C \subseteq held, serving = None, Release(C), Gone(C),
         UNCHANGED vars, idle' \in BOOLEAN
  PROVE  SystemInv'
<1>1. held' = held \ C /\ serving' = None /\ UNCHANGED pending
  BY DEF Release
<1>2. HandlerInv' /\ UNCHANGED pc
  BY StutterInv DEF SystemInv, vars, handlerVars
<1>3. /\ link' \in [Conns -> {"none", "up", "fin", "reset"}] /\ HistoryTypeOK'
      /\ \A c \in Conns : IF c \in C THEN Ended(c) ELSE Untouched(c)
  BY GoneFacts DEF SystemInv
<1>4. SystemTypeOK'
  <2>1. PoolTypeOK'
    BY <1>1, <1>2, <1>3 DEF SystemInv, SystemTypeOK, PoolTypeOK
  <2>2. QED
    BY <1>3, <2>1, TypeParts
<1>5. RepliesInOrder'
  BY <1>1, GoneReplies DEF SystemInv
<1>6. PendingFresh'
  <2>1. \A c \in Conns : c \notin held' => exchanges'[c] = <<>>
    BY <1>1, <1>3 DEF SystemInv, PendingFresh, Ended, Untouched
  <2>2. QED
    BY <1>1, <2>1 DEF SystemInv, PendingFresh
<1>7. QED
  BY <1>1, <1>2, <1>4, <1>5, <1>6 DEF SystemInv, ServedHasExchange

LEMMA BetweenInv ==
  ASSUME SystemInv,
         PollTimeout \/ dropUnusedConnections \/ (\E c \in Conns : Close(c)) \/ Restart
  PROVE  SystemInv'
<1>1. CASE PollTimeout
  <2>1. /\ UNCHANGED <<vars, poolVars, clientVars, exchanges>>
        /\ idle' \in BOOLEAN /\ serving' = None
    BY <1>1 DEF PollTimeout, poolVars
  <2>2. HandlerInv' /\ UNCHANGED pc
    BY <2>1, StutterInv DEF SystemInv, vars, handlerVars
  <2>3. SystemTypeOK'
    BY <2>1, <2>2 DEF SystemInv, SystemTypeOK, poolVars, clientVars
  <2>4. QED
    BY <2>1, <2>2, <2>3
       DEF SystemInv, RepliesInOrder, PendingFresh, ServedHasExchange, poolVars, clientVars
<1>2. CASE dropUnusedConnections
  <2>1. serving = None
    BY <1>2 DEF dropUnusedConnections, SystemInv, SystemTypeOK
  <2>2. QED
    BY <1>2, <2>1, ReleaseInv DEF dropUnusedConnections
<1>3. ASSUME NEW c \in Conns, Close(c) PROVE SystemInv'
  <2>1. {c} \subseteq held /\ serving = None
    BY <1>3 DEF Close, Release
  <2>2. UNCHANGED <<vars, idle>> /\ Release({c}) /\ Gone({c})
    BY <1>3 DEF Close
  <2>3. idle' \in BOOLEAN
    BY <2>2 DEF SystemInv, SystemTypeOK
  <2>4. QED
    BY <2>1, <2>2, <2>3, ReleaseInv
<1>4. CASE Restart
  <2>1. UNCHANGED <<vars, pending, held, serving, clientVars, exchanges, idle>>
    BY <1>4 DEF Restart
  <2>2. HandlerInv' /\ UNCHANGED pc
    BY <2>1, StutterInv DEF SystemInv, vars, handlerVars
  <2>3. QED
    BY <2>1, <2>2 DEF SystemInv, SystemTypeOK, RepliesInOrder, PendingFresh,
                      ServedHasExchange, clientVars
<1>5. QED
  BY <1>1, <1>2, <1>3, <1>4

-----------------------------------------------------------------------------
(* A request.                                                               *)

\* What has been taken is counted.
LEMMA TakenType ==
  ASSUME SystemTypeOK, NEW c \in Conns
  PROVE  taken(c) \in Nat
<1>1. exchanges[c] \in Seq(Exchange)
  BY DEF SystemTypeOK
<1>2. CASE exchanges[c] = <<>>
  BY <1>2 DEF taken
<1>3. CASE exchanges[c] # <<>>
  <2>1. exchanges[c][Len(exchanges[c])] \in Exchange
    BY <1>1, <1>3
  <2>2. QED
    BY <1>3, <2>1 DEF taken, Exchange
<1>4. QED
  BY <1>2, <1>3

LEMMA TakeInv ==
  ASSUME SystemInv, NEW c \in Conns, NEW n \in 1 .. MaxWords, Take(c, n)
  PROVE  SystemInv'
<1> DEFINE x == [from |-> taken(c), to |-> taken(c) + n, calls |-> <<>>, reply |-> NoReply]
           E == exchanges[c]
           m == assemble(SubSeq(unread(c), 1, n))
<1>1. /\ ~idle /\ serving = None /\ c \in held /\ serving' = c
      /\ UNCHANGED <<stopped, pending, held, link, sent, asked, idle>>
      /\ m \in Requests /\ Receive(m)
      /\ exchanges' = [exchanges EXCEPT ![c] = Append(E, x)]
  BY DEF Take, Begin, clientVars
<1> HIDE DEF m
<1>2. HandlerInv' /\ pc' = "parse"
  BY <1>1, ReceiveInv DEF SystemInv, Receive
<1>3. E \in Seq(Exchange) /\ exchanges' \in [Conns -> Seq(Exchange)]
      /\ x \in Exchange /\ x.to - x.from = n /\ x.reply = NoReply
  <2>1. E \in Seq(Exchange)
    BY DEF SystemInv, SystemTypeOK
  <2>2. taken(c) \in Nat
    BY TakenType DEF SystemInv
  <2>3. n \in Nat
    BY FcsServerAssumption DEF FcsServerAssumption
  <2>4. x \in Exchange
    BY <2>2, <2>3 DEF Exchange
  <2>5. QED
    BY <1>1, <2>1, <2>2, <2>3, <2>4 DEF SystemInv, SystemTypeOK
<1> HIDE DEF x
<1>4. /\ exchanges'[c] = Append(E, x) /\ exchanges'[c] # <<>>
      /\ \A d \in Conns : d # c => exchanges'[d] = exchanges[d]
      /\ Len(exchanges'[c]) = Len(E) + 1
      /\ \A k \in DOMAIN exchanges'[c] :
           \/ k \in DOMAIN E /\ exchanges'[c][k] = E[k]
           \/ k = Len(E) + 1 /\ exchanges'[c][k] = x
  <2>1. /\ exchanges'[c] = Append(E, x)
        /\ \A d \in Conns : d # c => exchanges'[d] = exchanges[d]
    BY <1>1 DEF SystemInv, SystemTypeOK
  <2> DEFINE A == Append(E, x)
  <2>2. /\ A # <<>> /\ Len(A) = Len(E) + 1 /\ DOMAIN A = 1 .. Len(E) + 1
        /\ A[Len(E) + 1] = x /\ \A k \in 1 .. Len(E) : A[k] = E[k]
        /\ DOMAIN E = 1 .. Len(E) /\ Len(E) \in Nat
    BY <1>3
  <2>3. \A k \in 1 .. Len(E) + 1 : k \in 1 .. Len(E) \/ k = Len(E) + 1
    BY <2>2
  <2> HIDE DEF A
  <2>4. QED
    BY <2>1, <2>2, <2>3 DEF A
<1>5. c # None
  BY FcsServerAssumption DEF FcsServerAssumption
<1>6. SystemTypeOK'
  <2>1. \A d \in Conns : \A k \in DOMAIN exchanges'[d] :
          exchanges'[d][k].to - exchanges'[d][k].from \in 1 .. MaxWords
    BY <1>3, <1>4 DEF SystemInv, SystemTypeOK
  <2>2. QED
    BY <1>1, <1>2, <1>3, <1>5, <2>1 DEF SystemInv, SystemTypeOK
<1>7. RepliesInOrder'
  <2>1. \A d \in Conns : serving # d
    BY <1>1, FcsServerAssumption DEF FcsServerAssumption
  <2>2. link[c] # "reset" => \A k \in DOMAIN E : E[k].reply # NoReply
    BY <1>1, <2>1 DEF SystemInv, RepliesInOrder
  <2>3. \A k, l \in DOMAIN E : l > k /\ E[k].reply = NoReply => E[l].reply = NoReply
    BY DEF SystemInv, RepliesInOrder
  <2>4. \A k, l \in DOMAIN exchanges'[c] :
          l > k /\ exchanges'[c][k].reply = NoReply => exchanges'[c][l].reply = NoReply
    <3>1. SUFFICES ASSUME NEW k \in DOMAIN exchanges'[c], NEW l \in DOMAIN exchanges'[c],
                          l > k, exchanges'[c][k].reply = NoReply
                   PROVE  exchanges'[c][l].reply = NoReply
      OBVIOUS
    <3>2. Len(E) \in Nat /\ DOMAIN E = 1 .. Len(E)
      BY <1>3
    <3>3. CASE l = Len(E) + 1
      BY <1>3, <1>4, <3>2, <3>3
    <3>4. CASE l \in DOMAIN E /\ exchanges'[c][l] = E[l]
      <4>1. k # Len(E) + 1
        BY <3>1, <3>2, <3>4
      <4>2. k \in DOMAIN E /\ exchanges'[c][k] = E[k]
        BY <1>4, <4>1
      <4>3. QED
        BY <2>3, <3>1, <3>4, <4>2
    <3>5. QED
      BY <1>4, <3>3, <3>4
  <2>5. \A k \in DOMAIN exchanges'[c] :
          exchanges'[c][k].reply = NoReply /\ link[c] # "reset" => k = Len(exchanges'[c])
    BY <1>4, <2>2
  <2>6. ASSUME NEW d \in Conns, NEW k \in DOMAIN exchanges'[d],
               exchanges'[d][k].reply = NoReply
        PROVE  /\ \A l \in DOMAIN exchanges'[d] :
                    l > k => exchanges'[d][l].reply = NoReply
               /\ d \in held' /\ link'[d] # "reset" =>
                    serving' = d /\ k = Len(exchanges'[d])
    <3>1. CASE d = c
      BY <1>1, <2>4, <2>5, <2>6, <3>1
    <3>2. CASE d # c
      BY <1>1, <1>4, <2>1, <2>6, <3>2 DEF SystemInv, RepliesInOrder
    <3>3. QED
      BY <3>1, <3>2
  <2>7. QED
    BY <2>6 DEF RepliesInOrder
<1>8. PendingFresh' /\ ServedHasExchange'
  <2>1. \A k \in DOMAIN pending : pending[k] # c /\ pending[k] \in Conns
    BY <1>1 DEF SystemInv, SystemTypeOK, PendingFresh
  <2>2. QED
    BY <1>1, <1>4, <2>1 DEF SystemInv, PendingFresh, ServedHasExchange
<1>9. QED
  BY <1>2, <1>6, <1>7, <1>8 DEF SystemInv

\* Whatever the handler does, it keeps its invariant and stays inside a call.
LEMMA HandleKeeps ==
  ASSUME HandlerInv, Handle
  PROVE  HandlerInv' /\ pc # "idle" /\ pc' # "idle"
<1>1. HandlerInv'
  BY ParseInv, ChipIdInv, SigmaTeardownInv, WithPayloadInv, CertificateInv, UnknownInv,
     DeviceInv, UnsupportedInv, DisconnectInv, AnswerInv DEF Handle
<1>2. pc # "idle" /\ pc' # "idle"
  BY DEF Handle, Parse, CallChipId, CallSigmaTeardown, CallWithPayload, CallCertificate,
         Unknown, Device, CertificateUnsupported, Disconnect, Answer, Command, Returned,
         handlerVars
<1>3. QED
  BY <1>1, <1>2

\* A change to the exchange being made, which leaves its words as they are.
LEMMA LastExchange ==
  ASSUME SystemInv, serving # None, NEW x \in Exchange,
         LET last == exchanges[serving][Len(exchanges[serving])]
         IN x.from = last.from /\ x.to = last.to,
         exchanges' = [exchanges EXCEPT ![serving][Len(exchanges[serving])] = x]
  PROVE  /\ serving \in Conns /\ serving \in held
         /\ exchanges' \in [Conns -> Seq(Exchange)]
         /\ \A d \in Conns : \A k \in DOMAIN exchanges'[d] :
              exchanges'[d][k].to - exchanges'[d][k].from \in 1 .. MaxWords
         /\ \A d \in Conns : d # serving => exchanges'[d] = exchanges[d]
         /\ exchanges'[serving] # <<>>
         /\ Len(exchanges'[serving]) = Len(exchanges[serving])
         /\ DOMAIN exchanges'[serving] = DOMAIN exchanges[serving]
         /\ exchanges'[serving][Len(exchanges[serving])] = x
         /\ \A k \in DOMAIN exchanges[serving] :
              k # Len(exchanges[serving]) => exchanges'[serving][k] = exchanges[serving][k]
<1> DEFINE E == exchanges[serving]
           n == Len(E)
           F == [E EXCEPT ![n] = x]
<1>1. serving \in Conns /\ serving \in held /\ E \in Seq(Exchange) /\ E # <<>>
  BY DEF SystemInv, SystemTypeOK, ServedHasExchange
<1>2. exchanges' = [exchanges EXCEPT ![serving] = F]
  OBVIOUS
<1>3. n \in DOMAIN E
  BY <1>1
<1>4. /\ F \in Seq(Exchange) /\ Len(F) = n /\ DOMAIN F = DOMAIN E /\ F[n] = x
      /\ \A k \in DOMAIN E : k # n => F[k] = E[k]
  BY <1>1, <1>3
<1>5. F # <<>>
  BY <1>3, <1>4
<1> HIDE DEF F
<1>6. /\ exchanges'[serving] = F /\ exchanges' \in [Conns -> Seq(Exchange)]
      /\ \A d \in Conns : d # serving => exchanges'[d] = exchanges[d]
  BY <1>1, <1>2, <1>4 DEF SystemInv, SystemTypeOK
<1>7. \A k \in DOMAIN F : F[k].to - F[k].from \in 1 .. MaxWords
  BY <1>1, <1>3, <1>4 DEF SystemInv, SystemTypeOK
<1>8. \A d \in Conns : \A k \in DOMAIN exchanges'[d] :
        exchanges'[d][k].to - exchanges'[d][k].from \in 1 .. MaxWords
  BY <1>6, <1>7 DEF SystemInv, SystemTypeOK
<1>9. QED
  BY <1>1, <1>4, <1>5, <1>6, <1>8

LEMMA handleIncomingMessageInv ==
  ASSUME SystemInv, handleIncomingMessage
  PROVE  SystemInv'
<1>1. /\ Handle /\ UNCHANGED <<stopped, pending, held, serving, link, sent, asked, idle>>
      /\ IF step = "ioctl" THEN Noted(data'.status) ELSE UNCHANGED exchanges
  BY DEF handleIncomingMessage, poolVars, clientVars
<1>2. HandlerInv' /\ pc # "idle" /\ pc' # "idle"
  BY <1>1, HandleKeeps DEF SystemInv
<1>3. serving # None
  BY <1>2 DEF SystemInv, SystemTypeOK
<1>4. CASE step # "ioctl"
  BY <1>1, <1>2, <1>3, <1>4
     DEF SystemInv, SystemTypeOK, RepliesInOrder, PendingFresh, ServedHasExchange
<1>5. CASE step = "ioctl"
  <2> DEFINE last == exchanges[serving][Len(exchanges[serving])]
             call == [request |-> request, status |-> data'.status]
             x == [last EXCEPT !.calls = Append(@, call)]
  <2>1. last \in Exchange
    BY <1>3 DEF SystemInv, SystemTypeOK, ServedHasExchange
  <2>2. request \in [function : FcsFunctions \cup {"none"}, mbox_cmd : Nat,
                     words : Seq(Nat), cmd_data_sz : Nat]
    BY DEF SystemInv, HandlerInv, HandlerTypeOK, FcsTypeOK
  <2>3. data'.status \in Int
    BY <1>2 DEF HandlerInv, HandlerTypeOK, FcsTypeOK
  <2>4. x \in Exchange /\ x.from = last.from /\ x.to = last.to /\ x.reply = last.reply
    <3>1. last = [from |-> last.from, to |-> last.to, calls |-> last.calls,
                  reply |-> last.reply]
      BY <2>1 DEF Exchange
    <3>2. x = [from |-> last.from, to |-> last.to, calls |-> Append(last.calls, call),
               reply |-> last.reply]
      BY <3>1
    <3> DEFINE Calls == [request : [function : FcsFunctions \cup {"none"}, mbox_cmd : Nat,
                                    words : Seq(Nat), cmd_data_sz : Nat],
                         status : Int]
    <3>3. call \in Calls
      BY <2>2, <2>3
    <3>4. last.calls \in Seq(Calls)
      BY <2>1 DEF Exchange
    <3>5. Append(last.calls, call) \in Seq(Calls)
      <4> HIDE DEF Calls, call
      <4>1. QED
        BY <3>3, <3>4
    <3>6. QED
      BY <2>1, <3>2, <3>5 DEF Exchange
  <2>5. exchanges' = [exchanges EXCEPT ![serving][Len(exchanges[serving])] = x]
    BY <1>1, <1>5 DEF Noted
  <2> HIDE DEF x
  <2>6. /\ serving \in Conns /\ serving \in held
        /\ exchanges' \in [Conns -> Seq(Exchange)]
        /\ \A d \in Conns : \A k \in DOMAIN exchanges'[d] :
             exchanges'[d][k].to - exchanges'[d][k].from \in 1 .. MaxWords
        /\ \A d \in Conns : d # serving => exchanges'[d] = exchanges[d]
        /\ exchanges'[serving] # <<>>
        /\ Len(exchanges'[serving]) = Len(exchanges[serving])
        /\ DOMAIN exchanges'[serving] = DOMAIN exchanges[serving]
        /\ exchanges'[serving][Len(exchanges[serving])] = x
        /\ \A k \in DOMAIN exchanges[serving] :
             k # Len(exchanges[serving]) => exchanges'[serving][k] = exchanges[serving][k]
    BY <1>3, <2>4, <2>5, LastExchange
  <2>7. SystemTypeOK'
    BY <1>1, <1>2, <1>3, <2>6 DEF SystemInv, SystemTypeOK
  <2>8. RepliesInOrder'
    <3>1. \A d \in Conns :
            /\ DOMAIN exchanges'[d] = DOMAIN exchanges[d]
            /\ Len(exchanges'[d]) = Len(exchanges[d])
            /\ \A k \in DOMAIN exchanges[d] :
                 exchanges'[d][k].reply = exchanges[d][k].reply
      BY <2>4, <2>6
    <3>2. QED
      BY <1>1, <3>1 DEF SystemInv, RepliesInOrder
  <2>9. PendingFresh' /\ ServedHasExchange'
    BY <1>1, <2>6 DEF SystemInv, PendingFresh, ServedHasExchange
  <2>10. QED
    BY <1>2, <2>7, <2>8, <2>9 DEF SystemInv
<1>6. QED
  BY <1>4, <1>5

LEMMA SendInv == ASSUME SystemInv, Send PROVE SystemInv'
<1>1. /\ serving # None /\ response # NoReply /\ link[serving] # "reset"
      /\ Return /\ serving' = None
      /\ UNCHANGED <<stopped, pending, held, link, sent, asked, idle>>
      /\ exchanges' = [exchanges EXCEPT ![serving][Len(exchanges[serving])].reply = response]
  BY DEF Send, Finish, clientVars
<1>2. HandlerInv' /\ pc' = "idle"
  BY <1>1, ReturnInv DEF SystemInv, Return
<1> DEFINE last == exchanges[serving][Len(exchanges[serving])]
           x == [last EXCEPT !.reply = response]
<1>3. last \in Exchange
  BY <1>1 DEF SystemInv, SystemTypeOK, ServedHasExchange
<1>4. response \in Reply \cup {NoReply}
  BY DEF SystemInv, HandlerInv, HandlerTypeOK
<1>5. x \in Exchange /\ x.from = last.from /\ x.to = last.to /\ x.reply # NoReply
  BY <1>1, <1>3, <1>4 DEF Exchange
<1>6. exchanges' = [exchanges EXCEPT ![serving][Len(exchanges[serving])] = x]
  BY <1>1
<1> HIDE DEF x
<1>7. /\ serving \in Conns /\ serving \in held
      /\ exchanges' \in [Conns -> Seq(Exchange)]
      /\ \A d \in Conns : \A k \in DOMAIN exchanges'[d] :
           exchanges'[d][k].to - exchanges'[d][k].from \in 1 .. MaxWords
      /\ \A d \in Conns : d # serving => exchanges'[d] = exchanges[d]
      /\ Len(exchanges'[serving]) = Len(exchanges[serving])
      /\ DOMAIN exchanges'[serving] = DOMAIN exchanges[serving]
      /\ exchanges'[serving][Len(exchanges[serving])] = x
      /\ \A k \in DOMAIN exchanges[serving] :
           k # Len(exchanges[serving]) => exchanges'[serving][k] = exchanges[serving][k]
  BY <1>1, <1>5, <1>6, LastExchange
<1>8. SystemTypeOK'
  BY <1>1, <1>2, <1>7 DEF SystemInv, SystemTypeOK
<1>9. RepliesInOrder'
  <2>1. \A k \in DOMAIN exchanges'[serving] : exchanges'[serving][k].reply # NoReply
    <3>1. \A k \in DOMAIN exchanges[serving] :
            k # Len(exchanges[serving]) => exchanges[serving][k].reply # NoReply
      BY <1>1, <1>7 DEF SystemInv, RepliesInOrder
    <3>2. QED
      BY <1>5, <1>7, <3>1
  <2>2. ASSUME NEW d \in Conns, NEW k \in DOMAIN exchanges'[d],
               exchanges'[d][k].reply = NoReply
        PROVE  /\ \A l \in DOMAIN exchanges'[d] :
                    l > k => exchanges'[d][l].reply = NoReply
               /\ ~(d \in held' /\ link'[d] # "reset")
    <3>1. d # serving
      BY <2>1, <2>2
    <3>2. QED
      BY <1>1, <1>7, <2>2, <3>1 DEF SystemInv, RepliesInOrder
  <2>3. QED
    BY <2>2 DEF RepliesInOrder
<1>10. PendingFresh' /\ ServedHasExchange'
  BY <1>1, <1>7 DEF SystemInv, PendingFresh, ServedHasExchange
<1>11. QED
  BY <1>2, <1>8, <1>9, <1>10 DEF SystemInv

\* The reply is missing from now on; the connection has been reset.
LEMMA SendFailsInv == ASSUME SystemInv, SendFails PROVE SystemInv'
<1>1. /\ serving # None /\ link[serving] = "reset" /\ Return /\ serving' = None
      /\ UNCHANGED <<stopped, pending, held, link, sent, asked, exchanges, idle>>
  BY DEF SendFails, Finish, clientVars
<1>2. HandlerInv' /\ pc' = "idle"
  BY <1>1, ReturnInv DEF SystemInv, Return
<1>3. SystemTypeOK'
  BY <1>1, <1>2 DEF SystemInv, SystemTypeOK
<1>4. RepliesInOrder' /\ PendingFresh' /\ ServedHasExchange'
  BY <1>1 DEF SystemInv, RepliesInOrder, PendingFresh, ServedHasExchange
<1>5. QED
  BY <1>2, <1>3, <1>4 DEF SystemInv

LEMMA CloseUnansweredInv == ASSUME SystemInv, CloseUnanswered PROVE SystemInv'
<1>1. /\ Return /\ Gone({serving}) /\ UNCHANGED <<pending, idle>>
      /\ held' = held \ {serving} /\ serving' = None
  BY DEF CloseUnanswered, Release
<1>2. HandlerInv' /\ pc' = "idle"
  BY <1>1, ReturnInv DEF SystemInv, Return
<1>3. /\ link' \in [Conns -> {"none", "up", "fin", "reset"}] /\ HistoryTypeOK'
      /\ \A c \in Conns : IF c \in {serving} THEN Ended(c) ELSE Untouched(c)
  BY <1>1, GoneFacts DEF SystemInv
<1>4. SystemTypeOK'
  <2>1. PoolTypeOK'
    BY <1>1, <1>2, <1>3 DEF SystemInv, SystemTypeOK, PoolTypeOK
  <2>2. QED
    BY <1>3, <2>1, TypeParts
<1>5. RepliesInOrder'
  BY <1>1, GoneReplies DEF SystemInv
<1>6. PendingFresh' /\ ServedHasExchange'
  <2>1. \A c \in Conns : c \notin held' => exchanges'[c] = <<>>
    BY <1>1, <1>3 DEF SystemInv, PendingFresh, Ended, Untouched
  <2>2. QED
    BY <1>1, <2>1 DEF SystemInv, PendingFresh, ServedHasExchange
<1>7. QED
  BY <1>2, <1>4, <1>5, <1>6 DEF SystemInv

-----------------------------------------------------------------------------
(* The end of the process: the next one finds the handler as the first did. *)

LEMMA ProcessEndsInv == ASSUME SystemInv, ProcessEnds PROVE SystemInv'
<1>1. HandlerInit'
  BY DEF ProcessEnds, HandlerInit, FcsInit
<1>2. HandlerInit' => HandlerInv'
  BY HandlerInitInv, PTL
<1>3. HandlerInv'
  BY <1>1, <1>2
<1>4. /\ pc' = "idle" /\ held' = {} /\ pending' = <<>> /\ serving' = None /\ idle' = FALSE
      /\ Gone(Conns)
  BY DEF ProcessEnds, Stop
<1>5. /\ link' \in [Conns -> {"none", "up", "fin", "reset"}] /\ HistoryTypeOK'
      /\ \A c \in Conns : IF c \in Conns THEN Ended(c) ELSE Untouched(c)
  BY <1>4, GoneFacts DEF SystemInv
<1>6. SystemTypeOK'
  <2>1. idle' \in BOOLEAN /\ (idle' => serving' = None)
    BY <1>4
  <2>2. PoolTypeOK'
    BY <1>4, <1>5, <2>1 DEF PoolTypeOK
  <2>3. QED
    BY <1>5, <2>2, TypeParts
<1>7. RepliesInOrder' /\ PendingFresh' /\ ServedHasExchange'
  <2>1. \A c \in Conns : exchanges'[c] = <<>>
    BY <1>5 DEF Ended
  <2>2. DOMAIN <<>> = {}
    OBVIOUS
  <2>3. QED
    BY <1>4, <2>1, <2>2 DEF RepliesInOrder, PendingFresh, ServedHasExchange
<1>8. QED
  BY <1>3, <1>6, <1>7 DEF SystemInv

(* The invariant holds in every reachable state.                            *)
THEOREM SystemInvariant == SystemSpec => []SystemInv
<1>1. SystemInit => SystemInv
  BY SystemInitInv
<1>2. SystemInv /\ SystemNext => SystemInv'
  <2>1. ASSUME SystemInv, NEW c \in Conns, Recv(c) PROVE SystemInv'
    BY <2>1, TakeInv DEF Recv
  <2>2. QED
    BY <2>1, ConnectInv, AskInv, LeaveInv, AcceptInv, AcceptFailsInv, BetweenInv,
       handleIncomingMessageInv, SendInv, SendFailsInv, CloseUnansweredInv, ProcessEndsInv
       DEF SystemNext, Client
<1>3. SystemInv /\ UNCHANGED systemVars => SystemInv'
  <2>1. SUFFICES ASSUME SystemInv, UNCHANGED systemVars PROVE SystemInv'
    OBVIOUS
  <2>2. HandlerInv'
    BY <2>1, StutterInv DEF SystemInv, systemVars
  <2>3. QED
    BY <2>1, <2>2 DEF systemVars, vars, handlerVars, poolVars, clientVars, SystemInv,
                      SystemTypeOK, RepliesInOrder, PendingFresh, ServedHasExchange
<1>4. QED
  BY <1>1, <1>2, <1>3, PTL DEF SystemSpec

(* One request at a time is served, for a connection that is held, and the  *)
(* record of the exchanges keeps to its type.                               *)
THEOREM SystemTypeCorrect == SystemSpec => []SystemTypeOK
<1>1. SystemInv => SystemTypeOK
  BY DEF SystemInv
<1>2. QED
  BY <1>1, SystemInvariant, PTL

(* However many clients, however their streams are cut, whichever sends     *)
(* fail and whenever the process ends: replies are sent in the order of the *)
(* exchanges, none after a missing one, and none is missing while the       *)
(* connection is not reset.                                                 *)
THEOREM RepliesInOrderCorrect == SystemSpec => []RepliesInOrder
<1>1. SystemInv => RepliesInOrder
  BY DEF SystemInv
<1>2. QED
  BY <1>1, SystemInvariant, PTL

(* What is proved of the handler on its own also holds between clients and  *)
(* across the ends of the process: it never throws, holds the device only   *)
(* during a call, the device sees all well formed requests and no other,    *)
(* and replies are well formed and say what has happened.                   *)
THEOREM SystemHandlerCorrect ==
  SystemSpec =>
    [](/\ NeverThrows /\ DeviceReleased
       /\ DeviceSeesValidRequests /\ RefusalsDeserved
       /\ RepliesWellFormed /\ SuccessMeansDone /\ SilenceMeansFailure)
<1>1. SystemInv => /\ NeverThrows /\ DeviceReleased
                   /\ DeviceSeesValidRequests /\ RefusalsDeserved
                   /\ RepliesWellFormed /\ SuccessMeansDone /\ SilenceMeansFailure
  BY DEF SystemInv, HandlerInv
<1>2. QED
  BY <1>1, SystemInvariant, PTL

-----------------------------------------------------------------------------
(* The record of the exchanges.  For one connection with stream s, requests *)
(* rs and exchanges xs: requests are where the record says, recv takes up   *)
(* where it has left off, and what was done for an exchange follows from    *)
(* the words it has read.                                                   *)

WordsAt(s, x) == SubSeq(s, x.from + 1, x.to)

Placed(s, a) ==
  /\ a.to = a.from + Len(WordsOf(a.request)) /\ a.to <= Len(s)
  /\ WordsAt(s, a) = WordsOf(a.request)

CallJustified(m, calls) ==
  calls # <<>> =>
    /\ Len(calls) = 1
    /\ m.size = getRequiredSize + WORD_SIZE * m.header.length
    /\ ValidCall(calls[1].request, m)

ReplyJustified(m, calls, r) ==
  r # NoReply =>
    /\ r.header.client = m.header.client /\ r.header.id = m.header.id
    /\ r.header.code = noError => calls # <<>> /\ calls[1].status % CodeRange = 0

Justified(s, x) ==
  /\ CallJustified(assemble(WordsAt(s, x)), x.calls)
  /\ ReplyJustified(assemble(WordsAt(s, x)), x.calls, x.reply)

Record(s, rs, xs) ==
  /\ \A i \in DOMAIN rs : Placed(s, rs[i])
  /\ \A k \in DOMAIN xs : xs[k].to <= Len(s) /\ Justified(s, xs[k])
  /\ \A k, l \in DOMAIN xs : k < l => xs[k].to <= xs[l].from

\* What recv has taken is never empty.
Exchanges == {x \in Exchange : x.from < x.to}

LEMMA RecordStarts == Record(<<>>, <<>>, <<>>)
<1>1. DOMAIN <<>> = {}
  OBVIOUS
<1>2. QED
  BY <1>1 DEF Record

\* A stream that goes on keeps the words it had.
LEMMA WordsKept ==
  ASSUME NEW s \in Seq(Nat), NEW t \in Seq(Nat), NEW from \in Nat, NEW to \in Nat,
         from < to, to <= Len(s)
  PROVE  SubSeq(s \o t, from + 1, to) = SubSeq(s, from + 1, to)
<1>1. from + 1 \in 1 .. Len(s) /\ to \in 1 .. Len(s)
  OBVIOUS
<1>2. QED
  BY <1>1, SubSeqOfConcat1

LEMMA RecordGrows ==
  ASSUME NEW s \in Seq(Nat), NEW rs \in Seq(Asked), NEW xs \in Seq(Exchanges),
         NEW ask \in Asks, Record(s, rs, xs)
  PROVE  LET t == s \o WordsOf(ask)
         IN Record(t, Append(rs, [request |-> ask, from |-> Len(s), to |-> Len(t)]), xs)
<1> DEFINE ws == WordsOf(ask)
           t == s \o ws
           a == [request |-> ask, from |-> Len(s), to |-> Len(t)]
           bs == Append(rs, a)
<1>1. /\ ws \in Seq(Nat) /\ Len(ws) = 1 + Len(ask.body) /\ Len(ask.body) \in Nat
  BY WordsOfAsk, FcsServerAssumption DEF FcsServerAssumption, IsRequest
<1> HIDE DEF ws
<1>2. t \in Seq(Nat) /\ Len(t) = Len(s) + Len(ws) /\ Len(s) \in Nat
  <2>1. s \o ws \in Seq(Nat) /\ Len(s \o ws) = Len(s) + Len(ws)
    BY <1>1, ConcatProperties
  <2>2. QED
    BY <2>1
<1>3. Placed(t, a)
  <2>1. /\ Len(s) + 1 \in Len(s) + 1 .. Len(s) + Len(ws)
        /\ Len(s) + Len(ws) \in Len(s) + 1 .. Len(s) + Len(ws)
    BY <1>1, <1>2
  <2>2. SubSeq(t, Len(s) + 1, Len(s) + Len(ws))
          = SubSeq(ws, Len(s) + 1 - Len(s), Len(s) + Len(ws) - Len(s))
    <3>1. \A m, n \in Len(s) + 1 .. Len(s) + Len(ws) :
            SubSeq(s \o ws, m, n) = SubSeq(ws, m - Len(s), n - Len(s))
      BY <1>1, SubSeqOfConcat2
    <3>2. QED
      BY <2>1, <3>1
  <2>3. Len(s) + 1 - Len(s) = 1 /\ Len(s) + Len(ws) - Len(s) = Len(ws)
    BY <1>1, <1>2
  <2>4. SubSeq(ws, 1, Len(ws)) = ws
    BY <1>1, SubSeqFull
  <2> HIDE DEF t
  <2>5. a.from = Len(s) /\ a.to = Len(t) /\ a.request = ask
    OBVIOUS
  <2> HIDE DEF a, t
  <2>6. /\ SubSeq(t, Len(s) + 1, Len(t)) = ws /\ WordsOf(ask) = ws
        /\ Len(t) = Len(s) + Len(ws) /\ Len(t) <= Len(t)
    <3>1. SubSeq(t, Len(s) + 1, Len(s) + Len(ws)) = ws
      BY <2>2, <2>3, <2>4
    <3>2. Len(t) \in Nat
      BY <1>2
    <3>3. QED
      BY <1>2, <3>1, <3>2 DEF ws
  <2>7. QED
    BY <2>5, <2>6 DEF Placed, WordsAt
<1>4. \A x : x.from \in Nat /\ x.to \in Nat /\ x.from < x.to /\ x.to <= Len(s)
               => WordsAt(t, x) = WordsAt(s, x)
  BY <1>1, WordsKept DEF WordsAt
<1> HIDE DEF t
<1>5. \A i \in DOMAIN rs : Placed(t, rs[i])
  <2>1. SUFFICES ASSUME NEW i \in DOMAIN rs PROVE Placed(t, rs[i])
    OBVIOUS
  <2>2. rs[i] \in Asked /\ Placed(s, rs[i])
    BY DEF Record
  <2>3. Len(WordsOf(rs[i].request)) = 1 + Len(rs[i].request.body)
        /\ Len(rs[i].request.body) \in Nat
    <3>1. rs[i].request \in Asks
      BY <2>2 DEF Asked
    <3>2. rs[i].request.body \in Seq(Nat)
      BY <3>1, FcsServerAssumption DEF FcsServerAssumption, IsRequest
    <3>3. QED
      BY <3>1, <3>2, WordsOfAsk
  <2>4. /\ rs[i].from \in Nat /\ rs[i].to \in Nat
        /\ rs[i].from < rs[i].to /\ rs[i].to <= Len(s)
    BY <2>2, <2>3 DEF Asked, Placed
  <2>5. rs[i].to <= Len(t)
    BY <1>1, <1>2, <2>4
  <2>6. WordsAt(t, rs[i]) = WordsAt(s, rs[i])
    BY <1>4, <2>4
  <2>7. QED
    BY <2>2, <2>5, <2>6 DEF Placed
<1>6. \A k \in DOMAIN xs : xs[k].to <= Len(t) /\ Justified(t, xs[k])
  <2>1. SUFFICES ASSUME NEW k \in DOMAIN xs
                 PROVE  xs[k].to <= Len(t) /\ Justified(t, xs[k])
    OBVIOUS
  <2>2. xs[k] \in Exchanges /\ xs[k].to <= Len(s) /\ Justified(s, xs[k])
    BY DEF Record
  <2>3. xs[k].from \in Nat /\ xs[k].to \in Nat /\ xs[k].from < xs[k].to
    BY <2>2 DEF Exchanges, Exchange
  <2>4. WordsAt(t, xs[k]) = WordsAt(s, xs[k])
    BY <1>4, <2>2, <2>3
  <2>5. QED
    BY <1>1, <1>2, <2>2, <2>3, <2>4 DEF Justified
<1>7. \A i \in DOMAIN bs : Placed(t, bs[i])
  <2>1. \A i \in DOMAIN bs : \/ i \in DOMAIN rs /\ bs[i] = rs[i]
                             \/ bs[i] = a
    <3> HIDE DEF a
    <3>1. QED
      OBVIOUS
  <2>2. QED
    BY <1>3, <1>5, <2>1
<1>8. QED
  BY <1>6, <1>7 DEF Record, t, ws

\* An exchange begins where the last one has ended.
LEMMA RecordTaken ==
  ASSUME NEW s \in Seq(Nat), NEW rs \in Seq(Asked), NEW xs \in Seq(Exchanges),
         Record(s, rs, xs), NEW x \in Exchanges, x.calls = <<>>, x.reply = NoReply,
         x.from = (IF xs = <<>> THEN 0 ELSE xs[Len(xs)].to), x.to <= Len(s)
  PROVE  Record(s, rs, Append(xs, x))
<1> DEFINE ys == Append(xs, x)
           n == Len(xs)
<1>1. /\ n \in Nat /\ DOMAIN xs = 1 .. n /\ DOMAIN ys = 1 .. n + 1 /\ ys[n + 1] = x
      /\ \A k \in 1 .. n : ys[k] = xs[k]
  OBVIOUS
<1> HIDE DEF ys
<1>2. \A k \in 1 .. n + 1 : k = n + 1 \/ k \in 1 .. n
  BY <1>1
<1>3. Justified(s, x)
  BY DEF Justified, CallJustified, ReplyJustified
<1>4. \A k \in DOMAIN ys : ys[k].to <= Len(s) /\ Justified(s, ys[k])
  BY <1>1, <1>2, <1>3 DEF Record
<1>5. \A k \in 1 .. n : xs[k].to <= x.from
  <2>1. SUFFICES ASSUME NEW k \in 1 .. n PROVE xs[k].to <= x.from
    OBVIOUS
  <2>2. n \in 1 .. n /\ x.from = xs[n].to
    BY <1>1
  <2>3. xs[k] \in Exchanges /\ xs[n] \in Exchanges
    BY <1>1, <2>2
  <2>4. xs[k].to \in Nat /\ xs[n].from \in Nat /\ xs[n].to \in Nat /\ xs[n].from < xs[n].to
    BY <2>3 DEF Exchanges, Exchange
  <2>5. k < n => xs[k].to <= xs[n].from
    BY <1>1, <2>2 DEF Record
  <2>6. QED
    BY <1>1, <2>2, <2>4, <2>5
<1>6. \A k, l \in DOMAIN ys : k < l => ys[k].to <= ys[l].from
  <2>1. SUFFICES ASSUME NEW k \in 1 .. n + 1, NEW l \in 1 .. n + 1, k < l
                 PROVE  ys[k].to <= ys[l].from
    BY <1>1
  <2>2. k \in 1 .. n
    BY <1>1, <2>1
  <2>3. CASE l = n + 1
    BY <1>1, <1>5, <2>2, <2>3
  <2>4. CASE l \in 1 .. n
    <3>1. xs[k].to <= xs[l].from
      BY <1>1, <2>1, <2>2, <2>4 DEF Record
    <3>2. QED
      BY <1>1, <2>2, <2>4, <3>1
  <2>5. QED
    BY <1>2, <2>3, <2>4
<1>7. QED
  BY <1>4, <1>6 DEF Record, ys

\* Something is noted about the last exchange.
LEMMA RecordNoted ==
  ASSUME NEW s, NEW rs, NEW xs, NEW ys, Record(s, rs, xs),
         NEW n \in DOMAIN xs, DOMAIN ys = DOMAIN xs,
         \A k \in DOMAIN xs : k # n => ys[k] = xs[k],
         ys[n].from = xs[n].from, ys[n].to = xs[n].to, Justified(s, ys[n])
  PROVE  Record(s, rs, ys)
<1>1. \A k \in DOMAIN ys : ys[k].from = xs[k].from /\ ys[k].to = xs[k].to
  OBVIOUS
<1>2. \A k \in DOMAIN ys : Justified(s, ys[k])
  BY DEF Record
<1>3. QED
  BY <1>1, <1>2 DEF Record

\* What is known of the exchange that is being made.
Last(c) == exchanges[c][Len(exchanges[c])]

CallsMade(calls) ==
  IF step = "returned"
  THEN \/ calls = <<[request |-> request, status |-> data.status]>>
       \/ calls = <<>> /\ ~succeeded
  ELSE calls = <<>>

InProgress ==
  serving # None =>
    /\ message = assemble(WordsAt(sent[serving], Last(serving)))
    /\ Last(serving).reply = NoReply
    /\ CallsMade(Last(serving).calls)

RecordInv ==
  /\ \A c \in Conns : Record(sent[c], asked[c], exchanges[c])
  /\ InProgress

LEMMA HistoryOf ==
  ASSUME SystemTypeOK, NEW c \in Conns
  PROVE  /\ sent[c] \in Seq(Nat) /\ asked[c] \in Seq(Asked)
         /\ exchanges[c] \in Seq(Exchange) /\ exchanges[c] \in Seq(Exchanges)
<1>1. /\ sent[c] \in Seq(Nat) /\ asked[c] \in Seq(Asked) /\ exchanges[c] \in Seq(Exchange)
  BY DEF SystemTypeOK
<1> DEFINE xs == exchanges[c]
<1>2. \A k \in DOMAIN xs : xs[k] \in Exchanges
  <2>1. SUFFICES ASSUME NEW k \in DOMAIN xs PROVE xs[k].from < xs[k].to /\ xs[k] \in Exchange
    BY DEF Exchanges
  <2>2. xs[k] \in Exchange /\ xs[k].to - xs[k].from \in 1 .. MaxWords
    BY <1>1 DEF SystemTypeOK
  <2>3. xs[k].from \in Nat /\ xs[k].to \in Nat
    BY <2>2 DEF Exchange
  <2>4. QED
    BY <2>2, <2>3, FcsServerAssumption DEF FcsServerAssumption
<1>3. xs \in Seq(Exchanges)
  <2> HIDE DEF xs
  <2>1. Len(xs) \in Nat /\ DOMAIN xs = 1 .. Len(xs) /\ xs \in [1 .. Len(xs) -> Exchange]
    BY <1>1, LenProperties DEF xs
  <2>2. xs \in [1 .. Len(xs) -> Exchanges]
    BY <1>2, <2>1
  <2>3. QED
    BY <2>1, <2>2, SeqDef
<1>4. QED
  BY <1>1, <1>3

LEMMA RecordInitInv == SystemInit => RecordInv
<1> SUFFICES ASSUME SystemInit PROVE RecordInv
  OBVIOUS
<1>1. /\ serving = None /\ sent = [c \in Conns |-> <<>>] /\ asked = [c \in Conns |-> <<>>]
      /\ exchanges = [c \in Conns |-> <<>>]
  BY DEF SystemInit, PoolInit
<1>2. \A c \in Conns : sent[c] = <<>> /\ asked[c] = <<>> /\ exchanges[c] = <<>>
  BY <1>1
<1>3. QED
  BY <1>1, <1>2, RecordStarts DEF RecordInv, InProgress

\* Steps that add nothing to the record.
LEMMA RecordKept ==
  ASSUME RecordInv, UNCHANGED <<sent, asked, exchanges>>,
         serving' = None \/ UNCHANGED <<serving, vars>>
  PROVE  RecordInv'
<1>1. \A c \in Conns : Record(sent'[c], asked'[c], exchanges'[c])
  BY DEF RecordInv
<1>2. CASE serving' = None
  BY <1>1, <1>2 DEF RecordInv, InProgress
<1>3. CASE UNCHANGED <<serving, vars>>
  <2>1. UNCHANGED <<serving, message, step, request, data, succeeded>>
    BY <1>3 DEF vars, handlerVars, fcsVars
  <2>2. InProgress'
    BY <2>1 DEF RecordInv, InProgress, Last, CallsMade
  <2>3. QED
    BY <1>1, <2>2 DEF RecordInv
<1>4. QED
  BY <1>2, <1>3

\* Connections that end take their record with them.
LEMMA GoneRecord ==
  ASSUME SystemInv, RecordInv, NEW C, Gone(C), serving' = None
  PROVE  RecordInv'
<1>1. \A c \in Conns : IF c \in C THEN Ended(c) ELSE Untouched(c)
  BY GoneFacts DEF SystemInv
<1>2. \A c \in Conns : Record(sent'[c], asked'[c], exchanges'[c])
  BY <1>1, RecordStarts DEF RecordInv, Ended, Untouched
<1>3. QED
  BY <1>2 DEF RecordInv, InProgress

LEMMA AskRecord ==
  ASSUME SystemInv, RecordInv, NEW c \in Conns, Ask(c)
  PROVE  RecordInv'
<1>1. PICK ask \in Asks :
        /\ sent' = [sent EXCEPT ![c] = @ \o WordsOf(ask)]
        /\ asked' = [asked EXCEPT ![c] =
             Append(@, [request |-> ask, from |-> Len(sent[c]), to |-> Len(sent'[c])])]
        /\ UNCHANGED <<vars, poolVars, exchanges>>
  BY DEF Ask
<1>2. /\ sent'[c] = sent[c] \o WordsOf(ask)
      /\ asked'[c] = Append(asked[c], [request |-> ask, from |-> Len(sent[c]),
                                       to |-> Len(sent[c] \o WordsOf(ask))])
      /\ \A d \in Conns : d # c => sent'[d] = sent[d] /\ asked'[d] = asked[d]
  <2>1. sent'[c] = sent[c] \o WordsOf(ask) /\ \A d \in Conns : d # c => sent'[d] = sent[d]
    BY <1>1 DEF SystemInv, SystemTypeOK
  <2>2. /\ asked'[c] = Append(asked[c], [request |-> ask, from |-> Len(sent[c]),
                                         to |-> Len(sent'[c])])
        /\ \A d \in Conns : d # c => asked'[d] = asked[d]
    BY <1>1 DEF SystemInv, SystemTypeOK
  <2>3. QED
    BY <2>1, <2>2
<1>3. \A d \in Conns : Record(sent'[d], asked'[d], exchanges'[d])
  <2>1. Record(sent'[c], asked'[c], exchanges[c])
    <3>1. /\ sent[c] \in Seq(Nat) /\ asked[c] \in Seq(Asked)
          /\ exchanges[c] \in Seq(Exchanges) /\ Record(sent[c], asked[c], exchanges[c])
      BY HistoryOf DEF SystemInv, RecordInv
    <3>2. QED
      BY <1>2, <3>1, RecordGrows
  <2>2. QED
    BY <1>1, <1>2, <2>1 DEF RecordInv
<1>4. UNCHANGED <<serving, message, step, request, data, succeeded, exchanges>>
  BY <1>1 DEF vars, handlerVars, fcsVars, poolVars
<1>5. ASSUME serving # None
      PROVE  WordsAt(sent'[serving], Last(serving)) = WordsAt(sent[serving], Last(serving))
  <2>1. serving \in Conns
    BY <1>5 DEF SystemInv, SystemTypeOK
  <2>2. CASE serving # c
    BY <1>2, <2>1, <2>2
  <2>3. CASE serving = c
    <3> DEFINE x == Last(c)
    <3>1. exchanges[c] \in Seq(Exchanges) /\ exchanges[c] # <<>> /\ sent[c] \in Seq(Nat)
      BY <1>5, <2>3, HistoryOf DEF SystemInv, ServedHasExchange
    <3>2. Len(exchanges[c]) \in DOMAIN exchanges[c] /\ x \in Exchanges
      BY <3>1 DEF Last
    <3>3. x.from \in Nat /\ x.to \in Nat /\ x.from < x.to
      BY <3>2 DEF Exchanges, Exchange
    <3>4. x.to <= Len(sent[c])
      BY <3>2 DEF RecordInv, Record, Last
    <3>5. WordsOf(ask) \in Seq(Nat)
      BY WordsOfAsk
    <3> HIDE DEF x
    <3>6. SubSeq(sent[c] \o WordsOf(ask), x.from + 1, x.to) = SubSeq(sent[c], x.from + 1, x.to)
      BY <3>1, <3>3, <3>4, <3>5, WordsKept
    <3>7. QED
      BY <1>2, <2>3, <3>6 DEF WordsAt, x
  <2>4. QED
    BY <2>2, <2>3
<1>6. InProgress'
  BY <1>4, <1>5 DEF RecordInv, InProgress, Last, CallsMade
<1>7. QED
  BY <1>3, <1>6 DEF RecordInv

LEMMA TakeRecord ==
  ASSUME SystemInv, RecordInv, NEW c \in Conns, NEW n \in 1 .. MaxWords,
         n <= Len(unread(c)), Take(c, n)
  PROVE  RecordInv'
<1> DEFINE s == sent[c]
           from == taken(c)
           m == assemble(SubSeq(unread(c), 1, n))
           x == [from |-> from, to |-> from + n, calls |-> <<>>, reply |-> NoReply]
<1>1. /\ serving' = c /\ UNCHANGED <<sent, asked, fcsVars>>
      /\ pc = "idle" /\ message' = m
      /\ exchanges' = [exchanges EXCEPT ![c] = Append(@, x)]
  BY DEF Take, Begin, clientVars, Receive
<1>2. /\ s \in Seq(Nat) /\ asked[c] \in Seq(Asked) /\ exchanges[c] \in Seq(Exchanges)
      /\ Record(s, asked[c], exchanges[c])
  BY HistoryOf DEF SystemInv, RecordInv
<1>3. from \in Nat
  BY TakenType DEF SystemInv
<1>4. n \in Nat /\ n >= 1
  BY FcsServerAssumption DEF FcsServerAssumption
<1> HIDE DEF from, s
<1>5. unread(c) = SubSeq(s, from + 1, Len(s)) /\ from + n <= Len(s)
  <2>1. CASE link[c] = "none"
    <3>1. unread(c) = <<>>
      BY <2>1 DEF unread
    <3>2. QED
      BY <1>4, <3>1
  <2>2. CASE link[c] # "none"
    <3>1. unread(c) = SubSeq(s, from + 1, Len(s))
      BY <2>2 DEF unread, s, from
    <3>2. Len(unread(c)) = IF from + 1 <= Len(s) THEN Len(s) - from ELSE 0
      BY <1>2, <1>3, <3>1
    <3>3. from + n <= Len(s)
      BY <1>2, <1>3, <1>4, <3>2
    <3>4. QED
      BY <3>1, <3>3
  <2>3. QED
    BY <2>1, <2>2
<1>6. SubSeq(unread(c), 1, n) = SubSeq(s, from + 1, from + n)
  <2>1. /\ Len(s) \in Nat /\ from + 1 \in 1 .. Len(s) /\ Len(s) \in 1 .. Len(s)
        /\ 1 \in 1 .. Len(s) - (from + 1) + 1 /\ n \in 1 .. Len(s) - (from + 1) + 1
    BY <1>2, <1>3, <1>4, <1>5
  <2>2. SubSeq(SubSeq(s, from + 1, Len(s)), 1, n) = SubSeq(s, from + 1 + 1 - 1, from + 1 + n - 1)
    <3>1. \A i, j \in 1 .. Len(s) : \A k, l \in 1 .. j - i + 1 :
            SubSeq(SubSeq(s, i, j), k, l) = SubSeq(s, i + k - 1, i + l - 1)
      BY <1>2, SubSeqOfSubSeq
    <3>2. QED
      BY <2>1, <3>1
  <2>3. from + 1 + 1 - 1 = from + 1 /\ from + 1 + n - 1 = from + n
    BY <1>3, <1>4
  <2>4. QED
    BY <1>5, <2>2, <2>3
<1>7. x \in Exchanges /\ x.calls = <<>> /\ x.reply = NoReply
      /\ x.from = from /\ x.to = from + n
  BY <1>3, <1>4 DEF Exchanges, Exchange
<1> HIDE DEF x, m
<1>8. Record(s, asked[c], Append(exchanges[c], x))
  <2>1. x.from = (IF exchanges[c] = <<>> THEN 0 ELSE exchanges[c][Len(exchanges[c])].to)
    BY <1>7 DEF from, taken
  <2>2. x.to <= Len(s)
    BY <1>5, <1>7
  <2>3. QED
    BY <1>2, <1>7, <2>1, <2>2, RecordTaken
<1>9. /\ exchanges'[c] = Append(exchanges[c], x)
      /\ \A d \in Conns : d # c => exchanges'[d] = exchanges[d]
  BY <1>1 DEF SystemInv, SystemTypeOK
<1>10. \A d \in Conns : Record(sent'[d], asked'[d], exchanges'[d])
  BY <1>1, <1>8, <1>9 DEF RecordInv, s
<1>11. InProgress'
  <2>1. Last(c)' = x
    <3>1. /\ Append(exchanges[c], x)[Len(Append(exchanges[c], x))] = x
      BY <1>2, <1>7
    <3>2. QED
      BY <1>9, <3>1 DEF Last
  <2>2. message' = assemble(WordsAt(s, x))
    BY <1>1, <1>6, <1>7 DEF WordsAt, m
  <2>3. step' = "idle"
    BY <1>1 DEF SystemInv, HandlerInv, InHand, fcsVars
  <2>4. serving' = c /\ sent'[c] = s
    BY <1>1 DEF s
  <2>5. Last(serving)' = x
    BY <2>1, <2>4 DEF Last
  <2>6. QED
    BY <1>7, <2>2, <2>3, <2>4, <2>5 DEF InProgress, CallsMade
<1>12. QED
  BY <1>10, <1>11 DEF RecordInv

\* What a step of the handler does to the call of the device.
LEMMA HandleStep ==
  ASSUME HandlerInv, Handle
  PROVE  /\ UNCHANGED message
         /\ \/ step # "ioctl" /\ step # "returned" /\ step' # "returned"
            \/ step = "open" /\ step' = "returned" /\ ~succeeded'
            \/ step = "ioctl" /\ step' = "returned" /\ UNCHANGED request
            \/ step = "returned" /\ UNCHANGED fcsVars
<1>1. CASE Parse \/ Unknown
  BY <1>1 DEF Parse, Unknown, fcsVars, HandlerInv, InHand
<1>2. CASE CallChipId \/ CallSigmaTeardown \/ CallWithPayload \/ CallCertificate
  BY <1>2 DEF CallChipId, CallSigmaTeardown, CallWithPayload, CallCertificate, Call, Command,
              fcsVars, HandlerInv, InHand
<1>3. CASE Device
  <2>1. UNCHANGED message /\ FcsNext
    BY <1>3 DEF Device, handlerVars
  <2>2. CASE OpenFails
    <3>1. ~succeeded
      BY <2>2 DEF OpenFails, HandlerInv, DeviceData
    <3>2. QED
      BY <2>1, <2>2, <3>1 DEF OpenFails
  <2>3. CASE Open
    BY <2>1, <2>3 DEF Open
  <2>4. CASE IoctlFails
    BY <2>1, <2>4 DEF IoctlFails
  <2>5. ASSUME NEW status \in Statuses, NEW size \in RspSizes, Ioctl(status, size)
        PROVE  step = "ioctl" /\ step' = "returned" /\ UNCHANGED request
    BY <2>5 DEF Ioctl
  <2>6. QED
    BY <2>1, <2>2, <2>3, <2>4, <2>5 DEF FcsNext
<1>4. CASE CertificateUnsupported \/ Disconnect \/ Answer
  BY <1>4 DEF CertificateUnsupported, Disconnect, Answer, Returned
<1>5. QED
  BY <1>1, <1>2, <1>3, <1>4 DEF Handle

\* The exchange being made, as the record has it.
LEMMA LastRecorded ==
  ASSUME SystemInv, RecordInv, serving # None
  PROVE  /\ serving \in Conns
         /\ Last(serving) \in Exchanges
         /\ Len(exchanges[serving]) \in DOMAIN exchanges[serving]
         /\ Record(sent[serving], asked[serving], exchanges[serving])
         /\ Justified(sent[serving], Last(serving))
         /\ message = assemble(WordsAt(sent[serving], Last(serving)))
<1>1. serving \in Conns /\ exchanges[serving] # <<>>
  BY DEF SystemInv, SystemTypeOK, ServedHasExchange
<1>2. exchanges[serving] \in Seq(Exchanges)
  BY <1>1, HistoryOf DEF SystemInv
<1>3. Len(exchanges[serving]) \in DOMAIN exchanges[serving] /\ Last(serving) \in Exchanges
  BY <1>1, <1>2 DEF Last
<1>4. Record(sent[serving], asked[serving], exchanges[serving])
  BY <1>1 DEF RecordInv
<1>5. QED
  BY <1>1, <1>3, <1>4 DEF RecordInv, InProgress, Record, Last

\* A note about the exchange being made that follows from its words.
LEMMA NotedRecord ==
  ASSUME SystemInv, RecordInv, serving # None, NEW x \in Exchange,
         x.from = Last(serving).from, x.to = Last(serving).to,
         exchanges' = [exchanges EXCEPT ![serving][Len(exchanges[serving])] = x],
         UNCHANGED <<sent, asked>>,
         Justified(sent[serving], x)
  PROVE  /\ \A d \in Conns : Record(sent'[d], asked'[d], exchanges'[d])
         /\ exchanges'[serving][Len(exchanges'[serving])] = x
<1> DEFINE n == Len(exchanges[serving])
<1>1. /\ serving \in Conns /\ n \in DOMAIN exchanges[serving]
      /\ Record(sent[serving], asked[serving], exchanges[serving])
  BY LastRecorded
<1>2. /\ \A d \in Conns : d # serving => exchanges'[d] = exchanges[d]
      /\ Len(exchanges'[serving]) = n
      /\ DOMAIN exchanges'[serving] = DOMAIN exchanges[serving]
      /\ exchanges'[serving][n] = x
      /\ \A k \in DOMAIN exchanges[serving] :
           k # n => exchanges'[serving][k] = exchanges[serving][k]
  BY LastExchange DEF Last
<1>3. Record(sent[serving], asked[serving], exchanges'[serving])
  BY <1>1, <1>2, RecordNoted DEF Last
<1>4. QED
  BY <1>1, <1>2, <1>3 DEF RecordInv

LEMMA HandleRecord ==
  ASSUME SystemInv, RecordInv, handleIncomingMessage
  PROVE  RecordInv'
<1>1. /\ Handle /\ UNCHANGED <<serving, sent, asked>>
      /\ IF step = "ioctl" THEN Noted(data'.status) ELSE UNCHANGED exchanges
  BY DEF handleIncomingMessage, poolVars, clientVars
<1>2. /\ UNCHANGED message
      /\ \/ step # "ioctl" /\ step # "returned" /\ step' # "returned"
         \/ step = "open" /\ step' = "returned" /\ ~succeeded'
         \/ step = "ioctl" /\ step' = "returned" /\ UNCHANGED request
         \/ step = "returned" /\ UNCHANGED fcsVars
  BY <1>1, HandleStep DEF SystemInv
<1>3. serving # None
  BY <1>1, HandleKeeps DEF SystemInv, SystemTypeOK
<1> DEFINE x == Last(serving)
<1>4. /\ serving \in Conns /\ x \in Exchanges
      /\ Justified(sent[serving], x)
      /\ message = assemble(WordsAt(sent[serving], x))
      /\ x.reply = NoReply /\ CallsMade(x.calls)
  BY <1>3, LastRecorded DEF RecordInv, InProgress
<1>5. CASE step # "ioctl"
  <2>1. UNCHANGED exchanges
    BY <1>1, <1>5
  <2>2. CallsMade(x.calls)'
    <3>1. UNCHANGED x.calls
      BY <1>1, <2>1 DEF Last
    <3>2. QED
      BY <1>2, <1>4, <1>5, <3>1 DEF CallsMade, fcsVars
  <2>3. QED
    BY <1>1, <1>2, <1>4, <2>1, <2>2 DEF RecordInv, InProgress, Last
<1>6. CASE step = "ioctl"
  <2> DEFINE call == [request |-> request, status |-> data'.status]
             y == [x EXCEPT !.calls = Append(@, call)]
  <2>1. x.calls = <<>>
    BY <1>4, <1>6 DEF CallsMade
  <2>2. /\ y.from = x.from /\ y.to = x.to /\ y.calls = <<call>> /\ y.reply = NoReply
    BY <1>4, <2>1 DEF Exchanges, Exchange
  <2>3. y \in Exchange
    <3>1. request \in [function : FcsFunctions \cup {"none"}, mbox_cmd : Nat,
                       words : Seq(Nat), cmd_data_sz : Nat]
      BY DEF SystemInv, HandlerInv, HandlerTypeOK, FcsTypeOK
    <3>2. data'.status \in Int
      BY <1>1, HandleKeeps DEF SystemInv, HandlerInv, HandlerTypeOK, FcsTypeOK
    <3> DEFINE Calls == [request : [function : FcsFunctions \cup {"none"}, mbox_cmd : Nat,
                                    words : Seq(Nat), cmd_data_sz : Nat],
                         status : Int]
    <3>3. call \in Calls
      BY <3>1, <3>2
    <3>4. <<call>> \in Seq(Calls)
      <4> HIDE DEF Calls, call
      <4>1. QED
        BY <3>3
    <3>5. x \in [from : Nat, to : Nat, calls : Seq(Calls), reply : Reply \cup {NoReply}]
      BY <1>4 DEF Exchanges, Exchange
    <3>6. y = [from |-> x.from, to |-> x.to, calls |-> <<call>>, reply |-> x.reply]
      <4> HIDE DEF Calls, call
      <4>1. QED
        BY <2>1, <3>5
    <3>7. y \in [from : Nat, to : Nat, calls : Seq(Calls), reply : Reply \cup {NoReply}]
      <4> HIDE DEF Calls, call, y
      <4>1. QED
        BY <3>4, <3>5, <3>6
    <3>8. QED
      BY <3>7 DEF Exchange
  <2>4. exchanges' = [exchanges EXCEPT ![serving][Len(exchanges[serving])] = y]
    BY <1>1, <1>6 DEF Noted, Last
  <2>5. Justified(sent[serving], y)
    <3>1. /\ message.size = getRequiredSize + WORD_SIZE * message.header.length
          /\ ValidCall(request, message)
      BY <1>6 DEF SystemInv, HandlerInv, DeviceSeesValidRequests
    <3>2. WordsAt(sent[serving], y) = WordsAt(sent[serving], x)
      BY <2>2 DEF WordsAt
    <3>3. Len(<<call>>) = 1 /\ <<call>>[1].request = request
      OBVIOUS
    <3> HIDE DEF y, x, call
    <3>4. QED
      BY <1>4, <2>2, <3>1, <3>2, <3>3 DEF Justified, CallJustified, ReplyJustified
  <2> HIDE DEF y
  <2>6. /\ \A d \in Conns : Record(sent'[d], asked'[d], exchanges'[d])
        /\ exchanges'[serving][Len(exchanges'[serving])] = y
    BY <1>1, <1>3, <2>2, <2>3, <2>4, <2>5, NotedRecord
  <2>7. Last(serving)' = y
    BY <1>1, <2>6 DEF Last
  <2>8. WordsAt(sent'[serving'], y) = WordsAt(sent[serving], x)
    BY <1>1, <2>2 DEF WordsAt
  <2>9. CallsMade(Last(serving).calls)'
    <3>1. step' = "returned" /\ UNCHANGED request
      BY <1>2, <1>6
    <3>2. Last(serving)'.calls = <<[request |-> request', status |-> data'.status]>>
      BY <2>2, <2>7, <3>1
    <3>3. QED
      BY <3>1, <3>2 DEF CallsMade
  <2>10. InProgress'
    <3>1. /\ message' = assemble(WordsAt(sent'[serving'], Last(serving)'))
          /\ Last(serving)'.reply = NoReply
      BY <1>2, <1>4, <2>2, <2>7, <2>8
    <3>2. QED
      BY <2>9, <3>1 DEF InProgress
  <2>11. QED
    BY <2>6, <2>10 DEF RecordInv
<1>7. QED
  BY <1>5, <1>6

LEMMA SendRecord ==
  ASSUME SystemInv, RecordInv, Send
  PROVE  RecordInv'
<1> DEFINE x == Last(serving)
           y == [x EXCEPT !.reply = response]
<1>1. /\ serving # None /\ serving' = None /\ UNCHANGED <<sent, asked>>
      /\ pc = "done" /\ response # NoReply
      /\ exchanges' = [exchanges EXCEPT ![serving][Len(exchanges[serving])] = y]
  BY DEF Send, Finish, Return, clientVars, Last
<1>2. /\ serving \in Conns /\ x \in Exchanges
      /\ Justified(sent[serving], x)
      /\ message = assemble(WordsAt(sent[serving], x))
      /\ CallsMade(x.calls)
  BY <1>1, LastRecorded DEF RecordInv, InProgress
<1>3. response \in Reply \cup {NoReply}
  BY DEF SystemInv, HandlerInv, HandlerTypeOK
<1>4. /\ y \in Exchange /\ y.from = x.from /\ y.to = x.to
      /\ y.calls = x.calls /\ y.reply = response
  BY <1>2, <1>3 DEF Exchanges, Exchange
<1> HIDE DEF x, y
<1>5. message.size >= getRequiredSize
  <2>1. x.from \in Nat /\ x.to \in Nat /\ x.from < x.to
    BY <1>2 DEF Exchanges, Exchange
  <2>2. sent[serving] \in Seq(Nat) /\ x.to <= Len(sent[serving])
    BY <1>1, <1>2, HistoryOf, LastRecorded DEF SystemInv, Record, Last, x
  <2>3. Len(WordsAt(sent[serving], x)) = x.to - x.from
    BY <2>1, <2>2 DEF WordsAt
  <2>4. message.size = 4 * (x.to - x.from)
    BY <1>2, <2>3 DEF assemble, WORD_SIZE
  <2>5. QED
    BY <2>1, <2>4 DEF getRequiredSize
<1>6. Justified(sent[serving], y)
  <2>1. WordsAt(sent[serving], y) = WordsAt(sent[serving], x)
    BY <1>4 DEF WordsAt
  <2>2. response.header.client = message.header.client /\ response.header.id = message.header.id
    BY <1>1, <1>5 DEF SystemInv, HandlerInv, RepliesWellFormed
  <2>3. response.header.code = noError => x.calls # <<>> /\ x.calls[1].status % CodeRange = 0
    <3>1. SUFFICES ASSUME response.header.code = noError
                   PROVE  x.calls # <<>> /\ x.calls[1].status % CodeRange = 0
      OBVIOUS
    <3>2. step = "returned" /\ succeeded /\ data.status % CodeRange = 0
      BY <1>1, <3>1 DEF SystemInv, HandlerInv, SuccessMeansDone
    <3>3. x.calls = <<[request |-> request, status |-> data.status]>>
      BY <1>2, <3>2 DEF CallsMade
    <3>4. QED
      BY <3>2, <3>3
  <2>4. QED
    BY <1>2, <1>4, <2>1, <2>2, <2>3 DEF Justified, CallJustified, ReplyJustified
<1>7. \A d \in Conns : Record(sent'[d], asked'[d], exchanges'[d])
  BY <1>1, <1>4, <1>6, NotedRecord DEF x
<1>8. QED
  BY <1>1, <1>7 DEF RecordInv, InProgress

(* The record tells what has happened, in every reachable state.            *)
THEOREM RecordInvariant == SystemSpec => []RecordInv
<1>1. SystemInit => RecordInv
  BY RecordInitInv
<1>2. SystemInv /\ RecordInv /\ SystemNext => RecordInv'
  <2>1. SUFFICES ASSUME SystemInv, RecordInv, SystemNext PROVE RecordInv'
    OBVIOUS
  <2>2. ASSUME NEW c \in Conns, Ask(c) \/ Recv(c) PROVE RecordInv'
    BY <2>1, <2>2, AskRecord, TakeRecord DEF Recv
  <2>3. ASSUME NEW c \in Conns, Connect(c) \/ Leave(c) PROVE RecordInv'
    BY <2>1, <2>3, RecordKept DEF Connect, Arrive, Leave, poolVars
  <2>4. CASE Accept \/ PollTimeout \/ SendFails \/ Restart
    BY <2>1, <2>4, RecordKept
       DEF Accept, Admit, PollTimeout, SendFails, Finish, Restart, poolVars, clientVars
  <2>5. ASSUME NEW c \in Conns, Close(c) PROVE RecordInv'
    BY <2>1, <2>5, GoneRecord DEF Close, Release
  <2>6. CASE AcceptFails \/ dropUnusedConnections \/ CloseUnanswered \/ ProcessEnds
    BY <2>1, <2>6, GoneRecord
       DEF AcceptFails, Abandon, dropUnusedConnections, CloseUnanswered, Release,
           ProcessEnds, Stop
  <2>7. QED
    BY <2>1, <2>2, <2>3, <2>4, <2>5, <2>6, HandleRecord, SendRecord DEF SystemNext, Client
<1>3. RecordInv /\ UNCHANGED systemVars => RecordInv'
  BY RecordKept DEF systemVars, poolVars, clientVars
<1>4. QED
  BY <1>1, <1>2, <1>3, SystemInvariant, PTL DEF SystemSpec

-----------------------------------------------------------------------------
(* What the record means.                                                   *)

\* An exchange that begins where a request does has read its header.
LEMMA AtHeader ==
  ASSUME NEW s \in Seq(Nat), NEW a \in Asked, Placed(s, a),
         NEW x \in Exchanges, x.to <= Len(s), x.from = a.from
  PROVE  LET m == assemble(WordsAt(s, x))
         IN m.header = a.request.header /\ m.size = WORD_SIZE * (x.to - x.from)
<1>1. /\ x.from \in Nat /\ x.to \in Nat /\ x.from < x.to /\ Len(s) \in Nat
      /\ a.from \in Nat /\ a.to \in Nat /\ a.request \in Asks
  BY DEF Exchanges, Exchange, Asked
<1>2. a.from < a.to /\ a.to <= Len(s)
  <2>1. Len(WordsOf(a.request)) = 1 + Len(a.request.body) /\ Len(a.request.body) \in Nat
    BY <1>1, WordsOfAsk, FcsServerAssumption DEF FcsServerAssumption, IsRequest
  <2>2. QED
    BY <1>1, <2>1 DEF Placed
<1>3. ASSUME NEW from \in Nat, NEW to \in Nat, from < to, to <= Len(s)
      PROVE  Len(SubSeq(s, from + 1, to)) = to - from
             /\ SubSeq(s, from + 1, to)[1] = s[from + 1]
  <2>1. from + 1 \in Int /\ to \in Int /\ \A i \in from + 1 .. to : s[i] \in Nat
    BY <1>1, <1>3
  <2>2. /\ Len(SubSeq(s, from + 1, to))
             = IF from + 1 <= to THEN to - (from + 1) + 1 ELSE 0
        /\ \A i \in 1 .. to - (from + 1) + 1 :
             SubSeq(s, from + 1, to)[i] = s[from + 1 + i - 1]
    BY <2>1, SubSeqProperties
  <2>3. 1 \in 1 .. to - (from + 1) + 1 /\ from + 1 + 1 - 1 = from + 1
    BY <1>3
  <2>4. SubSeq(s, from + 1, to)[1] = s[from + 1]
    BY <2>2, <2>3
  <2>5. QED
    BY <1>3, <2>2, <2>4
<1>4. Len(WordsAt(s, x)) = x.to - x.from /\ WordsAt(s, x)[1] = s[x.from + 1]
  BY <1>1, <1>3 DEF WordsAt
<1>5. WordsAt(s, a)[1] = s[a.from + 1]
  BY <1>1, <1>2, <1>3 DEF WordsAt
<1>6. fromUint32(WordsAt(s, a)[1]) = a.request.header
  <2>1. assemble(WordsOf(a.request)).header = a.request.header
    BY <1>1, WordsOfAsk
  <2>2. QED
    BY <2>1 DEF Placed, assemble
<1>7. QED
  BY <1>4, <1>5, <1>6 DEF assemble

\* If its length fits the header too, it has read that request.
LEMMA WholeRequest ==
  ASSUME NEW s \in Seq(Nat), NEW a \in Asked, Placed(s, a),
         NEW x \in Exchanges, x.to <= Len(s), x.from = a.from,
         LET m == assemble(WordsAt(s, x))
         IN m.size = getRequiredSize + WORD_SIZE * m.header.length
  PROVE  x.to = a.to /\ assemble(WordsAt(s, x)) = a.request
<1>1. /\ x.from \in Nat /\ x.to \in Nat /\ a.request \in Asks
      /\ a.from \in Nat /\ a.to \in Nat
  BY DEF Exchanges, Exchange, Asked
<1>2. /\ a.request.header.length = Len(a.request.body) /\ Len(a.request.body) \in Nat
      /\ Len(WordsOf(a.request)) = 1 + Len(a.request.body)
      /\ assemble(WordsOf(a.request)) = a.request
  BY <1>1, WordsOfAsk, FcsServerAssumption DEF FcsServerAssumption, IsRequest
<1>3. 4 * (x.to - x.from) = 4 + 4 * Len(a.request.body)
  BY <1>2, AtHeader DEF getRequiredSize, WORD_SIZE
<1>4. a.to = a.from + Len(WordsOf(a.request))
  BY DEF Placed
<1>5. x.to = a.to
  <2>1. Len(WordsOf(a.request)) = 1 + Len(a.request.body) /\ Len(a.request.body) \in Nat
    BY <1>2
  <2> DEFINE n == Len(a.request.body)
  <2>2. n \in Nat /\ a.to = a.from + (1 + n) /\ 4 * (x.to - x.from) = 4 + 4 * n
    BY <1>3, <1>4, <2>1
  <2> HIDE DEF n
  <2>3. x.to - x.from = 1 + n
    BY <1>1, <2>2
  <2>4. QED
    BY <1>1, <2>2, <2>3
<1>6. QED
  BY <1>2, <1>5 DEF Placed, WordsAt

\* No two exchanges begin at the same place.
LEMMA ReadOnce ==
  ASSUME NEW s, NEW rs, NEW xs \in Seq(Exchanges), Record(s, rs, xs),
         NEW k \in DOMAIN xs, NEW l \in DOMAIN xs, xs[k].from = xs[l].from
  PROVE  k = l
<1>1. /\ xs[k].from \in Nat /\ xs[k].to \in Nat /\ xs[k].from < xs[k].to
      /\ xs[l].from \in Nat /\ xs[l].to \in Nat /\ xs[l].from < xs[l].to
  BY DEF Exchanges, Exchange
<1>2. k \in Nat /\ l \in Nat
  OBVIOUS
<1>3. /\ k < l => xs[k].to <= xs[l].from
      /\ l < k => xs[l].to <= xs[k].from
  BY DEF Record
<1>4. QED
  BY <1>1, <1>2, <1>3

LEMMA RecordMeans == SystemInv /\ RecordInv => OnlyAsked /\ AnswersTrue
<1> SUFFICES ASSUME SystemInv, RecordInv PROVE OnlyAsked /\ AnswersTrue
  OBVIOUS
<1>1. ASSUME NEW c \in Conns, NEW k \in DOMAIN exchanges[c], NEW i \in DOMAIN asked[c],
             exchanges[c][k].from = asked[c][i].from
      PROVE  LET x == exchanges[c][k]
                 m == assemble(WordsAt(sent[c], x))
             IN /\ CallJustified(m, x.calls) /\ ReplyJustified(m, x.calls, x.reply)
                /\ m.header = asked[c][i].request.header
                /\ x.calls # <<>> =>
                     /\ x.to = asked[c][i].to /\ m = asked[c][i].request
                     /\ \A l \in DOMAIN exchanges[c] \ {k} : ~IsAsk(c, exchanges[c][l], i)
  <2> DEFINE x == exchanges[c][k]
             a == asked[c][i]
             m == assemble(WordsAt(sent[c], x))
  <2>1. /\ sent[c] \in Seq(Nat) /\ asked[c] \in Seq(Asked) /\ exchanges[c] \in Seq(Exchanges)
        /\ Record(sent[c], asked[c], exchanges[c])
    BY HistoryOf DEF SystemInv, RecordInv
  <2>2. /\ a \in Asked /\ x \in Exchanges /\ Placed(sent[c], a)
        /\ x.to <= Len(sent[c]) /\ Justified(sent[c], x)
    BY <2>1 DEF Record
  <2>3. x.from = a.from
    BY <1>1
  <2> HIDE DEF x, a
  <2>4. m.header = a.request.header
    BY <2>1, <2>2, <2>3, AtHeader
  <2>5. x.calls # <<>> => x.to = a.to /\ m = a.request
    <3>1. SUFFICES ASSUME x.calls # <<>> PROVE x.to = a.to /\ m = a.request
      OBVIOUS
    <3>2. m.size = getRequiredSize + WORD_SIZE * m.header.length
      BY <2>2, <3>1 DEF Justified, CallJustified
    <3>3. QED
      BY <2>1, <2>2, <2>3, <3>2, WholeRequest
  <2>6. \A l \in DOMAIN exchanges[c] \ {k} : ~IsAsk(c, exchanges[c][l], i)
    BY <2>1, <2>3, ReadOnce DEF IsAsk, x, a
  <2>7. QED
    BY <2>2, <2>4, <2>5, <2>6 DEF Justified, x, a
<1>2. OnlyAsked
  <2>1. SUFFICES ASSUME NEW c \in Conns, NEW k \in DOMAIN exchanges[c],
                        AtRequest(c, exchanges[c][k]), exchanges[c][k].calls # <<>>
                 PROVE  /\ Len(exchanges[c][k].calls) = 1
                        /\ \E i \in DOMAIN asked[c] :
                             /\ IsAsk(c, exchanges[c][k], i)
                             /\ ValidCall(exchanges[c][k].calls[1].request, asked[c][i].request)
                             /\ \A l \in DOMAIN exchanges[c] \ {k} :
                                  ~IsAsk(c, exchanges[c][l], i)
    BY DEF OnlyAsked
  <2>2. PICK i \in DOMAIN asked[c] : exchanges[c][k].from = asked[c][i].from
    BY <2>1 DEF AtRequest
  <2>3. QED
    BY <1>1, <2>1, <2>2 DEF CallJustified, IsAsk
<1>3. AnswersTrue
  <2>1. SUFFICES ASSUME NEW c \in Conns, NEW k \in DOMAIN exchanges[c],
                        AtRequest(c, exchanges[c][k]), exchanges[c][k].reply # NoReply
                 PROVE  \E i \in DOMAIN asked[c] :
                          LET x == exchanges[c][k]
                              ask == asked[c][i]
                          IN /\ ask.from = x.from
                             /\ x.reply.header.client = ask.request.header.client
                             /\ x.reply.header.id = ask.request.header.id
                             /\ x.reply.header.code = noError =>
                                  /\ IsAsk(c, x, i)
                                  /\ x.calls # <<>> /\ x.calls[1].status % CodeRange = 0
    BY DEF AnswersTrue
  <2>2. PICK i \in DOMAIN asked[c] : exchanges[c][k].from = asked[c][i].from
    BY <2>1 DEF AtRequest
  <2>3. QED
    BY <1>1, <2>1, <2>2 DEF ReplyJustified, IsAsk
<1>4. QED
  BY <1>2, <1>3

(* However many clients there are, however their streams are cut, whatever  *)
(* else they send and whenever the process ends: from the beginning of a    *)
(* request the device is asked for that request alone, and once.            *)
THEOREM OnlyAskedCorrect == SystemSpec => []OnlyAsked
<1>1. SystemInv /\ RecordInv => OnlyAsked
  BY RecordMeans
<1>2. QED
  BY <1>1, SystemInvariant, RecordInvariant, PTL

(* Its reply names the request, and noError means that the device has       *)
(* carried it out, with a status that is 0 in the code field.               *)
THEOREM AnswersTrueCorrect == SystemSpec => []AnswersTrue
<1>1. SystemInv /\ RecordInv => AnswersTrue
  BY RecordMeans
<1>2. QED
  BY <1>1, SystemInvariant, RecordInvariant, PTL

=============================================================================
