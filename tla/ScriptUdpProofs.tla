---------------------------- MODULE ScriptUdpProofs ----------------------------
(***************************************************************************)
(* The UDP demos in Python and Java for any text and buffer and any number *)
(* of failures, losses and duplicates: the types, that no try is answered  *)
(* in place of a later one, and that the whole implements EchoOnce.        *)
(***************************************************************************)
EXTENDS ScriptUdp, ReceptionBufferProofs

Requests == {[kind |-> "request", client |-> c, data |-> Text] : c \in asked}

\* What either server makes of the request: Java returns its whole buffer.
TextEchoed == IF ProgramUsed = "java" THEN Overwrite(EmptyBuffer, Text) ELSE Text

\* The one answer there may be, once the server has given it.
Replies(c) == IF c \in Clients /\ sender = c /\ spc \in {"close", "done"}
              THEN {[kind |-> "reply", client |-> c, data |-> TextEchoed]}
              ELSE {}

QueueInv == /\ net \subseteq Requests \cup Replies(sender)
            /\ sq \in Seq(Requests)
            /\ \A c \in Clients : cq[c] \in Seq(Replies(c))

ServerInv == /\ sender # NoClient => /\ sender \in asked /\ taken = Text
                                     /\ spc \in {"echo", "close", "done"}
             /\ spc = "echo" => sender # NoClient

ClientInv == \A c \in Clients : shown[c] # <<>> => c = try /\ cpc \in {"close", "done"}

MainInv == /\ mpc \in {"bindServer", "makeClient", "spawnServer"} => spc = "idle"
           /\ mpc \in {"bindServer", "makeClient", "spawnServer", "spawnClient"} => cpc = "idle"

\* No request is on its way, waits or was taken.
NoRequest == /\ \A m \in net : m.kind # "request"
             /\ sq = <<>> /\ sender = NoClient

\* As long as none is doubled there is one request at most, from the socket the
\* client waits on; and none once that socket was refused, or before it asks.
OneRequest == dups = 0 =>
  /\ (cpc \in {"idle", "start", "socket", "send"} \/ try \in refused) => NoRequest
  /\ \A m \in net : m.kind = "request" => m.client = try /\ sq = <<>> /\ sender = NoClient
  /\ sq # <<>> => Len(sq) = 1 /\ Head(sq).client = try /\ sender = NoClient
  /\ sender # NoClient => sender = try

\* A new socket has not asked, and only one that has asked can be refused.
AskedInv == /\ asked \subseteq 0..try /\ refused \subseteq asked
            /\ cpc \in {"idle", "start", "socket", "send"} => try \notin asked

ScriptInv == /\ ScriptTypeOK /\ QueueInv /\ ServerInv /\ ClientInv /\ MainInv
             /\ OneRequest /\ AskedInv

-------------------------------------------------------------------------------
(* The text, asked and answered. *)

LEMMA SubsetSeq ==
  ASSUME NEW S, NEW T, S \subseteq T, NEW s \in Seq(S)
  PROVE  s \in Seq(T)
OBVIOUS

LEMMA SocketFacts == /\ Clients = 0..3 /\ 0 \in Clients /\ LocalClient = 0
                     /\ NoClient \notin Clients
BY ScriptAssumption DEF LastTry

\* A Java server sends more than it got, and the client takes what it sent.
LEMMA EchoedText ==
  /\ Text \in Payloads /\ Text # <<>> /\ TextEchoed \in Payloads
  /\ Received(TextEchoed) = Text
<1>1. /\ Text \in Seq(Byte) /\ Text \in Payloads /\ Text # <<>>
      /\ Len(Text) \in Nat /\ Len(Text) < BufSize /\ BufSize \in Nat
  BY ScriptAssumption, BufferAssumption, SubsetSeq DEF Payloads
<1>2. CASE ProgramUsed # "java"
  BY <1>1, <1>2 DEF TextEchoed, Received
<1>3. CASE ProgramUsed = "java"
  <2> DEFINE whole == Overwrite(EmptyBuffer, Text)
             front == SubSeq(whole, 1, Len(Text))
  <2>1. /\ whole \in [1..BufSize -> Byte \cup {NUL}]
        /\ \A i \in 1..Len(Text) : whole[i] = Text[i]
    BY <1>1 DEF Overwrite, EmptyBuffer
  <2>2. TextEchoed = whole
    BY <1>3 DEF TextEchoed
  <2> HIDE DEF whole
  <2>3. whole \in Payloads /\ Len(whole) = BufSize
    BY <1>1, <2>1 DEF Payloads
  <2>4. /\ front \in Seq(Byte \cup {NUL}) /\ Len(front) = Len(Text)
        /\ \A i \in 1..Len(Text) : front[i] = whole[i]
    BY <1>1, <2>3 DEF Payloads
  <2>5. Received(TextEchoed) = front
    BY <1>1, <1>3, <2>2, <2>3 DEF Received
  <2> HIDE DEF front
  <2>6. front = Text
    BY <1>1, <2>1, <2>4 DEF Payloads
  <2> QED BY <1>1, <2>2, <2>3, <2>5, <2>6
<1> QED BY <1>2, <1>3

\* A request or a reply is a datagram.
LEMMA MessageFacts ==
  ASSUME ScriptTypeOK
  PROVE  /\ Requests \subseteq Datagrams
         /\ \A c : Replies(c) \subseteq Datagrams
         /\ \A m \in Requests : /\ m.kind = "request" /\ m.client \in asked
                                /\ m.client \in Clients /\ m.data = Text
                                /\ m = [kind |-> "request", client |-> m.client, data |-> Text]
         /\ \A c : \A m \in Replies(c) :
               /\ m.kind = "reply" /\ m.client = c /\ c \in Clients
               /\ m.data = TextEchoed /\ sender = c /\ spc \in {"close", "done"}
<1>1. asked \subseteq Clients
  BY DEF ScriptTypeOK, NetworkTypeOK
<1>2. /\ Requests \subseteq Datagrams
      /\ \A m \in Requests : /\ m.kind = "request" /\ m.client \in asked
                             /\ m.client \in Clients /\ m.data = Text
                             /\ m = [kind |-> "request", client |-> m.client, data |-> Text]
  BY <1>1, EchoedText DEF Requests, Datagrams
<1>3. /\ \A c : Replies(c) \subseteq Datagrams
      /\ \A c : \A m \in Replies(c) :
            /\ m.kind = "reply" /\ m.client = c /\ c \in Clients
            /\ m.data = TextEchoed /\ sender = c /\ spc \in {"close", "done"}
  BY EchoedText DEF Replies, Datagrams
<1> QED BY <1>2, <1>3

\* A request stays asked for, and a server that has answered stays where it is.
LEMMA MessagesKept ==
  ASSUME cfg' = cfg, asked \subseteq asked',
         sender # NoClient => sender' = sender,
         spc \in {"close", "done"} => spc' \in {"close", "done"} \/ sender = NoClient
  PROVE  /\ Requests \subseteq Requests'
         /\ \A c \in Clients : Replies(c) \subseteq Replies(c)'
         /\ Replies(sender) \subseteq Replies(sender)'
<1>1. TextEchoed' = TextEchoed
  BY DEF TextEchoed, ProgramUsed, Program
<1>2. Requests \subseteq Requests'
  BY DEF Requests
<1>3. ASSUME NEW c \in Clients PROVE Replies(c) \subseteq Replies(c)'
  <2>1. CASE sender = c /\ spc \in {"close", "done"}
    <3>1. sender' = c /\ spc' \in {"close", "done"}
      BY <2>1, SocketFacts
    <3> QED BY <1>1, <2>1, <3>1 DEF Replies
  <2>2. CASE ~(sender = c /\ spc \in {"close", "done"})
    BY <2>2 DEF Replies
  <2> QED BY <2>1, <2>2
<1>4. Replies(sender) \subseteq Replies(sender)'
  <2>1. CASE sender \in Clients
    BY <1>3, <2>1, SocketFacts
  <2>2. CASE sender \notin Clients
    BY <2>2 DEF Replies
  <2> QED BY <2>1, <2>2
<1> QED BY <1>2, <1>3, <1>4

-------------------------------------------------------------------------------
(* The steps. *)

\* A step that neither asks, takes, hears nor tries again.
LEMMA QuietStep ==
  ASSUME ScriptInv, ScriptTypeOK', MainInv',
         UNCHANGED <<cfg, asked, taken, sender, try, shown, refused, dups>>,
         net' \subseteq net \cup Replies(sender)',
         sq' \in {sq, <<>>}, \A c \in Clients : cq'[c] \in {cq[c], <<>>},
         \/ spc' = spc \/ spc' \in {"close", "done"}
         \/ sender = NoClient /\ spc' # "echo",
         \/ cpc' = cpc \/ cpc' \in {"close", "done"}
         \/ cpc \in {"idle", "start", "socket"} /\ cpc' \in {"start", "socket", "send"}
  PROVE  ScriptInv'
<1>1. /\ ScriptTypeOK /\ QueueInv /\ ServerInv /\ ClientInv /\ OneRequest
  BY DEF ScriptInv
<1>2. /\ Requests \subseteq Requests'
      /\ \A c \in Clients : Replies(c) \subseteq Replies(c)'
      /\ Replies(sender) \subseteq Replies(sender)'
  BY MessagesKept
<1>3. QueueInv'
  <2>1. net' \subseteq (Requests \cup Replies(sender))'
    BY <1>1, <1>2 DEF QueueInv
  <2>2. sq' \in Seq(Requests')
    <3>1. sq \in Seq(Requests') /\ <<>> \in Seq(Requests')
      BY <1>1, <1>2, SubsetSeq DEF QueueInv
    <3> QED BY <3>1
  <2>3. ASSUME NEW c \in Clients PROVE cq'[c] \in Seq(Replies(c)')
    <3>1. cq[c] \in Seq(Replies(c)') /\ <<>> \in Seq(Replies(c)')
      BY <1>1, <1>2, SubsetSeq DEF QueueInv
    <3> QED BY <3>1
  <2> QED BY <2>1, <2>2, <2>3 DEF QueueInv
<1>4. ServerInv'
  BY <1>1 DEF ServerInv
<1>5. ClientInv'
  BY <1>1 DEF ClientInv
<1>6. OneRequest'
  <2>1. \A m \in net' : m.kind = "request" => m \in net
    <3>1. \A m \in Replies(sender)' : m.kind = "reply"
      BY DEF Replies
    <3> QED BY <3>1
  <2>2. NoRequest => NoRequest'
    BY <2>1 DEF NoRequest
  <2>3. cpc' \in {"idle", "start", "socket", "send"} => cpc \in {"idle", "start", "socket", "send"}
    OBVIOUS
  <2> QED BY <1>1, <2>1, <2>2, <2>3 DEF OneRequest
<1>7. AskedInv'
  BY DEF ScriptInv, AskedInv
<1> QED BY <1>3, <1>4, <1>5, <1>6, <1>7 DEF ScriptInv

LEMMA ExitTypes ==
  ASSUME ScriptTypeOK, Exit
  PROVE  NetworkTypeOK'
<1>1. /\ sq' = <<>> /\ server' = "closed" /\ gone' = Clients /\ faults' = faults + 1
      /\ csock' = [c \in Clients |-> "closed"] /\ cq' = [c \in Clients |-> <<>>]
      /\ UNCHANGED <<net, refused, asked, lost, dups>>
  BY DEF Exit
<1>2. /\ NetworkTypeOK /\ <<>> \in Seq(Datagrams)
  BY DEF ScriptTypeOK
<1>3. sq' \in Seq(Datagrams) /\ cq' \in [Clients -> Seq(Datagrams)]
  BY <1>1, <1>2
<1> QED BY <1>1, <1>2, <1>3 DEF NetworkTypeOK, SocketStates

LEMMA MainStep == ScriptInv /\ Main => ScriptInv'
<1> SUFFICES ASSUME ScriptInv, Main PROVE ScriptInv'
  OBVIOUS
<1>1. /\ UNCHANGED <<cfg, taken, sender, try, shown>>
      /\ ScriptTypeOK /\ MainInv /\ ServerInv /\ faults + 1 \in Nat /\ 0 \in Clients
  BY SocketFacts DEF Main, ScriptInv, ScriptTypeOK, NetworkTypeOK
<1>2. UNCHANGED <<asked, refused, dups, net>>
  BY <1>1
  DEF Main, Construct, SpawnServer, SpawnClient, SpawnFails, JoinBoth, Exit, CallFails, netVars,
      ServerSocketBecomes, ClientSocketBecomes
<1>3. /\ sq' \in {sq, <<>>} /\ \A c \in Clients : cq'[c] \in {cq[c], <<>>}
  BY <1>1
  DEF Main, Construct, SpawnServer, SpawnClient, SpawnFails, JoinBoth, Exit, CallFails, netVars,
      ServerSocketBecomes, ClientSocketBecomes
<1>4. NetworkTypeOK'
  <2>1. CASE UNCHANGED netVars \/ CallFails \/ ServerSocketBecomes("bound")
               \/ ClientSocketBecomes(0, "bound")
    BY <1>1, <2>1 DEF CallFails, netVars, ServerSocketBecomes, ClientSocketBecomes,
                      ScriptTypeOK, NetworkTypeOK, SocketStates
  <2>2. CASE Exit
    BY <1>1, <2>2, ExitTypes
  <2> QED
    BY <2>1, <2>2 DEF Main, Construct, SpawnServer, SpawnClient, SpawnFails, JoinBoth
<1>5. /\ mpc' \in {"bindServer", "makeClient", "spawnServer", "spawnClient", "join", "finished"}
      /\ spc' = spc \/ (spc = "idle" /\ spc' = "start")
      /\ cpc' = cpc \/ (cpc = "idle" /\ cpc' = "start")
      /\ MainInv'
  BY <1>1
  DEF Main, Construct, SpawnServer, SpawnClient, SpawnFails, JoinBoth, MainGoto, MainInv
<1>6. ScriptTypeOK'
  BY <1>1, <1>4, <1>5 DEF ScriptTypeOK, ConfigTypeOK
<1>7. spc = "idle" => sender = NoClient
  BY <1>1 DEF ServerInv
<1> QED BY <1>1, <1>2, <1>3, <1>5, <1>6, <1>7, QuietStep


\* The server opens its socket, answers, closes it or gives up.
LEMMA ServerQuiet ==
  ASSUME ScriptInv, ServerOpens \/ ServerEcho \/ ServerClose \/ ServerThrows("recv"),
         UNCHANGED <<cfg, mpc, cpc, taken, sender, try, shown>>
  PROVE  ScriptInv'
<1>1. /\ ScriptTypeOK /\ MainInv /\ ServerInv /\ QueueInv /\ faults \in Nat /\ faults + 1 \in Nat
  BY DEF ScriptInv, ScriptTypeOK, NetworkTypeOK
<1>2. UNCHANGED <<asked, refused, dups>>
  BY DEF ServerOpens, ServerEcho, ServerClose, ServerThrows, Exit, CallFails, netVars,
         ServerSocketBecomes, SendReply, CloseServerSocket
<1>3. /\ sq' \in {sq, <<>>} /\ \A c \in Clients : cq'[c] \in {cq[c], <<>>}
  BY DEF ServerOpens, ServerEcho, ServerClose, ServerThrows, Exit, CallFails, netVars,
         ServerSocketBecomes, SendReply, CloseServerSocket
<1>4. /\ spc # "idle" /\ spc' \in {"idle", "start", "socket", "bind", "recv", "echo", "close", "done"}
      /\ \/ spc' \in {"close", "done"}
         \/ spc \in {"start", "socket", "bind"} /\ spc' \notin {"idle", "echo"}
  BY DEF ServerOpens, ServerEcho, ServerClose, ServerThrows, ServerGoto
<1>5. net' \subseteq net \cup Replies(sender)'
  <2>1. CASE ServerGoto("echo", "close") /\ SendReply(sender, Reply)
    <3>1. sender \in Clients /\ taken = Text /\ spc' = "close"
      BY <1>1, <2>1 DEF ServerGoto, ServerInv, ScriptTypeOK
    <3>2. /\ Reply = TextEchoed
          /\ net' = net \cup {[kind |-> "reply", client |-> sender, data |-> Reply]}
      BY <2>1, <3>1 DEF Reply, TextEchoed, SendReply
    <3>3. TextEchoed' = TextEchoed
      BY DEF TextEchoed, ProgramUsed, Program
    <3> QED BY <3>1, <3>2, <3>3 DEF Replies
  <2>2. CASE ServerOpens \/ ServerThrows("echo") \/ ServerClose \/ ServerThrows("recv")
    BY <2>2 DEF ServerOpens, ServerThrows, ServerClose, Exit, CallFails, netVars,
                ServerSocketBecomes, CloseServerSocket
  <2> QED BY <2>1, <2>2 DEF ServerEcho
<1>6. net' \subseteq Datagrams
  <2>1. TextEchoed' \in Payloads
    BY EchoedText DEF TextEchoed, ProgramUsed, Program
  <2>2. Replies(sender)' \subseteq Datagrams
    BY <2>1 DEF Replies, Datagrams
  <2> QED BY <1>1, <1>5, <2>2 DEF ScriptTypeOK, NetworkTypeOK
<1>7. /\ server' \in SocketStates /\ csock' \in [Clients -> SocketStates]
      /\ gone' \subseteq Clients /\ faults' \in Nat /\ lost' = lost
  BY <1>1
  DEF ServerOpens, ServerEcho, ServerClose, ServerThrows, Exit, CallFails, netVars,
      ServerSocketBecomes, SendReply, CloseServerSocket, ScriptTypeOK, NetworkTypeOK, SocketStates
<1>8. cq' \in [Clients -> Seq(Datagrams)]
  <2>1. cq' = cq \/ cq' = [c \in Clients |-> <<>>]
    BY DEF ServerOpens, ServerEcho, ServerClose, ServerThrows, Exit, CallFails, netVars,
           ServerSocketBecomes, SendReply, CloseServerSocket
  <2>2. <<>> \in Seq(Datagrams) /\ cq \in [Clients -> Seq(Datagrams)]
    BY <1>1 DEF ScriptTypeOK, NetworkTypeOK
  <2> QED BY <2>1, <2>2
<1>9. NetworkTypeOK'
  <2>1. sq' \in Seq(Datagrams)
    <3>1. <<>> \in Seq(Datagrams) /\ sq \in Seq(Datagrams)
      BY <1>1 DEF ScriptTypeOK, NetworkTypeOK
    <3> QED BY <1>3, <3>1
  <2> QED BY <1>1, <1>2, <1>6, <1>7, <1>8, <2>1 DEF ScriptTypeOK, NetworkTypeOK
<1>10. ScriptTypeOK'
  BY <1>1, <1>4, <1>9 DEF ScriptTypeOK, ConfigTypeOK
<1>11. MainInv'
  BY <1>1, <1>4 DEF MainInv
<1>12. spc \in {"start", "socket", "bind"} => sender = NoClient
  BY <1>1 DEF ServerInv
<1> QED BY <1>2, <1>3, <1>4, <1>5, <1>10, <1>11, <1>12, QuietStep

\* The server takes a request, the first and only one.
LEMMA ServerTakes ==
  ASSUME ScriptInv, ServerGoto("recv", "echo"), NEW m, RecvRequest(m),
         taken' = m.data, sender' = m.client, UNCHANGED <<cfg, mpc, cpc, try, shown>>
  PROVE  ScriptInv' /\ m \in Requests /\ sender = NoClient
<1>1. /\ ScriptTypeOK /\ MainInv /\ ServerInv /\ QueueInv /\ ClientInv /\ OneRequest
  BY DEF ScriptInv
<1>2. /\ spc = "recv" /\ spc' = "echo" /\ sender = NoClient
  BY <1>1 DEF ServerGoto, ServerInv
<1>3. /\ sq # <<>> /\ m = Head(sq) /\ sq' = Tail(sq)
      /\ UNCHANGED <<net, cq, server, csock, refused, asked, gone, faults, lost, dups>>
  BY DEF RecvRequest
<1>4. m \in Requests /\ sq' \in Seq(Requests)
  BY <1>1, <1>3 DEF QueueInv
<1>5. /\ m.client \in asked /\ m.client \in Clients /\ m.data = Text /\ Requests \subseteq Datagrams
  BY <1>1, <1>4, MessageFacts
<1>6. ScriptTypeOK'
  <2>1. sq' \in Seq(Datagrams)
    BY <1>4, <1>5, SubsetSeq
  <2> QED
    BY <1>1, <1>2, <1>3, <1>5, <2>1, EchoedText DEF ScriptTypeOK, ConfigTypeOK, NetworkTypeOK
<1>7. QueueInv'
  <2>1. /\ Requests \subseteq Requests'
        /\ \A c \in Clients : Replies(c) \subseteq Replies(c)'
        /\ Replies(sender) \subseteq Replies(sender)'
    BY <1>2, <1>3, MessagesKept
  <2>2. net' \subseteq (Requests \cup Replies(sender))'
    BY <1>1, <1>3, <2>1 DEF QueueInv
  <2>3. sq' \in Seq(Requests')
    BY <1>4, <2>1, SubsetSeq
  <2>4. \A c \in Clients : cq'[c] \in Seq(Replies(c)')
    BY <1>1, <1>3, <2>1, SubsetSeq DEF QueueInv
  <2> QED BY <2>2, <2>3, <2>4 DEF QueueInv
<1>8. ServerInv' /\ ClientInv' /\ MainInv' /\ AskedInv'
  BY <1>1, <1>2, <1>3, <1>5, SocketFacts DEF ServerInv, ClientInv, MainInv, AskedInv, ScriptInv
<1>9. OneRequest'
  <2> SUFFICES ASSUME dups = 0
               PROVE  /\ cpc \notin {"idle", "start", "socket", "send"} /\ try \notin refused
                      /\ \A r \in net : r.kind # "request"
                      /\ sq' = <<>> /\ sender' = try
    BY <1>3 DEF OneRequest
  <2>1. Len(sq) = 1 /\ m.client = try
    BY <1>1, <1>3 DEF OneRequest
  <2>2. Tail(sq) = <<>>
    BY <1>1, <1>3, <2>1 DEF QueueInv
  <2>3. ~NoRequest
    BY <1>3 DEF NoRequest
  <2>4. \A r \in net : r.kind # "request"
    BY <1>1, <1>3 DEF OneRequest
  <2> QED BY <1>1, <1>3, <2>1, <2>2, <2>3, <2>4 DEF OneRequest
<1> QED BY <1>2, <1>4, <1>6, <1>7, <1>8, <1>9 DEF ScriptInv

LEMMA ServerStep == ScriptInv /\ ServerThread => ScriptInv'
<1> SUFFICES ASSUME ScriptInv, ServerThread PROVE ScriptInv'
  OBVIOUS
<1>1. UNCHANGED <<cfg, mpc, cpc, try, shown>>
  BY DEF ServerThread
<1>2. CASE (ServerOpens \/ ServerEcho \/ ServerClose) /\ UNCHANGED <<taken, sender>>
  BY <1>1, <1>2, ServerQuiet
<1>3. CASE ServerThrows("recv") /\ UNCHANGED <<taken, sender>>
  BY <1>1, <1>3, ServerQuiet
<1>4. ASSUME NEW m, ServerGoto("recv", "echo"), RecvRequest(m),
             taken' = m.data, sender' = m.client
      PROVE  ScriptInv'
  BY <1>1, <1>4, ServerTakes
<1> QED BY <1>2, <1>3, <1>4 DEF ServerThread, ServerRecv

\* The client opens a socket, closes it or gives up.
LEMMA ClientQuiet ==
  ASSUME ScriptInv, ClientOpens \/ ClientThrows \/ ClientClose,
         UNCHANGED <<cfg, mpc, spc, taken, sender, try, shown>>
  PROVE  ScriptInv'
<1>1. /\ ScriptTypeOK /\ MainInv /\ faults \in Nat /\ faults + 1 \in Nat
      /\ cq \in [Clients -> Seq(Datagrams)] /\ csock \in [Clients -> SocketStates]
      /\ <<>> \in Seq(Datagrams)
  BY DEF ScriptInv, ScriptTypeOK, NetworkTypeOK
<1>2. UNCHANGED <<net, sq, server, refused, asked, gone, lost, dups>> /\ faults' \in Nat
  BY <1>1 DEF ClientOpens, ClientThrows, ClientClose, CallFails, netVars,
              ClientSocketBecomes, CloseClientSocket
<1>3. cq' = cq \/ cq' = [cq EXCEPT ![try] = <<>>]
  BY DEF ClientOpens, ClientThrows, ClientClose, CallFails, netVars,
         ClientSocketBecomes, CloseClientSocket
<1>4. cq' \in [Clients -> Seq(Datagrams)] /\ \A c \in Clients : cq'[c] \in {cq[c], <<>>}
  BY <1>1, <1>3
<1>5. csock' \in [Clients -> SocketStates]
  BY <1>1 DEF ClientOpens, ClientThrows, ClientClose, CallFails, netVars,
              ClientSocketBecomes, CloseClientSocket, SocketStates
<1>6. /\ cpc # "idle" /\ cpc' \in {"idle", "start", "socket", "send", "recv", "close", "done"}
      /\ \/ cpc' \in {"close", "done"}
         \/ cpc \in {"idle", "start", "socket"} /\ cpc' \in {"start", "socket", "send"}
  BY DEF ClientOpens, ClientThrows, ClientClose, ClientGoto, AfterRecv
<1>7. ScriptTypeOK'
  BY <1>1, <1>2, <1>4, <1>5, <1>6 DEF ScriptTypeOK, ConfigTypeOK, NetworkTypeOK
<1>8. MainInv'
  BY <1>1, <1>6 DEF ScriptInv, MainInv
<1> QED BY <1>2, <1>4, <1>6, <1>7, <1>8, QuietStep

\* The client asks from the socket of this try.
LEMMA ClientAsks ==
  ASSUME ScriptInv, ClientSend, UNCHANGED <<cfg, mpc, spc, taken, sender, try, shown>>
  PROVE  ScriptInv'
<1> DEFINE m == [kind |-> "request", client |-> try, data |-> Text]
<1>1. /\ ScriptTypeOK /\ MainInv /\ ServerInv /\ QueueInv /\ ClientInv /\ OneRequest
      /\ NetworkTypeOK /\ try \in Clients
  BY DEF ScriptInv, ScriptTypeOK
<1>2. /\ cpc = "send" /\ cpc' = "recv"
      /\ net' = net \cup {m} /\ asked' = asked \cup {try}
      /\ csock' = [csock EXCEPT ![try] = "bound"]
      /\ UNCHANGED <<sq, cq, server, refused, gone, faults, lost, dups>>
  BY DEF ClientSend, ClientGoto, SendRequest
<1>3. m \in Datagrams /\ m.kind = "request" /\ m.client = try
  BY <1>1, EchoedText DEF Datagrams
<1>4. m \in Requests'
  BY <1>2 DEF Requests
<1> HIDE DEF m
<1>5. ScriptTypeOK'
  BY <1>1, <1>2, <1>3 DEF ScriptTypeOK, ConfigTypeOK, NetworkTypeOK, SocketStates
<1>6. QueueInv'
  <2>1. /\ Requests \subseteq Requests'
        /\ \A c \in Clients : Replies(c) \subseteq Replies(c)'
        /\ Replies(sender) \subseteq Replies(sender)'
    BY <1>2, MessagesKept
  <2>2. net' \subseteq (Requests \cup Replies(sender))'
    BY <1>1, <1>2, <1>4, <2>1 DEF QueueInv
  <2>3. sq' \in Seq(Requests')
    BY <1>1, <1>2, <2>1, SubsetSeq DEF QueueInv
  <2>4. \A c \in Clients : cq'[c] \in Seq(Replies(c)')
    BY <1>1, <1>2, <2>1, SubsetSeq DEF QueueInv
  <2> QED BY <2>2, <2>3, <2>4 DEF QueueInv
<1>7. ServerInv' /\ ClientInv' /\ MainInv'
  BY <1>1, <1>2 DEF ServerInv, ClientInv, MainInv
<1>9. AskedInv' /\ try \notin refused
  BY <1>1, <1>2, SocketFacts DEF ScriptInv, AskedInv
<1>8. OneRequest'
  <2> SUFFICES ASSUME dups = 0
               PROVE  /\ \A r \in net' : r.kind = "request" =>
                           r.client = try /\ sq' = <<>> /\ sender' = NoClient
                      /\ sq' = <<>> /\ sender' = NoClient
    BY <1>2, <1>9 DEF OneRequest
  <2>1. NoRequest
    BY <1>1, <1>2 DEF OneRequest
  <2> QED BY <1>2, <1>3, <2>1 DEF NoRequest
<1> QED BY <1>5, <1>6, <1>7, <1>8, <1>9 DEF ScriptInv

\* The client gets the answer, to the one request it can be about.
LEMMA ClientHears ==
  ASSUME ScriptInv, ClientGoto("recv", AfterRecv), NEW m, RecvReply(try, m),
         shown' = [shown EXCEPT ![try] = Received(m.data)],
         UNCHANGED <<cfg, mpc, spc, taken, sender, try>>
  PROVE  /\ ScriptInv'
         /\ sender = try /\ spc \in {"close", "done"} /\ shown[try] = <<>>
         /\ Received(m.data) = Text
<1>1. /\ ScriptTypeOK /\ MainInv /\ ServerInv /\ QueueInv /\ ClientInv /\ OneRequest /\ AskedInv
      /\ NetworkTypeOK /\ try \in Clients
  BY DEF ScriptInv, ScriptTypeOK
<1>2. /\ cpc = "recv" /\ cpc' \in {"close", "done"} /\ cq[try] # <<>>
      /\ m = Head(cq[try]) /\ cq' = [cq EXCEPT ![try] = Tail(cq[try])]
      /\ UNCHANGED <<net, sq, server, csock, refused, asked, gone, faults, lost, dups>>
  BY DEF ClientGoto, AfterRecv, RecvReply
<1>3. m \in Replies(try) /\ Tail(cq[try]) \in Seq(Replies(try))
  BY <1>1, <1>2 DEF QueueInv
<1>4. /\ sender = try /\ spc \in {"close", "done"} /\ Received(m.data) = Text
      /\ Replies(try) \subseteq Datagrams
  BY <1>1, <1>3, MessageFacts, EchoedText
<1>5. shown[try] = <<>> /\ \A c \in Clients : shown[c] = <<>>
  BY <1>1, <1>2 DEF ClientInv
<1>6. shown \in [Clients -> Payloads] /\ shown' = [shown EXCEPT ![try] = Text]
  BY <1>1, <1>4 DEF ScriptTypeOK
<1>7. ScriptTypeOK'
  <2>1. Tail(cq[try]) \in Seq(Datagrams)
    BY <1>3, <1>4, SubsetSeq
  <2>2. cq' \in [Clients -> Seq(Datagrams)]
    BY <1>1, <1>2, <2>1 DEF NetworkTypeOK
  <2>3. shown' \in [Clients -> Payloads]
    BY <1>6, EchoedText
  <2> QED BY <1>1, <1>2, <2>2, <2>3 DEF ScriptTypeOK, ConfigTypeOK, NetworkTypeOK
<1>8. QueueInv'
  <2>1. /\ Requests \subseteq Requests'
        /\ \A c \in Clients : Replies(c) \subseteq Replies(c)'
        /\ Replies(sender) \subseteq Replies(sender)'
    BY <1>2, MessagesKept
  <2>2. net' \subseteq (Requests \cup Replies(sender))'
    BY <1>1, <1>2, <2>1 DEF QueueInv
  <2>3. sq' \in Seq(Requests')
    BY <1>1, <1>2, <2>1, SubsetSeq DEF QueueInv
  <2>4. ASSUME NEW c \in Clients PROVE cq'[c] \in Seq(Replies(c)')
    <3>1. cq'[c] \in Seq(Replies(c))
      BY <1>1, <1>2, <1>3 DEF QueueInv, NetworkTypeOK
    <3> QED BY <2>1, <3>1, SubsetSeq
  <2> QED BY <2>2, <2>3, <2>4 DEF QueueInv
<1>9. ServerInv' /\ MainInv' /\ AskedInv'
  BY <1>1, <1>2 DEF ServerInv, MainInv, AskedInv
<1>10. ClientInv'
  BY <1>2, <1>5, <1>6 DEF ClientInv
<1>11. OneRequest'
  BY <1>1, <1>2 DEF OneRequest, NoRequest
<1> QED BY <1>4, <1>5, <1>7, <1>8, <1>9, <1>10, <1>11 DEF ScriptInv

\* The request was refused: nothing is left of it when the client tries again.
LEMMA ClientTriesAgain ==
  ASSUME ScriptInv, ClientRetries, UNCHANGED <<cfg, mpc, spc, taken, sender, shown>>
  PROVE  ScriptInv'
<1>1. /\ ScriptTypeOK /\ MainInv /\ ServerInv /\ QueueInv /\ ClientInv /\ OneRequest /\ AskedInv
      /\ NetworkTypeOK /\ try \in Clients /\ Clients = 0..3 /\ <<>> \in Seq(Datagrams)
  BY SocketFacts DEF ScriptInv, ScriptTypeOK
<1>2. /\ try \in refused /\ cpc = "recv"
      /\ cq' = [cq EXCEPT ![try] = <<>>]
      /\ csock' = [csock EXCEPT ![try] = IF csock[try] = "none" THEN "none" ELSE "closed"]
      /\ UNCHANGED <<net, sq, server, refused, asked, gone, faults, lost, dups>>
  BY DEF ClientRetries, ConnectionReset, ClientGoto, CloseClientSocket
<1>3. \/ cpc' = "socket" /\ try' = try + 1 /\ try < 3
      \/ cpc' = "done" /\ try' = try
  BY DEF ClientRetries, ClientGoto, LastTry
<1>4. try' \in Clients /\ cpc' \in {"socket", "done"} /\ try' >= try
  BY <1>1, <1>3
<1>5. ScriptTypeOK'
  <2>1. cq' \in [Clients -> Seq(Datagrams)] /\ csock' \in [Clients -> SocketStates]
    BY <1>1, <1>2 DEF NetworkTypeOK, SocketStates
  <2> QED BY <1>1, <1>2, <1>4, <2>1 DEF ScriptTypeOK, ConfigTypeOK, NetworkTypeOK
<1>6. QueueInv'
  <2>1. /\ Requests \subseteq Requests'
        /\ \A c \in Clients : Replies(c) \subseteq Replies(c)'
        /\ Replies(sender) \subseteq Replies(sender)'
    BY <1>2, MessagesKept
  <2>2. net' \subseteq (Requests \cup Replies(sender))'
    BY <1>1, <1>2, <2>1 DEF QueueInv
  <2>3. sq' \in Seq(Requests')
    BY <1>1, <1>2, <2>1, SubsetSeq DEF QueueInv
  <2>4. ASSUME NEW c \in Clients PROVE cq'[c] \in Seq(Replies(c)')
    <3>1. cq'[c] = cq[c] \/ cq'[c] = <<>>
      BY <1>1, <1>2 DEF NetworkTypeOK
    <3>2. cq[c] \in Seq(Replies(c)') /\ <<>> \in Seq(Replies(c)')
      BY <1>1, <2>1, SubsetSeq DEF QueueInv
    <3> QED BY <3>1, <3>2
  <2> QED BY <2>2, <2>3, <2>4 DEF QueueInv
<1>7. ServerInv' /\ MainInv'
  BY <1>1, <1>2 DEF ServerInv, MainInv
<1>8. ClientInv'
  BY <1>1, <1>2 DEF ClientInv
<1>9. AskedInv'
  <2>1. try \in Nat /\ try' \in Nat
    BY <1>1, <1>4
  <2>2. 0..try \subseteq 0..try'
    BY <1>4, <2>1
  <2>3. cpc' = "socket" => try' \notin asked
    BY <1>1, <1>3, <2>1 DEF AskedInv
  <2> QED BY <1>1, <1>2, <1>4, <2>2, <2>3 DEF AskedInv
<1>10. OneRequest'
  <2> SUFFICES ASSUME dups = 0
               PROVE  sq' = <<>> /\ sender' = NoClient /\ \A m \in net' : m.kind # "request"
    BY <1>2 DEF OneRequest, NoRequest
  <2> QED BY <1>1, <1>2 DEF OneRequest, NoRequest
<1> QED BY <1>5, <1>6, <1>7, <1>8, <1>9, <1>10 DEF ScriptInv

LEMMA ClientStep == ScriptInv /\ ClientThread => ScriptInv'
<1> SUFFICES ASSUME ScriptInv, ClientThread PROVE ScriptInv'
  OBVIOUS
<1>1. UNCHANGED <<cfg, mpc, spc, taken, sender>>
  BY DEF ClientThread
<1>2. CASE ClientRecv /\ UNCHANGED try
  BY <1>1, <1>2, ClientHears DEF ClientRecv
<1>3. CASE ClientRetries /\ UNCHANGED shown
  BY <1>1, <1>3, ClientTriesAgain
<1>4. CASE (ClientOpens \/ ClientThrows \/ ClientClose) /\ UNCHANGED <<try, shown>>
  BY <1>1, <1>4, ClientQuiet
<1>5. CASE ClientSend /\ UNCHANGED <<try, shown>>
  BY <1>1, <1>5, ClientAsks
<1> QED BY <1>2, <1>3, <1>4, <1>5 DEF ClientThread

\* What is on its way arrives, once or twice, or is lost.
LEMMA NetworkStep == ScriptInv /\ Network => ScriptInv'
<1> SUFFICES ASSUME ScriptInv, NEW m \in net, Deliver(m) \/ Duplicate(m) \/ Lose(m),
                    UNCHANGED <<cfg, mpc, spc, cpc, taken, sender, try, shown>>
             PROVE  ScriptInv'
  BY DEF Network, scriptVars
<1>1. /\ ScriptTypeOK /\ MainInv /\ ServerInv /\ QueueInv /\ ClientInv /\ OneRequest /\ AskedInv
      /\ NetworkTypeOK
  BY DEF ScriptInv, ScriptTypeOK
<1>2. /\ net' \subseteq net
      /\ UNCHANGED <<server, csock, asked, gone, faults>>
      /\ lost' \in Nat /\ dups' \in Nat
      /\ Arrive(m) \/ UNCHANGED <<sq, cq, refused>>
  BY <1>1 DEF Deliver, Duplicate, Lose, NetworkTypeOK
<1>3. /\ Requests' = Requests
      /\ \A c : Replies(c)' = Replies(c)
      /\ Replies(sender)' = Replies(sender)
  BY <1>2 DEF Requests, Replies, TextEchoed, ProgramUsed, Program
<1>4. m \in Datagrams /\ m \in Requests \cup Replies(sender)
  BY <1>1 DEF NetworkTypeOK, QueueInv
<1>5. /\ sq \in Seq(Requests) /\ sq \in Seq(Datagrams) /\ refused \subseteq Clients
      /\ cq \in [Clients -> Seq(Datagrams)] /\ \A c \in Clients : cq[c] \in Seq(Replies(c))
  BY <1>1 DEF NetworkTypeOK, QueueInv
<1>6. CASE m.kind = "request" /\ Arrive(m)
  <2>1. m \in Requests /\ m.client \in asked /\ m.client \in Clients
    BY <1>1, <1>4, <1>6, MessageFacts
  <2>2. /\ cq' = cq
        /\ \/ sq' = Append(sq, m) /\ refused' = refused
           \/ sq' = sq /\ refused' = refused \cup {m.client}
    BY <1>6 DEF Arrive
  <2>3. /\ sq' \in Seq(Requests) /\ sq' \in Seq(Datagrams)
        /\ refused' \subseteq Clients /\ refused' \subseteq asked
    <3>1. Append(sq, m) \in Seq(Requests) /\ Append(sq, m) \in Seq(Datagrams)
      BY <1>4, <1>5, <2>1
    <3> QED BY <1>1, <1>5, <2>1, <2>2, <3>1 DEF AskedInv
  <2>4. OneRequest'
    <3> SUFFICES ASSUME dups' = 0
                 PROVE  /\ (cpc \in {"idle", "start", "socket", "send"} \/ try \in refused') => NoRequest'
                        /\ \A r \in net' : r.kind # "request"
                        /\ sq' # <<>> => Len(sq') = 1 /\ Head(sq').client = try
                        /\ sender = NoClient
      BY DEF OneRequest
    <3>1. dups = 0 /\ (net' = net \ {m})
      BY <1>1 DEF Deliver, Duplicate, Lose, NetworkTypeOK
    <3>2. m.client = try /\ sq = <<>> /\ sender = NoClient /\ ~NoRequest
      BY <1>1, <1>6, <3>1 DEF OneRequest, NoRequest
    <3>3. \A r \in net' : r.kind # "request"
      <4> SUFFICES ASSUME NEW r \in net, r.kind = "request" PROVE r = m
        BY <3>1
      <4>1. r \in Requests /\ r.client = try
        BY <1>1, <3>1, MessageFacts DEF OneRequest, QueueInv
      <4> QED BY <1>1, <2>1, <3>2, <4>1, MessageFacts
    <3>4. sq' # <<>> => Len(sq') = 1 /\ Head(sq').client = try
      <4>1. CASE sq' = Append(sq, m)
        <5>1. sq' = <<m>>
          BY <3>2, <4>1
        <5> QED BY <3>2, <5>1
      <4> QED BY <2>2, <3>2, <4>1
    <3>5. CASE refused' = refused
      BY <1>1, <3>1, <3>2, <3>3, <3>4, <3>5 DEF OneRequest
    <3>6. CASE sq' = sq
      BY <3>2, <3>3, <3>4, <3>6 DEF NoRequest
    <3> QED BY <2>2, <3>5, <3>6
  <2> QED
    <3>1. ScriptTypeOK'
      BY <1>1, <1>2, <1>5, <2>2, <2>3 DEF ScriptTypeOK, ConfigTypeOK, NetworkTypeOK
    <3>2. QueueInv'
      BY <1>1, <1>2, <1>3, <1>5, <2>2, <2>3 DEF QueueInv
    <3>3. ServerInv' /\ ClientInv' /\ MainInv' /\ AskedInv'
      BY <1>1, <1>2, <2>3 DEF ServerInv, ClientInv, MainInv, AskedInv
    <3> QED BY <2>4, <3>1, <3>2, <3>3 DEF ScriptInv
<1>7. ASSUME sq' = sq, refused' = refused,
             cq' \in [Clients -> Seq(Datagrams)], \A c \in Clients : cq'[c] \in Seq(Replies(c))
      PROVE  ScriptInv'
  <2>1. ScriptTypeOK'
    BY <1>1, <1>2, <1>7 DEF ScriptTypeOK, ConfigTypeOK, NetworkTypeOK
  <2>2. QueueInv'
    BY <1>1, <1>2, <1>3, <1>5, <1>7 DEF QueueInv
  <2>3. ServerInv' /\ ClientInv' /\ MainInv' /\ AskedInv'
    BY <1>1, <1>2, <1>7 DEF ServerInv, ClientInv, MainInv, AskedInv
  <2>4. dups' = 0 => dups = 0
    BY <1>1 DEF Deliver, Duplicate, Lose, NetworkTypeOK
  <2>5. OneRequest'
    BY <1>1, <1>2, <1>7, <2>4 DEF OneRequest, NoRequest
  <2> QED BY <2>1, <2>2, <2>3, <2>5 DEF ScriptInv
<1>8. CASE m.kind = "reply" /\ Arrive(m)
  <2>1. m \in Replies(sender) /\ m.client = sender /\ sender \in Clients
    BY <1>1, <1>4, <1>8, MessageFacts
  <2>2. /\ sq' = sq /\ refused' = refused
        /\ cq' \in {cq, [cq EXCEPT ![sender] = Append(@, m)]}
    BY <1>8, <2>1 DEF Arrive
  <2>3. /\ Append(cq[sender], m) \in Seq(Datagrams)
        /\ Append(cq[sender], m) \in Seq(Replies(sender))
    BY <1>4, <1>5, <2>1
  <2>4. cq' \in [Clients -> Seq(Datagrams)] /\ \A c \in Clients : cq'[c] \in Seq(Replies(c))
    BY <1>5, <2>1, <2>2, <2>3
  <2> QED BY <1>7, <2>2, <2>4
<1>9. CASE UNCHANGED <<sq, cq, refused>>
  BY <1>5, <1>7, <1>9
<1> QED BY <1>2, <1>4, <1>6, <1>8, <1>9 DEF Datagrams

LEMMA StutterStep == ScriptInv /\ UNCHANGED vars => ScriptInv'
<1> SUFFICES ASSUME ScriptInv, UNCHANGED vars PROVE ScriptInv'
  OBVIOUS
<1>1. ScriptTypeOK' /\ MainInv'
  BY DEF vars, scriptVars, netVars, ScriptInv, ScriptTypeOK, ConfigTypeOK, NetworkTypeOK, MainInv
<1> QED BY <1>1, QuietStep DEF vars, scriptVars, netVars

LEMMA InitScript == Init => ScriptInv
<1> SUFFICES ASSUME Init PROVE ScriptInv
  OBVIOUS
<1>1. /\ mpc \in {"bindServer", "spawnServer"} /\ spc = "idle" /\ cpc = "idle"
      /\ taken = <<>> /\ sender = NoClient /\ try = 0 /\ shown = [c \in Clients |-> <<>>]
      /\ net = {} /\ sq = <<>> /\ cq = [c \in Clients |-> <<>>]
      /\ server = "none" /\ csock = [c \in Clients |-> "none"]
      /\ refused = {} /\ asked = {} /\ gone = {}
      /\ faults = 0 /\ lost = 0 /\ dups = 0
  BY DEF Init, NetworkInit
<1>2. ConfigTypeOK
  <2>1. PICK p \in ProgramsUsed, b \in BuildsUsed, t \in TypesUsed :
           cfg = [c \in Clients |-> [program |-> p, type |-> t, build |-> b]]
    BY DEF Init
  <2>2. p \in Programs /\ b \in Builds /\ t \in DemoTypes
    BY ConfigAssumption
  <2> QED BY <2>1, <2>2 DEF ConfigTypeOK
<1>3. <<>> \in Payloads /\ \A S : <<>> \in Seq(S)
  BY DEF Payloads
<1>4. NetworkTypeOK
  BY <1>1, <1>3 DEF NetworkTypeOK, SocketStates
<1>5. ScriptTypeOK
  BY <1>1, <1>2, <1>3, <1>4, SocketFacts DEF ScriptTypeOK
<1>6. QueueInv
  BY <1>1, <1>3 DEF QueueInv
<1>7. ServerInv /\ ClientInv /\ MainInv /\ AskedInv
  BY <1>1 DEF ServerInv, ClientInv, MainInv, AskedInv
<1>8. OneRequest
  BY <1>1 DEF OneRequest, NoRequest
<1> QED BY <1>5, <1>6, <1>7, <1>8 DEF ScriptInv

LEMMA ScriptStep == ScriptInv /\ [Next]_vars => ScriptInv'
BY MainStep, ServerStep, ClientStep, NetworkStep, StutterStep DEF Next

\* The inductive invariant: every datagram is a request with the text or the one
\* answer to it, and as long as none is doubled there is one request at most.
THEOREM ScriptInvariant == Spec => []ScriptInv
BY InitScript, ScriptStep, PTL DEF Spec

\* Every variable has its type; ERR_IDX stays within its bounds.
THEOREM ScriptTypeSafety == Spec => []ScriptTypeOK
<1>1. ScriptInv => ScriptTypeOK
  BY DEF ScriptInv
<1> QED BY <1>1, ScriptInvariant, PTL

\* While no datagram is doubled, the server answers the socket the client waits
\* on, and never one it has given up.
THEOREM AnswersTheLastTryHolds == Spec => []AnswersTheLastTry
<1>1. ScriptInv => AnswersTheLastTry
  BY DEF ScriptInv, OneRequest, AnswersTheLastTry
<1> QED BY <1>1, ScriptInvariant, PTL

-------------------------------------------------------------------------------
(* What the demo promises. *)

LEMMA EchoBegins == Init => Echo!Init
BY DEF Init, NetworkInit, Echo!Init

LEMMA EchoStep == ScriptInv /\ [Next]_vars => [Echo!Next]_Echo!echoVars
<1> SUFFICES ASSUME ScriptInv, [Next]_vars PROVE [Echo!Next]_Echo!echoVars
  OBVIOUS
<1> DEFINE answered == sender # NoClient /\ spc # "echo"
<1>1. ScriptTypeOK /\ ServerInv /\ try \in Clients /\ sender \in Clients \cup {NoClient}
  BY DEF ScriptInv, ScriptTypeOK
<1>2. UNCHANGED <<asked, sender, shown>> /\ answered' = answered => UNCHANGED Echo!echoVars
  BY DEF Echo!echoVars
<1>3. CASE Main
  <2>1. UNCHANGED <<asked, sender, shown>>
    BY <1>3 DEF Main, Construct, SpawnServer, SpawnClient, SpawnFails, JoinBoth, Exit, CallFails,
                netVars, ServerSocketBecomes, ClientSocketBecomes
  <2>2. spc' = spc \/ (spc = "idle" /\ spc' = "start")
    BY <1>3 DEF Main, Construct, SpawnServer, SpawnClient, SpawnFails, JoinBoth, ScriptInv,
                MainGoto, MainInv
  <2> QED BY <1>1, <1>2, <2>1, <2>2 DEF ServerInv
<1>4. CASE ServerThread
  <2>1. UNCHANGED shown
    BY <1>4 DEF ServerThread
  <2>2. CASE (ServerOpens \/ ServerClose \/ ServerThrows("recv")) /\ UNCHANGED sender
    <3>1. UNCHANGED asked
      BY <2>2 DEF ServerOpens, ServerClose, ServerThrows, Exit, CallFails, netVars,
                  ServerSocketBecomes, CloseServerSocket
    <3>2. spc # "echo" /\ spc' # "echo"
      BY <2>2 DEF ServerOpens, ServerClose, ServerThrows, ServerGoto
    <3> QED BY <1>2, <2>1, <2>2, <3>1, <3>2
  <2>3. CASE ServerEcho /\ UNCHANGED sender
    <3>1. UNCHANGED asked
      BY <2>3 DEF ServerEcho, ServerThrows, Exit, CallFails, SendReply
    <3>2. spc = "echo" /\ spc' # "echo" /\ sender # NoClient
      BY <1>1, <2>3 DEF ServerEcho, ServerThrows, ServerGoto, ServerInv
    <3>3. Echo!Answer
      BY <2>1, <2>3, <3>1, <3>2 DEF Echo!Answer
    <3> QED BY <3>3 DEF Echo!Next
  <2>4. ASSUME NEW m, ServerGoto("recv", "echo"), RecvRequest(m),
               taken' = m.data, sender' = m.client
        PROVE  Echo!Next
    <3>1. m \in Requests /\ sender = NoClient /\ spc' = "echo"
      BY <1>4, <2>4, ServerTakes DEF ServerThread, ServerGoto
    <3>2. m.client \in asked /\ m.client \in Clients
      BY <1>1, <3>1, MessageFacts
    <3>3. UNCHANGED asked
      BY <2>4 DEF RecvRequest
    <3>4. Echo!Take(m.client)
      BY <2>1, <2>4, <3>1, <3>2, <3>3 DEF Echo!Take
    <3> QED BY <3>2, <3>4 DEF Echo!Next
  <2> QED BY <1>4, <2>2, <2>3, <2>4 DEF ServerThread, ServerRecv
<1>5. CASE ClientThread
  <2>1. UNCHANGED <<sender, spc>>
    BY <1>5 DEF ClientThread
  <2>2. CASE (ClientOpens \/ ClientThrows \/ ClientClose \/ ClientRetries) /\ UNCHANGED shown
    <3>1. UNCHANGED asked
      BY <2>2 DEF ClientOpens, ClientThrows, ClientClose, ClientRetries, CallFails, netVars,
                  ClientSocketBecomes, CloseClientSocket
    <3> QED BY <1>2, <2>1, <2>2, <3>1
  <2>3. CASE ClientSend /\ UNCHANGED shown
    <3>1. asked' = asked \cup {try}
      BY <2>3 DEF ClientSend, SendRequest
    <3>2. Echo!Ask(try)
      BY <2>1, <2>3, <3>1 DEF Echo!Ask
    <3> QED BY <1>1, <3>2 DEF Echo!Next
  <2>4. ASSUME NEW m, ClientGoto("recv", AfterRecv), RecvReply(try, m),
               shown' = [shown EXCEPT ![try] = Received(m.data)], UNCHANGED try
        PROVE  Echo!Next
    <3>1. /\ sender = try /\ spc \in {"close", "done"} /\ shown[try] = <<>>
          /\ Received(m.data) = Text
      BY <1>5, <2>4, ClientHears DEF ClientThread
    <3>2. UNCHANGED asked
      BY <2>4 DEF RecvReply
    <3>3. Echo!Hear
      BY <1>1, <2>1, <2>4, <3>1, <3>2, SocketFacts DEF Echo!Hear
    <3> QED BY <3>3 DEF Echo!Next
  <2> QED BY <1>5, <2>2, <2>3, <2>4 DEF ClientThread, ClientRecv
<1>6. CASE Network
  <2>1. UNCHANGED <<asked, sender, shown, spc>>
    BY <1>6 DEF Network, Deliver, Duplicate, Lose, scriptVars
  <2> QED BY <1>2, <2>1
<1>7. CASE UNCHANGED vars
  BY <1>2, <1>7 DEF vars, scriptVars, netVars
<1> QED BY <1>3, <1>4, <1>5, <1>6, <1>7 DEF Next

\* Whichever socket asks, is refused or given up, at most one of them is
\* answered, once, and the client prints its own text.
THEOREM ScriptRefinement == Spec => ScriptImplementsEchoOnce
<1>1. Init => Echo!Init
  BY EchoBegins
<1>2. ScriptInv /\ [Next]_vars => [Echo!Next]_Echo!echoVars
  BY EchoStep
<1> QED BY <1>1, <1>2, ScriptInvariant, PTL DEF Spec, ScriptImplementsEchoOnce, Echo!Spec
===============================================================================
