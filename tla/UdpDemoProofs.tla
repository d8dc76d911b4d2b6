----------------------------- MODULE UdpDemoProofs -----------------------------
(***************************************************************************)
(* The UDP demo for any number of programs, any text and buffer and any    *)
(* number of failures, losses and duplicates: its types, that a client     *)
(* prints only its own text, and that the whole implements EchoOnce.       *)
(***************************************************************************)
EXTENDS UdpDemo, ReceptionBufferProofs

Requests == {[kind |-> "request", client |-> c, data |-> Request(c)] : c \in asked}

\* The one answer there may be, once the server has given it.
Replies(c) == IF c \in Clients /\ sender = c /\ spc \in {"close", "done"}
              THEN {[kind |-> "reply", client |-> c, data |-> Request(c)]}
              ELSE {}

QueueInv == /\ net \subseteq Requests \cup Replies(sender)
            /\ sq \in Seq(Requests)
            /\ \A c \in Clients : cq[c] \in Seq(Replies(c))

ServerInv == /\ sender # NoClient => sender \in asked /\ spc \in {"echo", "close", "done"}
             /\ spc = "echo" => /\ sender # NoClient
                                /\ nbytes = Len(Request(sender))
                                /\ \A i \in 1..nbytes : sbuf[i] = Request(sender)[i]

ClientInv == \A c \in Clients :
   /\ verdict[c] = "reply" => shown[c] = Text /\ sender = c /\ spc \in {"close", "done"}
   /\ verdict[c] # "reply" => shown[c] = <<>>
   /\ cpc[c] \notin {"close", "done"} => verdict[c] = "none"

MainInv == /\ mpc = "spawnServer" => spc = "idle"
           /\ mpc \in {"spawnServer", "spawnClient"} => cpc[LocalClient] = "idle"

IInv == UdpTypeOK /\ QueueInv /\ ServerInv /\ ClientInv /\ MainInv

-------------------------------------------------------------------------------
(* What the requests are *)

LEMMA SeqMonotone ==
  ASSUME NEW S, NEW T, S \subseteq T, NEW s \in Seq(S)
  PROVE  s \in Seq(T)
OBVIOUS

\* A request fits into the buffer with room for a terminator behind it.
LEMMA RequestType ==
  ASSUME NEW c
  PROVE  /\ Request(c) \in Payloads
         /\ Len(Request(c)) \in 1..BufSize - 1
         /\ Len(Text) <= Len(Request(c)) /\ Len(Request(c)) <= Len(Text) + 1
         /\ \A i \in 1..Len(Text) : Request(c)[i] = Text[i]
         /\ Len(Request(c)) = Len(Text) + 1 => Request(c)[Len(Text) + 1] = NUL
<1>1. /\ Text \in Seq(Byte) /\ Text \in Payloads
      /\ Len(Text) \in Nat /\ Len(Text) >= 1 /\ Len(Text) + 1 < BufSize /\ BufSize \in Nat
  BY TextAssumption, BufferAssumption DEF Payloads
<1>2. /\ Append(Text, NUL) \in Payloads
      /\ Len(Append(Text, NUL)) = Len(Text) + 1
      /\ \A i \in 1..Len(Text) : Append(Text, NUL)[i] = Text[i]
      /\ Append(Text, NUL)[Len(Text) + 1] = NUL
  BY <1>1 DEF Payloads
<1>3. Request(c) = Text \/ Request(c) = Append(Text, NUL)
  BY DEF Request
<1>4. CASE Request(c) = Text
  <2>1. Len(Request(c)) = Len(Text)
    BY <1>4
  <2>2. Len(Request(c)) \in 1..BufSize - 1
    BY <1>1, <2>1
  <2> QED BY <1>1, <1>4, <2>1, <2>2
<1>5. CASE Request(c) = Append(Text, NUL)
  <2>1. Len(Request(c)) = Len(Text) + 1
    BY <1>2, <1>5
  <2>2. Len(Request(c)) \in 1..BufSize - 1
    BY <1>1, <2>1
  <2>3. \A i \in 1..Len(Text) : Request(c)[i] = Text[i]
    BY <1>2, <1>5
  <2> QED BY <1>1, <1>2, <1>5, <2>1, <2>2, <2>3
<1> QED
  BY <1>3, <1>4, <1>5

LEMMA OverwriteType ==
  ASSUME NEW buf \in Buffers, NEW c
  PROVE  LET new == Overwrite(buf, Request(c))
             n == Len(Request(c))
         IN  /\ new \in Buffers /\ Terminate(new, n) \in Buffers
             /\ \A i \in 1..n : new[i] = Request(c)[i] /\ Terminate(new, n)[i] = Request(c)[i]
             /\ Terminate(new, n)[n + 1] = NUL
<1> DEFINE n == Len(Request(c))
           new == Overwrite(buf, Request(c))
<1>1. /\ BufSize \in Nat /\ n \in 1..BufSize - 1
      /\ \A i \in 1..n : Request(c)[i] \in Byte \cup {NUL}
  BY RequestType, BufferAssumption DEF Payloads
<1>2. /\ new \in Buffers
      /\ \A i \in 1..n : new[i] = Request(c)[i]
  BY <1>1 DEF Overwrite, Buffers
<1>3. /\ Terminate(new, n) \in Buffers
      /\ \A i \in 1..n : Terminate(new, n)[i] = new[i]
      /\ Terminate(new, n)[n + 1] = NUL
  <2> HIDE DEF n, new
  <2> QED BY <1>1, <1>2 DEF Terminate, Buffers
<1> QED
  BY <1>2, <1>3

\* A C string ends at the first terminator.
LEMMA FirstTerminator ==
  ASSUME NEW b \in Buffers, NEW n \in 0..BufSize - 1,
         \A i \in 1..n : b[i] # NUL, b[n + 1] = NUL
  PROVE  CString(b) = [i \in 1..n |-> b[i]]
<1> DEFINE Ends(m) == /\ \A i \in 1..m : b[i] # NUL
                      /\ m = BufSize \/ b[m + 1] = NUL
<1>1. n \in 0..BufSize /\ n \in Nat /\ BufSize \in Nat /\ n < BufSize
  BY BufferAssumption
<1>2. Ends(n)
  OBVIOUS
<1>3. ASSUME NEW m \in 0..BufSize, Ends(m) PROVE m = n
  <2>1. CASE m < n
    <3>1. m + 1 \in 1..n /\ m # BufSize
      BY <1>1, <2>1
    <3> QED BY <1>3, <3>1
  <2>2. CASE n < m
    <3>1. n + 1 \in 1..m
      BY <1>1, <2>2
    <3> QED BY <1>3, <3>1
  <2> QED BY <1>1, <2>1, <2>2
<1>4. (CHOOSE m \in 0..BufSize : Ends(m)) = n
  <2> HIDE DEF Ends
  <2> QED BY <1>1, <1>2, <1>3
<1> QED
  BY <1>4 DEF CString

\* Whatever was in the buffer, and whether the terminator came along or not,
\* the text printed after a reply is the text of the request.
LEMMA PrintedRequest ==
  ASSUME NEW old \in Buffers, NEW c
  PROVE  CString(Terminate(Overwrite(old, Request(c)), Len(Request(c)))) = Text
<1> DEFINE n == Len(Request(c))
           b == Terminate(Overwrite(old, Request(c)), n)
<1>1. /\ Text \in Seq(Byte) /\ Len(Text) \in 0..BufSize - 1
      /\ Len(Text) + 1 = n \/ Len(Text) = n
      /\ NUL \notin Byte /\ BufSize \in Nat
  BY TextAssumption, RequestType, BufferAssumption
<1>2. b \in Buffers /\ b[n + 1] = NUL /\ \A i \in 1..n : b[i] = Request(c)[i]
  BY OverwriteType
<1> HIDE DEF b
<1>3. \A i \in 1..Len(Text) : b[i] = Text[i] /\ b[i] # NUL
  <2> HIDE DEF n
  <2>1. \A i \in 1..Len(Text) : Text[i] \in Byte
    BY <1>1
  <2>2. \A i \in 1..Len(Text) : i \in 1..n
    BY <1>1
  <2> QED BY <1>1, <1>2, <2>1, <2>2, RequestType
<1>4. b[Len(Text) + 1] = NUL
  BY <1>1, <1>2, RequestType
<1>5. CString(b) = [i \in 1..Len(Text) |-> b[i]]
  BY <1>1, <1>2, <1>3, <1>4, FirstTerminator
<1>6. [i \in 1..Len(Text) |-> b[i]] = Text
  BY <1>1, <1>3
<1> QED
  BY <1>5, <1>6 DEF b

-------------------------------------------------------------------------------
(* The invariant is inductive *)

\* Nothing that was a request or the reply stops being one: requests stay
\* asked for, and a server that has answered stays where it is.
LEMMA MessagesKept ==
  ASSUME cfg' = cfg, asked \subseteq asked',
         sender # NoClient => sender' = sender,
         spc \in {"close", "done"} => spc' \in {"close", "done"} \/ sender = NoClient
  PROVE  /\ Requests \subseteq Requests'
         /\ \A c \in Clients : Replies(c) \subseteq Replies(c)'
         /\ Replies(sender) \subseteq Replies(sender)'
<1>1. \A c : Request(c)' = Request(c)
  BY DEF Request, Program
<1>2. Requests \subseteq Requests'
  BY <1>1 DEF Requests
<1>3. ASSUME NEW c \in Clients PROVE Replies(c) \subseteq Replies(c)'
  <2>1. NoClient \notin Clients
    BY ServerAssumption
  <2>2. CASE sender = c /\ spc \in {"close", "done"}
    <3>1. sender' = c /\ spc' \in {"close", "done"}
      BY <2>1, <2>2
    <3> QED BY <1>1, <2>2, <3>1 DEF Replies
  <2>3. CASE ~(sender = c /\ spc \in {"close", "done"})
    BY <2>3 DEF Replies
  <2> QED BY <2>2, <2>3
<1>4. Replies(sender) \subseteq Replies(sender)'
  <2>1. CASE sender \in Clients
    <3>1. sender' = sender
      BY <2>1, ServerAssumption
    <3> QED BY <1>3, <2>1, <3>1
  <2>2. CASE sender \notin Clients
    BY <2>2 DEF Replies
  <2> QED BY <2>1, <2>2
<1> QED
  BY <1>2, <1>3, <1>4

LEMMA QueuesKept ==
  ASSUME QueueInv, UNCHANGED <<net, sq, cq>>,
         Requests \subseteq Requests',
         \A c \in Clients : Replies(c) \subseteq Replies(c)',
         Replies(sender) \subseteq Replies(sender)'
  PROVE  QueueInv'
<1>1. net' \subseteq (Requests \cup Replies(sender))'
  BY DEF QueueInv
<1>2. sq' \in Seq(Requests')
  BY SeqMonotone DEF QueueInv
<1>3. \A c \in Clients : cq'[c] \in Seq(Replies(c)')
  BY SeqMonotone DEF QueueInv
<1> QED
  BY <1>1, <1>2, <1>3 DEF QueueInv

\* A request or a reply is a datagram, and what it says fits the buffer.
LEMMA MessageType ==
  ASSUME UdpTypeOK
  PROVE  /\ Requests \subseteq Datagrams
         /\ \A c : Replies(c) \subseteq Datagrams
         /\ \A m \in Requests : /\ m.kind = "request" /\ m.client \in asked
                                /\ m.client \in Clients /\ m.data = Request(m.client)
         /\ \A c : \A m \in Replies(c) :
               /\ m.kind = "reply" /\ m.client = c /\ c \in Clients
               /\ m.data = Request(c) /\ sender = c /\ spc \in {"close", "done"}
<1>1. asked \subseteq Clients
  BY DEF UdpTypeOK, NetworkTypeOK
<1>2. /\ Requests \subseteq Datagrams
      /\ \A m \in Requests : /\ m.kind = "request" /\ m.client \in asked
                             /\ m.client \in Clients /\ m.data = Request(m.client)
  BY <1>1, RequestType DEF Requests, Datagrams
<1>3. /\ \A c : Replies(c) \subseteq Datagrams
      /\ \A c : \A m \in Replies(c) :
            /\ m.kind = "reply" /\ m.client = c /\ c \in Clients
            /\ m.data = Request(c) /\ sender = c /\ spc \in {"close", "done"}
  BY RequestType DEF Replies, Datagrams
<1> QED
  BY <1>2, <1>3

LEMMA InitInv == Init => IInv
<1> SUFFICES ASSUME Init PROVE IInv
  OBVIOUS
<1> USE DEF Init, StartupCode, NetworkInit, ServerInit, ClientInit
<1>1. ConfigTypeOK
  <2> DEFINE Built(p, b, c) == IF p[c] = "python" THEN "unix" ELSE b[c]
  <2>1. PICK p \in [Clients -> ProgramsUsed], b \in [Clients -> BuildsUsed], t \in TypesUsed :
           cfg = [c \in Clients |->
                    [program |-> p[c],
                     type |-> IF c = LocalClient THEN t ELSE "CLIENT_ONLY",
                     build |-> Built(p, b, c)]]
    OBVIOUS
  <2>2. \A c \in Clients : p[c] \in Programs /\ Built(p, b, c) \in Builds
    BY ConfigAssumption DEF Builds
  <2>3. t \in DemoTypes /\ "CLIENT_ONLY" \in DemoTypes
    BY ConfigAssumption DEF DemoTypes
  <2> HIDE DEF Built
  <2> QED
    BY <2>1, <2>2, <2>3 DEF ConfigTypeOK
<1>2. NetworkTypeOK
  BY DEF NetworkTypeOK, SocketStates, Datagrams
<1>3. ServerTypeOK
  BY BufferAssumption DEF ServerTypeOK, ServerPcs, Buffers, EmptyBuffer
<1>4. ClientTypeOK
  BY DEF ClientTypeOK, ClientPcs, AddrStates
<1>5. QueueInv
  BY DEF QueueInv
<1>6. ServerInv /\ ClientInv /\ MainInv
  BY ConfigAssumption, TestBedAssumption DEF ServerInv, ClientInv, MainInv
<1>7. mpc \in MainPcs
  BY DEF MainPcs
<1> QED
  BY <1>1, <1>2, <1>3, <1>4, <1>5, <1>6, <1>7 DEF IInv, UdpTypeOK

\* A server step that neither receives nor echoes: nobody has asked it yet.
LEMMA ServerQuiet ==
  ASSUME IInv,
         UNCHANGED <<cfg, mpc, clientVars, net, sq, cq, csock, refused, asked, gone, lost, dups>>,
         UNCHANGED <<sender, nbytes, sbuf>>,
         faults' \in Nat, server' \in SocketStates,
         spc \in {"start", "resolve", "socket", "bind", "recv"},
         spc' \in ServerPcs \ {"echo"}
  PROVE  IInv'
<1>1. sender = NoClient
  BY DEF IInv, ServerInv
<1>2. UdpTypeOK'
  BY DEF IInv, UdpTypeOK, ConfigTypeOK, NetworkTypeOK, ServerTypeOK, ClientTypeOK, clientVars
<1>3. QueueInv'
  <2>1. QueueInv
    BY DEF IInv
  <2> QED BY <1>1, <2>1, MessagesKept, QueuesKept
<1>4. ServerInv' /\ MainInv'
  BY <1>1 DEF IInv, ServerInv, MainInv, clientVars
<1>5. ClientInv'
  BY <1>1, ServerAssumption DEF IInv, ClientInv, clientVars
<1> QED
  BY <1>2, <1>3, <1>4, <1>5 DEF IInv

\* A client step that neither talks to the server nor leaves it.
LEMMA ClientQuiet ==
  ASSUME IInv, NEW c \in Clients, NEW pc \in ClientPcs,
         UNCHANGED <<cfg, mpc, serverVars, net, sq, cq, server, asked, gone, lost, dups>>,
         UNCHANGED <<shown, verdict>>,
         faults' \in Nat, csock' \in [Clients -> SocketStates], refused' \subseteq Clients,
         addrs' \in [Clients -> AddrStates], undef' \subseteq Clients,
         cpc[c] \notin {"idle", "close", "done"},
         cpc' = [cpc EXCEPT ![c] = pc]
  PROVE  IInv'
<1>1. UdpTypeOK'
  BY DEF IInv, UdpTypeOK, ConfigTypeOK, NetworkTypeOK, ServerTypeOK, ClientTypeOK, serverVars
<1>2. QueueInv'
  <2>1. QueueInv
    BY DEF IInv
  <2> QED BY <2>1, MessagesKept, QueuesKept DEF serverVars
<1>3. Program(c)' = Program(c) /\ \A d : Request(d)' = Request(d)
  BY DEF Request, Program
<1>4. ServerInv' /\ MainInv'
  <2>1. ServerInv'
    BY <1>3 DEF IInv, ServerInv, serverVars
  <2>2. MainInv'
    BY ConfigAssumption, TestBedAssumption DEF IInv, MainInv, serverVars, UdpTypeOK, ClientTypeOK
  <2> QED BY <2>1, <2>2
<1>5. ClientInv'
  BY DEF IInv, ClientInv, serverVars, UdpTypeOK, ClientTypeOK
<1> QED
  BY <1>1, <1>2, <1>4, <1>5 DEF IInv

\* Every step of the server thread, from the first instruction to the last.
LEMMA ServerInductive == IInv /\ ServerThread => IInv'
<1> SUFFICES ASSUME IInv, ServerThread PROVE IInv'
  OBVIOUS
<1>1. /\ UNCHANGED <<cfg, mpc, clientVars>>
      /\ server \in SocketStates /\ faults \in Nat /\ faults + 1 \in Nat
      /\ "done" \in ServerPcs \ {"echo"} /\ Leaving(LocalClient) \in {"close", "done"}
      /\ {"resolve", "socket", "bind", "recv", "close", "done"} \subseteq ServerPcs \ {"echo"}
      /\ {"none", "created", "bound", "closed"} \subseteq SocketStates
  BY DEF ServerThread, IInv, UdpTypeOK, NetworkTypeOK, ServerPcs, SocketStates, Leaving
<1>2. CASE ServerApplication
  BY <1>1, <1>2, ServerQuiet DEF ServerApplication, At, Goto, netVars
<1>3. CASE ServerResolve
  BY <1>1, <1>3, ServerQuiet DEF ServerResolve, At, Goto, Leave, CallFails, netVars
<1>4. CASE ServerSocket
  BY <1>1, <1>4, ServerQuiet
  DEF ServerSocket, At, Goto, Leave, CallFails, ServerSocketBecomes
<1>5. CASE ServerBind
  BY <1>1, <1>5, ServerQuiet
  DEF ServerBind, At, Goto, CallFails, ServerSocketBecomes, netVars
<1>6. CASE ServerRecvFails
  BY <1>1, <1>6, ServerQuiet DEF ServerRecvFails, At, Goto, Leave, CallFails
<1>7. ASSUME sq # <<>>, ServerRecv(Head(sq)) PROVE IInv'
  <2> DEFINE m == Head(sq)
  <2>1. /\ spc = "recv" /\ spc' = "echo" /\ sender = NoClient /\ sender' = m.client
        /\ nbytes' = Len(m.data) /\ sbuf' = Received(m.data)
        /\ sq' = Tail(sq)
        /\ UNCHANGED <<net, cq, server, csock, refused, asked, gone, faults, lost, dups>>
    BY <1>7 DEF ServerRecv, At, RecvRequest, IInv, ServerInv
  <2>2. /\ m \in Requests /\ sq' \in Seq(Requests)
        /\ UdpTypeOK
    BY <1>7, <2>1 DEF IInv, QueueInv
  <2>3. /\ m.client \in asked /\ m.client \in Clients /\ m.client # NoClient
        /\ m.data = Request(m.client)
        /\ Requests \subseteq Datagrams
    BY <2>2, MessageType, ServerAssumption
  <2> HIDE DEF m
  <2>4. /\ sbuf' \in Buffers
        /\ \A i \in 1..nbytes' : sbuf'[i] = Request(m.client)[i]
        /\ nbytes' \in 1..BufSize - 1
    <3>1. sbuf \in Buffers
      BY <2>2 DEF UdpTypeOK, ServerTypeOK
    <3> QED BY <2>1, <2>3, <3>1, OverwriteType, RequestType DEF Received
  <2>5. UdpTypeOK'
    <3>1. nbytes' \in 0..BufSize
      BY <2>4, BufferAssumption
    <3>2. ServerTypeOK'
      BY <2>1, <2>3, <2>4, <3>1 DEF ServerTypeOK, ServerPcs
    <3>3. sq' \in Seq(Datagrams)
      BY <2>2, <2>3, SeqMonotone
    <3>4. NetworkTypeOK'
      BY <2>1, <2>2, <3>3 DEF UdpTypeOK, NetworkTypeOK
    <3> QED
      BY <1>1, <2>2, <3>2, <3>4 DEF UdpTypeOK, ConfigTypeOK, ClientTypeOK, clientVars
  <2>6. QueueInv'
    <3>1. /\ Requests \subseteq Requests'
          /\ \A c \in Clients : Replies(c) \subseteq Replies(c)'
          /\ Replies(sender) \subseteq Replies(sender)'
      BY <1>1, <2>1, MessagesKept
    <3>2. QueueInv
      BY DEF IInv
    <3>3. net' \subseteq (Requests \cup Replies(sender))'
      BY <2>1, <3>1, <3>2 DEF QueueInv
    <3>4. sq' \in Seq(Requests')
      BY <2>2, <3>1, SeqMonotone
    <3>5. \A c \in Clients : cq'[c] \in Seq(Replies(c)')
      BY <2>1, <3>1, <3>2, SeqMonotone DEF QueueInv
    <3> QED BY <3>3, <3>4, <3>5 DEF QueueInv
  <2>7. \A c : Request(c)' = Request(c)
    BY <1>1 DEF Request, Program
  <2>8. ServerInv'
    BY <2>1, <2>3, <2>4, <2>7 DEF ServerInv
  <2>9. ClientInv' /\ MainInv'
    BY <1>1, <2>1, ServerAssumption DEF IInv, ClientInv, MainInv, clientVars
  <2> QED BY <2>5, <2>6, <2>8, <2>9 DEF IInv
<1>8. CASE ServerEcho
  <2>1. /\ spc = "echo" /\ spc' \in {"close", "done"}
        /\ UNCHANGED <<sender, nbytes, sbuf>>
        /\ sender # NoClient /\ sender \in asked /\ sender \in Clients
        /\ UdpTypeOK /\ QueueInv
    BY <1>1, <1>8
    DEF ServerEcho, At, Leave, Goto, IInv, ServerInv, UdpTypeOK, ServerTypeOK
  <2>2. /\ Requests \subseteq Requests'
        /\ \A c \in Clients : Replies(c) \subseteq Replies(c)'
        /\ Replies(sender) \subseteq Replies(sender)'
    BY <1>1, <1>8, <2>1, MessagesKept DEF ServerEcho, SendReply, CallFails
  <2>3. /\ UNCHANGED <<sq, cq, server, csock, refused, asked, gone, lost, dups>>
        /\ faults' \in Nat
    BY <1>1, <1>8 DEF ServerEcho, SendReply, CallFails
  <2>4. Echoed = Request(sender)
    <3>1. /\ nbytes = Len(Request(sender))
          /\ \A i \in 1..nbytes : sbuf[i] = Request(sender)[i]
      BY <2>1 DEF IInv, ServerInv
    <3>2. Request(sender) \in Payloads
      BY RequestType
    <3> QED BY <3>1, <3>2 DEF Echoed, Payloads
  <2>5. net' \subseteq net \cup Replies(sender)'
    <3>1. CASE SendReply(sender, Echoed)
      <4>1. Request(sender)' = Request(sender)
        BY <1>1, <2>1 DEF Request, Program
      <4>2. net' = net \cup {[kind |-> "reply", client |-> sender, data |-> Request(sender)]}
        BY <2>4, <3>1 DEF SendReply
      <4> QED BY <2>1, <4>1, <4>2 DEF Replies
    <3>2. CASE CallFails
      BY <3>2 DEF CallFails
    <3> QED BY <1>8, <3>1, <3>2 DEF ServerEcho
  <2>6. QueueInv'
    <3>1. net' \subseteq (Requests \cup Replies(sender))'
      BY <2>1, <2>2, <2>5 DEF QueueInv
    <3>2. sq' \in Seq(Requests')
      BY <2>1, <2>2, <2>3, SeqMonotone DEF QueueInv
    <3>3. \A c \in Clients : cq'[c] \in Seq(Replies(c)')
      BY <2>1, <2>2, <2>3, SeqMonotone DEF QueueInv
    <3> QED BY <3>1, <3>2, <3>3 DEF QueueInv
  <2>7. UdpTypeOK'
    <3>1. net' \subseteq Datagrams
      <4>1. Replies(sender)' \subseteq Datagrams
        <5>1. Request(sender)' = Request(sender)
          BY <1>1, <2>1 DEF Request, Program
        <5>2. /\ [kind |-> "reply", client |-> sender, data |-> Request(sender)] \in Datagrams
              /\ sender' = sender
          BY <2>1, RequestType DEF Datagrams
        <5> QED BY <5>1, <5>2 DEF Replies
      <4> QED BY <2>1, <2>5, <4>1 DEF UdpTypeOK, NetworkTypeOK
    <3>2. NetworkTypeOK'
      BY <2>1, <2>3, <3>1 DEF UdpTypeOK, NetworkTypeOK
    <3> QED
      BY <1>1, <2>1, <3>2
      DEF UdpTypeOK, ConfigTypeOK, ServerTypeOK, ServerPcs, ClientTypeOK, clientVars
  <2>8. ServerInv' /\ MainInv'
    BY <1>1, <2>1, <2>3 DEF IInv, ServerInv, MainInv, clientVars
  <2>9. ClientInv'
    BY <1>1, <2>1 DEF IInv, ClientInv, clientVars
  <2> QED BY <2>6, <2>7, <2>8, <2>9 DEF IInv
<1>9. CASE ServerClose
  <2>1. /\ spc = "close" /\ spc' = "done"
        /\ UNCHANGED <<sender, nbytes, sbuf>>
        /\ sq' = <<>>
        /\ server' \in SocketStates
        /\ UNCHANGED <<net, cq, csock, refused, asked, gone, faults, lost, dups>>
    BY <1>1, <1>9 DEF ServerClose, At, Goto, CloseServerSocket
  <2>2. UdpTypeOK'
    BY <1>1, <2>1
    DEF IInv, UdpTypeOK, ConfigTypeOK, NetworkTypeOK, ServerTypeOK, ServerPcs, ClientTypeOK, clientVars
  <2>3. /\ Requests \subseteq Requests'
        /\ \A c \in Clients : Replies(c) \subseteq Replies(c)'
        /\ Replies(sender) \subseteq Replies(sender)'
    BY <1>1, <2>1, MessagesKept
  <2>4. QueueInv'
    <3>1. net' \subseteq (Requests \cup Replies(sender))'
      BY <2>1, <2>3 DEF IInv, QueueInv
    <3>2. \A c \in Clients : cq'[c] \in Seq(Replies(c)')
      BY <2>1, <2>3, SeqMonotone DEF IInv, QueueInv
    <3> QED BY <2>1, <3>1, <3>2 DEF QueueInv
  <2>5. ServerInv' /\ MainInv' /\ ClientInv'
    BY <1>1, <2>1 DEF IInv, ServerInv, MainInv, ClientInv, clientVars
  <2> QED BY <2>2, <2>4, <2>5 DEF IInv
<1> QED
  BY <1>2, <1>3, <1>4, <1>5, <1>6, <1>7, <1>8, <1>9 DEF ServerThread, ServerStep

\* Every step of a client, the local one's and those in other processes.
LEMMA ClientInductive == ASSUME NEW c \in Clients PROVE IInv /\ ClientThread(c) => IInv'
<1> SUFFICES ASSUME IInv, ClientThread(c) PROVE IInv'
  OBVIOUS
<1>1. /\ UNCHANGED <<cfg, mpc, serverVars>>
      /\ UdpTypeOK /\ QueueInv /\ ServerInv /\ ClientInv /\ MainInv
  BY DEF ClientThread, IInv
<1>2. /\ faults \in Nat /\ faults + 1 \in Nat
      /\ csock \in [Clients -> SocketStates] /\ refused \subseteq Clients
      /\ addrs \in [Clients -> AddrStates] /\ undef \subseteq Clients
      /\ cpc \in [Clients -> ClientPcs] /\ verdict \in [Clients -> {"none", "reply", "error"}]
      /\ shown \in [Clients -> Seq(Byte)] /\ cq \in [Clients -> Seq(Datagrams)]
      /\ Leaving(c) \in {"close", "done"}
      /\ {"resolve", "socket", "send", "recv", "close", "done"} \subseteq ClientPcs
      /\ {"none", "created", "bound", "closed"} \subseteq SocketStates
      /\ {"none", "held", "freed"} \subseteq AddrStates
  BY <1>1 DEF UdpTypeOK, NetworkTypeOK, ClientTypeOK, ClientPcs, SocketStates, AddrStates, Leaving
<1>3. FreeAddrs(c) => addrs' \in [Clients -> AddrStates] /\ undef' \subseteq Clients
  BY <1>2 DEF FreeAddrs
<1>4. CASE ClientApplication(c)
  BY <1>1, <1>2, <1>4, ClientQuiet DEF ClientApplication, ClientAt, ClientGoto, netVars
<1>5. CASE ClientResolve(c)
  <2>1. CASE CallFails /\ ClientGoto(c, Leaving(c))
    BY <1>1, <1>2, <1>5, <2>1, ClientQuiet
    DEF ClientResolve, ClientAt, ClientGoto, CallFails
  <2>2. CASE /\ cpc' = [cpc EXCEPT ![c] = "socket"]
             /\ addrs' = [addrs EXCEPT ![c] = "held"]
             /\ UNCHANGED <<shown, verdict, undef, netVars>>
    <3>1. addrs' \in [Clients -> AddrStates]
      BY <1>2, <2>2
    <3> QED
      BY <1>1, <1>2, <1>5, <2>2, <3>1, ClientQuiet DEF ClientResolve, ClientAt, netVars
  <2> QED BY <1>5, <2>1, <2>2 DEF ClientResolve
<1>6. CASE ClientSocket(c)
  <2> USE DEF ClientAt
  <2>1. cpc[c] = "socket"
    BY <1>6 DEF ClientSocket
  <2>2. CASE ClientSocketBecomes(c, "created") /\ ClientGoto(c, "send")
    <3>1. csock' \in [Clients -> SocketStates]
      BY <1>2, <2>2 DEF ClientSocketBecomes
    <3> QED
      BY <1>1, <1>2, <2>1, <2>2, <3>1, ClientQuiet DEF ClientSocketBecomes, ClientGoto
  <2>3. CASE /\ CallFails /\ SocketErrorSeen(c)
             /\ cpc' = [cpc EXCEPT ![c] = Leaving(c)]
             /\ FreeAddrs(c)
             /\ UNCHANGED <<shown, verdict>>
    BY <1>1, <1>2, <1>3, <2>1, <2>3, ClientQuiet DEF CallFails
  <2>4. CASE CallFails /\ ~SocketErrorSeen(c) /\ ClientGoto(c, "send")
    BY <1>1, <1>2, <2>1, <2>4, ClientQuiet DEF CallFails, ClientGoto
  <2> QED BY <1>6, <2>2, <2>3, <2>4 DEF ClientSocket
<1>7. CASE ClientSendFails(c)
  BY <1>1, <1>2, <1>7, ClientQuiet
  DEF ClientSendFails, SendRequestFails, ClientAt, ClientGoto, CallFails, netVars
<1>8. \A d : Request(d)' = Request(d)
  BY <1>1 DEF Request, Program
<1>9. CASE ClientSend(c)
  <2>1. /\ cpc[c] = "send" /\ cpc' = [cpc EXCEPT ![c] = "recv"]
        /\ UNCHANGED <<addrs, shown, verdict, undef>>
        /\ net' = net \cup {[kind |-> "request", client |-> c, data |-> Request(c)]}
        /\ csock' = [csock EXCEPT ![c] = "bound"]
        /\ asked' = asked \cup {c}
        /\ UNCHANGED <<sq, cq, server, refused, gone, faults, lost, dups>>
    BY <1>9 DEF ClientSend, ClientAt, ClientGoto, SendRequest
  <2>2. /\ Requests \subseteq Requests'
        /\ \A d \in Clients : Replies(d) \subseteq Replies(d)'
        /\ Replies(sender) \subseteq Replies(sender)'
    BY <1>1, <2>1, MessagesKept DEF serverVars
  <2>3. [kind |-> "request", client |-> c, data |-> Request(c)] \in Requests'
    BY <1>8, <2>1 DEF Requests
  <2>4. QueueInv'
    <3>1. net' \subseteq (Requests \cup Replies(sender))'
      BY <1>1, <2>1, <2>2, <2>3 DEF QueueInv
    <3>2. sq' \in Seq(Requests')
      BY <1>1, <2>1, <2>2, SeqMonotone DEF QueueInv
    <3>3. \A d \in Clients : cq'[d] \in Seq(Replies(d)')
      BY <1>1, <2>1, <2>2, SeqMonotone DEF QueueInv
    <3> QED BY <3>1, <3>2, <3>3 DEF QueueInv
  <2>5. UdpTypeOK'
    <3>1. [kind |-> "request", client |-> c, data |-> Request(c)] \in Datagrams
      BY RequestType DEF Datagrams
    <3>2. NetworkTypeOK'
      BY <1>1, <1>2, <2>1, <3>1 DEF UdpTypeOK, NetworkTypeOK
    <3>3. ClientTypeOK'
      BY <1>1, <1>2, <2>1 DEF UdpTypeOK, ClientTypeOK
    <3> QED
      BY <1>1, <3>2, <3>3 DEF UdpTypeOK, ConfigTypeOK, ServerTypeOK, serverVars
  <2>6. ServerInv'
    BY <1>1, <1>8, <2>1 DEF ServerInv, serverVars
  <2>7. MainInv'
    BY <1>1, <1>2, <2>1, ConfigAssumption, TestBedAssumption DEF MainInv, serverVars
  <2>8. ClientInv'
    BY <1>1, <1>2, <2>1 DEF ClientInv, serverVars
  <2> QED BY <2>4, <2>5, <2>6, <2>7, <2>8 DEF IInv
<1>10. ASSUME cq[c] # <<>>, ClientRecv(c, Head(cq[c])) PROVE IInv'
  <2> DEFINE m == Head(cq[c])
  <2>1. /\ m \in Replies(c) /\ Tail(cq[c]) \in Seq(Replies(c))
        /\ m.data = Request(c) /\ sender = c /\ spc \in {"close", "done"}
        /\ Replies(c) \subseteq Datagrams
    BY <1>1, <1>10, MessageType DEF QueueInv
  <2>2. PICK old \in Buffers :
           shown' = [shown EXCEPT ![c] = CString(Terminate(Overwrite(old, m.data), Len(m.data)))]
    <3>1. EmptyBuffer \in Buffers
      BY DEF EmptyBuffer, Buffers
    <3> QED BY <1>10, <3>1 DEF ClientRecv, OldBuffers
  <2>3. shown' = [shown EXCEPT ![c] = Text]
    BY <2>1, <2>2, PrintedRequest
  <2>4. /\ cpc[c] = "recv" /\ cpc' = [cpc EXCEPT ![c] = Leaving(c)]
        /\ verdict' = [verdict EXCEPT ![c] = "reply"]
        /\ cq' = [cq EXCEPT ![c] = Tail(@)]
        /\ UNCHANGED <<addrs, undef>>
        /\ UNCHANGED <<net, sq, server, csock, refused, asked, gone, faults, lost, dups>>
    BY <1>10 DEF ClientRecv, ClientAt, RecvReply
  <2> HIDE DEF m
  <2>5. /\ Requests \subseteq Requests'
        /\ \A d \in Clients : Replies(d) \subseteq Replies(d)'
        /\ Replies(sender) \subseteq Replies(sender)'
    BY <1>1, <2>4, MessagesKept DEF serverVars
  <2>6. QueueInv'
    <3>1. net' \subseteq (Requests \cup Replies(sender))'
      BY <1>1, <2>4, <2>5 DEF QueueInv
    <3>2. sq' \in Seq(Requests')
      BY <1>1, <2>4, <2>5, SeqMonotone DEF QueueInv
    <3>3. \A d \in Clients : cq'[d] \in Seq(Replies(d))
      BY <1>1, <1>2, <2>1, <2>4 DEF QueueInv
    <3>4. \A d \in Clients : cq'[d] \in Seq(Replies(d)')
      BY <2>5, <3>3, SeqMonotone
    <3> QED BY <3>1, <3>2, <3>4 DEF QueueInv
  <2>7. UdpTypeOK'
    <3>1. cq' \in [Clients -> Seq(Datagrams)]
      <4>1. Tail(cq[c]) \in Seq(Datagrams)
        BY <2>1, SeqMonotone
      <4> QED BY <1>2, <2>4, <4>1
    <3>2. NetworkTypeOK'
      BY <1>1, <2>4, <3>1 DEF UdpTypeOK, NetworkTypeOK
    <3>3. ClientTypeOK'
      BY <1>1, <1>2, <2>3, <2>4, TextAssumption DEF UdpTypeOK, ClientTypeOK
    <3> QED
      BY <1>1, <3>2, <3>3 DEF UdpTypeOK, ConfigTypeOK, ServerTypeOK, serverVars
  <2>8. ServerInv'
    BY <1>1, <1>8, <2>4 DEF ServerInv, serverVars
  <2>9. MainInv'
    BY <1>1, <1>2, <2>4, ConfigAssumption, TestBedAssumption DEF MainInv, serverVars
  <2>10. ClientInv'
    BY <1>1, <1>2, <2>1, <2>3, <2>4 DEF ClientInv, serverVars
  <2> QED BY <2>6, <2>7, <2>8, <2>9, <2>10 DEF IInv
<1>11. CASE ClientRecvFails(c)
  <2>1. /\ cpc[c] = "recv" /\ cpc' = [cpc EXCEPT ![c] = Leaving(c)]
        /\ verdict' = [verdict EXCEPT ![c] = "error"]
        /\ undef' \subseteq Clients
        /\ UNCHANGED <<addrs, shown>>
        /\ faults' \in Nat /\ refused' \subseteq Clients
        /\ UNCHANGED <<net, sq, cq, server, csock, asked, gone, lost, dups>>
    <3>1. RecvReplyFails(c)
      BY <1>11 DEF ClientRecvFails
    <3>2. /\ faults' \in Nat /\ refused' \subseteq Clients
          /\ UNCHANGED <<net, sq, cq, server, csock, asked, gone, lost, dups>>
      BY <1>2, <3>1 DEF RecvReplyFails, CallFails, netVars
    <3>3. undef' \subseteq Clients
      BY <1>2, <1>11 DEF ClientRecvFails
    <3> QED BY <1>11, <3>2, <3>3 DEF ClientRecvFails, ClientAt
  <2>2. QueueInv'
    BY <1>1, <2>1, MessagesKept, QueuesKept DEF serverVars
  <2>3. UdpTypeOK'
    BY <1>1, <1>2, <2>1
    DEF UdpTypeOK, ConfigTypeOK, NetworkTypeOK, ServerTypeOK, ClientTypeOK, serverVars
  <2>4. ServerInv'
    BY <1>1, <1>8, <2>1 DEF ServerInv, serverVars
  <2>5. MainInv'
    BY <1>1, <1>2, <2>1, ConfigAssumption, TestBedAssumption DEF MainInv, serverVars
  <2>6. ClientInv'
    BY <1>1, <1>2, <2>1 DEF ClientInv, serverVars
  <2> QED BY <2>2, <2>3, <2>4, <2>5, <2>6 DEF IInv
<1>12. CASE ClientClose(c)
  <2>1. /\ cpc[c] = "close" /\ cpc' = [cpc EXCEPT ![c] = "done"]
        /\ addrs' \in [Clients -> AddrStates] /\ undef' \subseteq Clients
        /\ UNCHANGED <<shown, verdict>>
        /\ csock' \in [Clients -> SocketStates]
        /\ cq' = [cq EXCEPT ![c] = <<>>]
        /\ UNCHANGED <<net, sq, server, refused, asked, gone, faults, lost, dups>>
    BY <1>2, <1>3, <1>12 DEF ClientClose, ClientAt, CloseClientSocket
  <2>2. /\ Requests \subseteq Requests'
        /\ \A d \in Clients : Replies(d) \subseteq Replies(d)'
        /\ Replies(sender) \subseteq Replies(sender)'
    BY <1>1, <2>1, MessagesKept DEF serverVars
  <2>3. QueueInv'
    <3>1. net' \subseteq (Requests \cup Replies(sender))'
      BY <1>1, <2>1, <2>2 DEF QueueInv
    <3>2. sq' \in Seq(Requests')
      BY <1>1, <2>1, <2>2, SeqMonotone DEF QueueInv
    <3>3. \A d \in Clients : cq'[d] \in Seq(Replies(d))
      BY <1>1, <1>2, <2>1 DEF QueueInv
    <3>4. \A d \in Clients : cq'[d] \in Seq(Replies(d)')
      BY <2>2, <3>3, SeqMonotone
    <3> QED BY <3>1, <3>2, <3>4 DEF QueueInv
  <2>4. UdpTypeOK'
    <3>1. cq' \in [Clients -> Seq(Datagrams)]
      BY <1>2, <2>1
    <3>2. NetworkTypeOK'
      BY <1>1, <2>1, <3>1 DEF UdpTypeOK, NetworkTypeOK
    <3>3. ClientTypeOK'
      BY <1>1, <1>2, <2>1 DEF UdpTypeOK, ClientTypeOK
    <3> QED
      BY <1>1, <3>2, <3>3 DEF UdpTypeOK, ConfigTypeOK, ServerTypeOK, serverVars
  <2>5. ServerInv'
    BY <1>1, <1>8, <2>1 DEF ServerInv, serverVars
  <2>6. MainInv'
    BY <1>1, <1>2, <2>1, ConfigAssumption, TestBedAssumption DEF MainInv, serverVars
  <2>7. ClientInv'
    BY <1>1, <1>2, <2>1 DEF ClientInv, serverVars
  <2> QED BY <2>3, <2>4, <2>5, <2>6, <2>7 DEF IInv
<1> QED
  BY <1>4, <1>5, <1>6, <1>7, <1>9, <1>10, <1>11, <1>12 DEF ClientThread, ClientStep

\* Whatever arrives was on its way; a lost or doubled datagram is no new one.
LEMMA NetworkInductive == ASSUME NEW m \in net PROVE IInv /\ Network(m) => IInv'
<1> SUFFICES ASSUME IInv, Network(m) PROVE IInv'
  OBVIOUS
<1>1. /\ UNCHANGED <<cfg, mpc, serverVars, clientVars>>
      /\ UdpTypeOK /\ QueueInv /\ ServerInv /\ ClientInv /\ MainInv
  BY DEF Network, IInv
<1>2. /\ net' \subseteq net
      /\ UNCHANGED <<server, csock, asked, gone, faults>>
      /\ lost' \in Nat /\ dups' \in Nat
      /\ Arrive(m) \/ UNCHANGED <<sq, cq, refused>>
  BY <1>1 DEF Network, Deliver, Duplicate, Lose, UdpTypeOK, NetworkTypeOK
<1>3. /\ Requests' = Requests
      /\ \A c : Replies(c)' = Replies(c)
      /\ Replies(sender)' = Replies(sender)
  BY <1>1, <1>2 DEF serverVars, Requests, Replies, Request, Program
<1>4. m \in Datagrams /\ m \in Requests \cup Replies(sender)
  BY <1>1 DEF UdpTypeOK, NetworkTypeOK, QueueInv
<1>5. /\ sq' \in Seq(Requests) /\ sq' \in Seq(Datagrams)
      /\ refused' \subseteq Clients
      /\ cq' \in [Clients -> Seq(Datagrams)]
      /\ \A c \in Clients : cq'[c] \in Seq(Replies(c))
  <2>1. /\ sq \in Seq(Requests) /\ sq \in Seq(Datagrams) /\ refused \subseteq Clients
        /\ cq \in [Clients -> Seq(Datagrams)]
        /\ \A c \in Clients : cq[c] \in Seq(Replies(c))
    BY <1>1 DEF UdpTypeOK, NetworkTypeOK, QueueInv
  <2>2. CASE m.kind = "request"
    <3>1. m \in Requests /\ m.client \in Clients
      BY <1>1, <1>4, <2>2, MessageType
    <3>2. sq' \in {sq, Append(sq, m)} /\ cq' = cq /\ refused' \subseteq refused \cup {m.client}
      BY <1>2, <2>2 DEF Arrive
    <3>3. Append(sq, m) \in Seq(Requests) /\ Append(sq, m) \in Seq(Datagrams)
      BY <1>4, <2>1, <3>1
    <3>4. sq' \in Seq(Requests) /\ sq' \in Seq(Datagrams)
      BY <2>1, <3>2, <3>3
    <3>5. refused' \subseteq Clients
      BY <2>1, <3>1, <3>2
    <3> QED BY <2>1, <3>2, <3>4, <3>5
  <2>3. CASE m.kind = "reply"
    <3>1. m \in Replies(sender) /\ m.client = sender /\ sender \in Clients
      BY <1>1, <1>4, <2>3, MessageType
    <3>2. /\ sq' = sq /\ refused' = refused
          /\ cq' \in {cq, [cq EXCEPT ![sender] = Append(@, m)]}
      BY <1>2, <2>3, <3>1 DEF Arrive
    <3>3. /\ Append(cq[sender], m) \in Seq(Datagrams)
          /\ Append(cq[sender], m) \in Seq(Replies(sender))
      BY <1>4, <2>1, <3>1
    <3> QED BY <2>1, <3>1, <3>2, <3>3
  <2> QED BY <1>4, <2>2, <2>3 DEF Datagrams
<1>6. QueueInv'
  BY <1>1, <1>2, <1>3, <1>5 DEF QueueInv
<1>7. UdpTypeOK'
  BY <1>1, <1>2, <1>5
  DEF UdpTypeOK, ConfigTypeOK, NetworkTypeOK, ServerTypeOK, ClientTypeOK, serverVars, clientVars
<1>8. ServerInv' /\ ClientInv' /\ MainInv'
  <2>1. \A d : Request(d)' = Request(d)
    BY <1>1 DEF Request, Program
  <2> QED
    BY <1>1, <1>2, <2>1 DEF ServerInv, ClientInv, MainInv, serverVars, clientVars
<1> QED
  BY <1>6, <1>7, <1>8 DEF IInv

\* The end of a process takes its queues with it and nothing else.
LEMMA EndProcessInductive ==
  ASSUME IInv, NEW c \in Clients, EndProcess(c), faults' \in Nat,
         mpc' \in {mpc, "finished"}, UNCHANGED <<cfg, serverVars, clientVars>>
  PROVE  IInv'
<1>1. UdpTypeOK /\ QueueInv /\ ServerInv /\ ClientInv /\ MainInv
  BY DEF IInv
<1>2. /\ UNCHANGED <<net, refused, asked, lost, dups>>
      /\ gone' = gone \cup {c} /\ csock' = [csock EXCEPT ![c] = "closed"]
      /\ cq' = [cq EXCEPT ![c] = <<>>]
      /\ server' \in {server, "closed"} /\ (sq' = sq \/ sq' = <<>>)
  BY DEF EndProcess
<1>3. /\ Requests' = Requests
      /\ \A d : Replies(d)' = Replies(d)
      /\ Replies(sender)' = Replies(sender)
  BY <1>2 DEF serverVars, Requests, Replies, Request, Program
<1>4. QueueInv'
  <2>1. cq \in [Clients -> Seq(Datagrams)]
    BY <1>1 DEF UdpTypeOK, NetworkTypeOK
  <2>2. \A d \in Clients : cq'[d] \in Seq(Replies(d))
    BY <1>1, <1>2, <2>1 DEF QueueInv
  <2>3. sq' \in Seq(Requests)
    <3>1. sq \in Seq(Requests) /\ <<>> \in Seq(Requests)
      BY <1>1 DEF QueueInv
    <3> QED BY <1>2, <3>1
  <2>4. net' \subseteq Requests \cup Replies(sender)
    BY <1>1, <1>2 DEF QueueInv
  <2> QED BY <1>3, <2>2, <2>3, <2>4 DEF QueueInv
<1>5. UdpTypeOK'
  <2>1. NetworkTypeOK'
    <3>1. NetworkTypeOK
      BY <1>1 DEF UdpTypeOK
    <3>2. /\ sq' \in Seq(Datagrams)
          /\ cq' \in [Clients -> Seq(Datagrams)]
      <4>1. /\ sq \in Seq(Datagrams) /\ <<>> \in Seq(Datagrams)
            /\ cq \in [Clients -> Seq(Datagrams)]
        BY <3>1 DEF NetworkTypeOK
      <4>2. sq' \in Seq(Datagrams)
        BY <1>2, <4>1
      <4> QED BY <1>2, <4>1, <4>2
    <3>3. /\ csock' \in [Clients -> SocketStates] /\ server' \in SocketStates
          /\ gone' \subseteq Clients
      BY <1>2, <3>1 DEF NetworkTypeOK, SocketStates
    <3> QED BY <1>2, <3>1, <3>2, <3>3 DEF NetworkTypeOK
  <2> QED
    BY <1>1, <2>1
    DEF UdpTypeOK, ConfigTypeOK, ServerTypeOK, ClientTypeOK, serverVars, clientVars, MainPcs
<1>6. ServerInv' /\ ClientInv' /\ MainInv'
  <2>1. \A d : Request(d)' = Request(d)
    BY DEF Request, Program
  <2> QED
    BY <1>1, <1>2, <2>1 DEF ServerInv, ClientInv, MainInv, serverVars, clientVars
<1> QED
  BY <1>4, <1>5, <1>6 DEF IInv

LEMMA NextInductive == IInv /\ [Next]_vars => IInv'
<1> SUFFICES ASSUME IInv, [Next]_vars PROVE IInv'
  OBVIOUS
<1>1. UdpTypeOK /\ QueueInv /\ ServerInv /\ ClientInv /\ MainInv
  BY DEF IInv
<1>2. LocalClient \in Clients /\ faults \in Nat /\ faults + 1 \in Nat
  BY <1>1, ConfigAssumption, TestBedAssumption DEF UdpTypeOK, NetworkTypeOK
<1>3. CASE Main
  <2>1. CASE SpawnServer
    <3>1. /\ mpc = "spawnServer" /\ mpc' = "spawnClient" /\ spc = "idle" /\ spc' = "start"
          /\ UNCHANGED <<cfg, sender, nbytes, sbuf, clientVars, netVars>>
      BY <1>1, <1>3, <2>1 DEF Main, SpawnServer, MainAt, Goto, MainInv
    <3>2. sender = NoClient
      BY <1>1, <3>1 DEF ServerInv
    <3>3. QueueInv'
      BY <1>1, <3>1, <3>2, MessagesKept, QueuesKept DEF netVars
    <3>4. UdpTypeOK'
      BY <1>1, <3>1
      DEF UdpTypeOK, ConfigTypeOK, NetworkTypeOK, ServerTypeOK, ClientTypeOK,
          clientVars, netVars, MainPcs, ServerPcs
    <3>5. ServerInv' /\ MainInv'
      BY <1>1, <3>1, <3>2 DEF ServerInv, MainInv, clientVars
    <3>6. ClientInv'
      BY <1>1, <3>1 DEF ClientInv, clientVars
    <3> QED BY <3>3, <3>4, <3>5, <3>6 DEF IInv
  <2>2. CASE SpawnClient
    <3>1. /\ mpc = "spawnClient" /\ mpc' = "join" /\ cpc[LocalClient] = "idle"
          /\ cpc' = [cpc EXCEPT ![LocalClient] = "start"]
          /\ UNCHANGED <<cfg, serverVars, addrs, shown, verdict, undef, netVars>>
      BY <1>1, <1>3, <2>2 DEF Main, SpawnClient, MainAt, ClientGoto, MainInv
    <3>2. QueueInv'
      BY <1>1, <3>1, MessagesKept, QueuesKept DEF netVars, serverVars
    <3>3. UdpTypeOK'
      BY <1>1, <3>1
      DEF UdpTypeOK, ConfigTypeOK, NetworkTypeOK, ServerTypeOK, ClientTypeOK,
          serverVars, netVars, MainPcs, ClientPcs
    <3>4. \A d : Request(d)' = Request(d)
      BY <3>1 DEF Request, Program
    <3>5. ServerInv' /\ MainInv'
      BY <1>1, <3>1, <3>4 DEF ServerInv, MainInv, serverVars, netVars
    <3>6. ClientInv'
      BY <1>1, <1>2, <3>1 DEF ClientInv, serverVars, UdpTypeOK, ClientTypeOK
    <3> QED BY <3>2, <3>3, <3>5, <3>6 DEF IInv
  <2>3. CASE SpawnFails
    BY <1>2, <1>3, <2>3, EndProcessInductive DEF Main, SpawnFails, MainAt
  <2>4. CASE JoinBoth
    BY <1>2, <1>3, <2>4, EndProcessInductive DEF Main, JoinBoth, MainAt
  <2> QED BY <1>3, <2>1, <2>2, <2>3, <2>4 DEF Main
<1>4. CASE ServerThread
  BY <1>4, ServerInductive
<1>5. ASSUME NEW m \in net, Network(m) PROVE IInv'
  BY <1>5, NetworkInductive
<1>6. ASSUME NEW c \in Clients, ClientThread(c) PROVE IInv'
  BY <1>6, ClientInductive
<1>7. ASSUME NEW c \in Clients, StartRemote(c) PROVE IInv'
  <2>1. /\ c # LocalClient /\ cpc[c] = "idle" /\ cpc' = [cpc EXCEPT ![c] = "start"]
        /\ UNCHANGED <<cfg, mpc, serverVars, addrs, shown, verdict, undef, netVars>>
    BY <1>7 DEF StartRemote, ClientGoto
  <2>2. QueueInv'
    BY <1>1, <2>1, MessagesKept, QueuesKept DEF netVars, serverVars
  <2>3. UdpTypeOK'
    BY <1>1, <2>1
    DEF UdpTypeOK, ConfigTypeOK, NetworkTypeOK, ServerTypeOK, ClientTypeOK,
        serverVars, netVars, ClientPcs
  <2>4. \A d : Request(d)' = Request(d)
    BY <2>1 DEF Request, Program
  <2>5. ServerInv'
    BY <1>1, <2>1, <2>4 DEF ServerInv, serverVars, netVars
  <2>6. MainInv' /\ ClientInv'
    BY <1>1, <1>2, <2>1 DEF MainInv, ClientInv, serverVars, UdpTypeOK, ClientTypeOK
  <2> QED BY <2>2, <2>3, <2>5, <2>6 DEF IInv
<1>8. ASSUME NEW c \in Clients, Crash(c) PROVE IInv'
  BY <1>2, <1>8, EndProcessInductive DEF Crash
<1>9. CASE UNCHANGED vars
  <2>1. /\ UNCHANGED <<cfg, mpc, serverVars, clientVars, netVars>>
        /\ \A d : Request(d)' = Request(d)
    BY <1>9 DEF vars, Request, Program
  <2>2. QueueInv'
    BY <1>1, <2>1, MessagesKept, QueuesKept DEF netVars, serverVars
  <2>3. UdpTypeOK'
    BY <1>1, <2>1
    DEF UdpTypeOK, ConfigTypeOK, NetworkTypeOK, ServerTypeOK, ClientTypeOK,
        serverVars, clientVars, netVars
  <2>4. ServerInv' /\ MainInv' /\ ClientInv'
    BY <1>1, <2>1 DEF ServerInv, MainInv, ClientInv, serverVars, clientVars, netVars
  <2> QED BY <2>2, <2>3, <2>4 DEF IInv
<1> QED
  BY <1>3, <1>4, <1>5, <1>6, <1>7, <1>8, <1>9 DEF Next

THEOREM Invariance == Spec => []IInv
<1> QED
  BY InitInv, NextInductive, PTL DEF Spec

\* Every variable keeps its type, whatever fails, is lost or comes twice: the
\* server's buffer and byte count fit any text that leaves room for two bytes.
THEOREM UdpTypeCorrect == Spec => []UdpTypeOK
<1>1. IInv => UdpTypeOK
  BY DEF IInv
<1> QED
  BY <1>1, Invariance, PTL

\* A client prints as received only the text it sent, and only if its own
\* request is the one the server took.
THEOREM OwnEchoCorrect == Spec => []OwnEcho
<1>1. IInv => OwnEcho
  BY DEF IInv, ClientInv, OwnEcho
<1> QED
  BY <1>1, Invariance, PTL

-------------------------------------------------------------------------------
(* The demo implements EchoOnce *)

LEMMA EchoInit == Init => Echo!Init
  BY DEF Init, NetworkInit, ServerInit, ClientInit, Echo!Init

LEMMA EchoStep == IInv /\ [Next]_vars => [Echo!Next]_Echo!echoVars
<1> SUFFICES ASSUME IInv, [Next]_vars PROVE [Echo!Next]_Echo!echoVars
  OBVIOUS
<1> DEFINE answered == sender # NoClient /\ spc # "echo"
<1>1. UdpTypeOK /\ QueueInv /\ ServerInv /\ ClientInv /\ MainInv
  BY DEF IInv
<1>2. UNCHANGED <<asked, sender, shown>> /\ answered' = answered => UNCHANGED Echo!echoVars
  BY DEF Echo!echoVars
<1>3. CASE Main
  <2>1. UNCHANGED <<asked, sender, shown>>
    BY <1>3
    DEF Main, SpawnServer, SpawnClient, SpawnFails, JoinBoth, EndProcess, Goto, ClientGoto,
        netVars, serverVars, clientVars
  <2>2. answered' = answered
    BY <1>1, <1>3
    DEF Main, SpawnServer, SpawnClient, SpawnFails, JoinBoth, MainAt, Goto, serverVars,
        MainInv, ServerInv
  <2> QED BY <1>2, <2>1, <2>2
<1>4. CASE ServerThread
  <2>1. UNCHANGED <<shown>>
    BY <1>4 DEF ServerThread, clientVars
  <2>2. CASE ServerEcho
    <3>1. /\ spc = "echo" /\ sender # NoClient /\ spc' \in {"close", "done"}
          /\ UNCHANGED <<sender, asked>>
      BY <1>1, <2>2
      DEF ServerEcho, At, Leave, Leaving, Goto, SendReply, CallFails, ServerInv
    <3> QED BY <2>1, <3>1 DEF Echo!Next, Echo!Answer
  <2>3. ASSUME sq # <<>>, ServerRecv(Head(sq)) PROVE Echo!Next
    <3>1. Head(sq) \in Requests
      BY <1>1, <2>3 DEF QueueInv
    <3>2. Head(sq).client \in Clients /\ Head(sq).client \in asked
      BY <1>1, <3>1, MessageType
    <3>3. /\ spc = "recv" /\ sender = NoClient /\ spc' = "echo" /\ sender' = Head(sq).client
          /\ asked' = asked
      BY <1>1, <2>3 DEF ServerRecv, At, RecvRequest, ServerInv
    <3>4. Echo!Take(Head(sq).client)
      BY <2>1, <3>2, <3>3 DEF Echo!Take
    <3> QED BY <3>2, <3>4 DEF Echo!Next
  <2>4. CASE \/ ServerApplication \/ ServerResolve \/ ServerSocket \/ ServerBind
             \/ ServerRecvFails \/ ServerClose
    <3>1. UNCHANGED <<asked, sender>>
      BY <2>4
      DEF ServerApplication, ServerResolve, ServerSocket, ServerBind, ServerRecvFails,
          ServerClose, Leave, Goto, CallFails, ServerSocketBecomes, CloseServerSocket, netVars
    <3>2. answered' = answered
      <4>1. \/ sender = NoClient /\ sender' = NoClient
            \/ spc = "close" /\ spc' = "done"
        BY <1>1, <2>4, <3>1
        DEF ServerApplication, ServerResolve, ServerSocket, ServerBind, ServerRecvFails,
            ServerClose, At, Goto, ServerInv
      <4> QED BY <3>1, <4>1
    <3> QED BY <1>2, <2>1, <3>1, <3>2
  <2> QED BY <1>4, <2>2, <2>3, <2>4 DEF ServerThread, ServerStep
<1>5. ASSUME NEW m \in net, Network(m) PROVE [Echo!Next]_Echo!echoVars
  <2>1. UNCHANGED <<asked, sender, shown, spc>>
    BY <1>5 DEF Network, Deliver, Duplicate, Lose, serverVars, clientVars
  <2> QED BY <1>2, <2>1
<1>6. ASSUME NEW c \in Clients, ClientThread(c) PROVE [Echo!Next]_Echo!echoVars
  <2>1. UNCHANGED <<sender, spc>>
    BY <1>6 DEF ClientThread, serverVars
  <2>2. CASE ClientSend(c)
    <3>1. asked' = asked \cup {c} /\ shown' = shown
      BY <2>2 DEF ClientSend, SendRequest, ClientGoto
    <3>2. Echo!Ask(c)
      BY <2>1, <3>1 DEF Echo!Ask
    <3> QED BY <3>2 DEF Echo!Next
  <2>3. ASSUME cq[c] # <<>>, ClientRecv(c, Head(cq[c])) PROVE Echo!Next
    <3>1. Head(cq[c]) \in Replies(c)
      BY <1>1, <2>3 DEF QueueInv
    <3>2. sender = c /\ spc \in {"close", "done"} /\ Head(cq[c]).data = Request(c)
      BY <1>1, <3>1, MessageType
    <3>3. PICK old \in Buffers :
             shown' = [shown EXCEPT ![c] =
                CString(Terminate(Overwrite(old, Head(cq[c]).data), Len(Head(cq[c]).data)))]
      <4>1. EmptyBuffer \in Buffers
        BY DEF EmptyBuffer, Buffers
      <4> QED BY <2>3, <4>1 DEF ClientRecv, OldBuffers
    <3>4. shown' = [shown EXCEPT ![c] = Text]
      BY <3>2, <3>3, PrintedRequest
    <3>5. shown[c] = <<>> /\ asked' = asked
      BY <1>1, <2>3 DEF ClientRecv, ClientAt, ClientInv, RecvReply
    <3>6. sender # NoClient
      BY <3>2, ServerAssumption
    <3>7. Echo!Hear
      BY <2>1, <3>2, <3>4, <3>5, <3>6 DEF Echo!Hear
    <3> QED BY <3>7 DEF Echo!Next
  <2>4. CASE \/ ClientApplication(c) \/ ClientResolve(c) \/ ClientSocket(c)
             \/ ClientSendFails(c) \/ ClientRecvFails(c) \/ ClientClose(c)
    <3>1. UNCHANGED <<asked, shown>>
      BY <2>4
      DEF ClientApplication, ClientResolve, ClientSocket, ClientSendFails, ClientRecvFails,
          ClientClose, ClientGoto, CallFails, ClientSocketBecomes, SendRequestFails,
          RecvReplyFails, CloseClientSocket, netVars
    <3> QED BY <1>2, <2>1, <3>1
  <2> QED BY <1>6, <2>2, <2>3, <2>4 DEF ClientThread, ClientStep
<1>7. ASSUME NEW c \in Clients, StartRemote(c) \/ Crash(c) PROVE [Echo!Next]_Echo!echoVars
  <2>1. UNCHANGED <<asked, sender, shown, spc>>
    BY <1>7 DEF StartRemote, Crash, EndProcess, ClientGoto, netVars, serverVars, clientVars
  <2> QED BY <1>2, <2>1
<1>8. CASE UNCHANGED vars
  BY <1>2, <1>8 DEF vars, netVars, serverVars, clientVars
<1> QED
  BY <1>3, <1>4, <1>5, <1>6, <1>7, <1>8 DEF Next

\* Of all who ask at most one is answered, at most once, and hears its text:
\* however many datagrams are lost, doubled or refused and whatever calls fail.
THEOREM Refinement == Spec => ImplementsEchoOnce
<1> QED
  BY EchoInit, EchoStep, Invariance, PTL DEF Spec, ImplementsEchoOnce, Echo!Spec

-------------------------------------------------------------------------------
(* What is left behind *)

\* The server's socket, place by place.
ServerSocketInv ==
  /\ Program(LocalClient) \in ProgramsUsed
  /\ spc \in {"idle", "start", "resolve", "socket"} => server \in {"none", "closed"}
  /\ spc = "bind" => server \in {"none", "created", "closed"}
  /\ ServerSocketClosed

\* Only a closing destructor finds a list freed, and only after a failure;
\* where no call has failed, a client that sends has a socket, and one that
\* waits for the reply has sent from it.
UndefInv ==
  \A c \in Clients :
     /\ addrs[c] = "freed" => cpc[c] = "done" \/ (cpc[c] = "close" /\ faults > 0)
     /\ cpc[c] \in {"send", "recv"} /\ csock[c] = "none" => faults > 0
     /\ cpc[c] = "recv" /\ csock[c] = "created" => faults > 0

\* Nothing that happens elsewhere changes what a client has to be undefined
\* about, as long as no failure is forgotten.
LEMMA UndefKept ==
  ASSUME UdpTypeOK, UndefInv, UNCHANGED addrs, faults' \in Nat, faults' >= faults,
         \A c \in Clients : /\ csock'[c] \in {csock[c], "closed"}
                            /\ cpc'[c] = cpc[c] \/ (cpc[c] = "idle" /\ cpc'[c] = "start")
  PROVE  UndefInv'
<1>1. faults \in Nat
  BY DEF UdpTypeOK, NetworkTypeOK
<1> QED BY <1>1 DEF UndefInv

LEMMA ServerKeepsSocketInv ==
  ASSUME IInv, ServerSocketInv, ServerThread
  PROVE  ServerSocketInv'
<1>1. Program(LocalClient)' = Program(LocalClient)
  BY DEF ServerThread, Program
<1>2. CASE ServerApplication \/ ServerResolve
  BY <1>1, <1>2
  DEF ServerApplication, ServerResolve, ServerSocketInv, ServerSocketClosed, At, Goto, Leave,
      Leaving, CallFails, netVars
<1>3. CASE ServerSocket
  BY <1>1, <1>3
  DEF ServerSocket, ServerSocketInv, ServerSocketClosed, At, Goto, Leave, Leaving, CallFails,
      ServerSocketBecomes, SocketErrorSeen
<1>4. CASE ServerBind
  <2>1. Program(LocalClient) \in {"classes", "procedural", "c"}
    BY ProgramsAssumption DEF ServerSocketInv
  <2> QED
    BY <1>1, <1>4, <2>1
    DEF ServerBind, ServerSocketInv, ServerSocketClosed, At, Goto, CallFails,
        ServerSocketBecomes, netVars
<1>5. CASE sq # <<>> /\ ServerRecv(Head(sq))
  BY <1>1, <1>5 DEF ServerRecv, ServerSocketInv, ServerSocketClosed, At, RecvRequest
<1>6. CASE ServerRecvFails \/ ServerEcho
  BY <1>1, <1>6
  DEF ServerRecvFails, ServerEcho, SendReply, ServerSocketInv, ServerSocketClosed, At, Goto,
      Leave, Leaving, CallFails
<1>7. CASE ServerClose
  BY <1>1, <1>7
  DEF ServerClose, CloseServerSocket, ServerSocketInv, ServerSocketClosed, Goto
<1> QED BY <1>2, <1>3, <1>4, <1>5, <1>6, <1>7 DEF ServerThread, ServerStep

LEMMA ClientKeepsUndefInv ==
  ASSUME IInv, UndefInv, NEW c \in Clients, ClientThread(c)
  PROVE  UndefInv'
<1>1. /\ cpc \in [Clients -> ClientPcs] /\ addrs \in [Clients -> AddrStates]
      /\ csock \in [Clients -> SocketStates]
      /\ faults \in Nat
  BY DEF IInv, UdpTypeOK, ClientTypeOK, NetworkTypeOK
<1>2. ASSUME faults' \in Nat, faults' >= faults,
             \A d \in Clients \ {c} : /\ cpc'[d] = cpc[d] /\ addrs'[d] = addrs[d]
                                      /\ csock'[d] = csock[d],
             addrs'[c] = "freed" => cpc'[c] = "done" \/ (cpc'[c] = "close" /\ faults' > 0),
             cpc'[c] \in {"send", "recv"} /\ csock'[c] = "none" => faults' > 0,
             cpc'[c] = "recv" /\ csock'[c] = "created" => faults' > 0
      PROVE  UndefInv'
  BY <1>1, <1>2 DEF UndefInv
<1>3. CallFails => faults' \in Nat /\ faults' = faults + 1 /\ faults' > 0 /\ faults' >= faults
                   /\ csock' = csock
  BY <1>1 DEF CallFails
<1> USE DEF ClientPcs, AddrStates, SocketStates
<1>4. CASE ClientApplication(c)
  BY <1>1, <1>2, <1>4
  DEF ClientApplication, ClientAt, ClientGoto, netVars, UndefInv
<1>5. CASE ClientResolve(c)
  <2>1. CASE CallFails /\ ClientGoto(c, Leaving(c))
    BY <1>1, <1>2, <1>3, <1>5, <2>1
    DEF ClientResolve, ClientAt, ClientGoto, Leaving, UndefInv
  <2>2. CASE /\ cpc' = [cpc EXCEPT ![c] = "socket"]
             /\ addrs' = [addrs EXCEPT ![c] = "held"]
             /\ UNCHANGED <<shown, verdict, undef, netVars>>
    BY <1>1, <1>2, <2>2 DEF netVars, UndefInv
  <2> QED BY <1>5, <2>1, <2>2 DEF ClientResolve
<1>6. CASE ClientSocket(c)
  <2>1. cpc[c] = "socket" /\ addrs[c] # "freed"
    BY <1>6 DEF ClientSocket, ClientAt, UndefInv
  <2>2. CASE ClientSocketBecomes(c, "created") /\ ClientGoto(c, "send")
    BY <1>1, <1>2, <2>1, <2>2 DEF ClientSocketBecomes, ClientGoto, UndefInv
  <2>3. CASE /\ CallFails /\ SocketErrorSeen(c)
             /\ cpc' = [cpc EXCEPT ![c] = Leaving(c)]
             /\ FreeAddrs(c)
    BY <1>1, <1>2, <1>3, <2>1, <2>3 DEF FreeAddrs, Leaving, UndefInv
  <2>4. CASE CallFails /\ ~SocketErrorSeen(c) /\ ClientGoto(c, "send")
    BY <1>1, <1>2, <1>3, <2>1, <2>4 DEF ClientGoto, UndefInv
  <2> QED BY <1>6, <2>2, <2>3, <2>4 DEF ClientSocket
<1>7. CASE ClientSend(c)
  <2>1. cpc[c] = "send" /\ addrs[c] # "freed"
    BY <1>7 DEF ClientSend, ClientAt, UndefInv
  <2> QED BY <1>1, <1>2, <1>7, <2>1 DEF ClientSend, SendRequest, ClientGoto, UndefInv
<1>8. CASE ClientSendFails(c)
  <2>1. cpc[c] = "send" /\ addrs[c] # "freed"
    BY <1>8 DEF ClientSendFails, ClientAt, UndefInv
  <2>2. faults' \in Nat /\ faults' >= faults /\ faults' > 0 /\ csock' = csock
    BY <1>1, <1>3, <1>8, <2>1 DEF ClientSendFails, SendRequestFails, netVars, UndefInv
  <2>3. \E pc \in {"recv", "close", "done"} : ClientGoto(c, pc)
    BY <1>8 DEF ClientSendFails, Leaving
  <2> QED BY <1>1, <1>2, <2>1, <2>2, <2>3 DEF ClientGoto, UndefInv
<1>9. CASE cq[c] # <<>> /\ ClientRecv(c, Head(cq[c]))
  <2>1. cpc[c] = "recv" /\ addrs[c] # "freed"
    BY <1>9 DEF ClientRecv, ClientAt, UndefInv
  <2> QED BY <1>1, <1>2, <1>9, <2>1 DEF ClientRecv, RecvReply, Leaving, UndefInv
<1>10. CASE ClientRecvFails(c)
  <2>1. cpc[c] = "recv" /\ addrs[c] # "freed"
    BY <1>10 DEF ClientRecvFails, ClientAt, UndefInv
  <2>2. faults' \in Nat /\ faults' >= faults /\ csock' = csock
    BY <1>1, <1>3, <1>10 DEF ClientRecvFails, RecvReplyFails, netVars
  <2>3. cpc' = [cpc EXCEPT ![c] = Leaving(c)] /\ UNCHANGED addrs
    BY <1>10 DEF ClientRecvFails
  <2> QED BY <1>1, <1>2, <2>1, <2>2, <2>3 DEF Leaving
<1>11. CASE ClientClose(c)
  <2>1. cpc[c] = "close" /\ cpc' = [cpc EXCEPT ![c] = "done"] /\ UNCHANGED faults
    BY <1>11 DEF ClientClose, ClientAt, CloseClientSocket
  <2>2. \A d \in Clients \ {c} : csock'[d] = csock[d]
    BY <1>1, <1>11 DEF ClientClose, CloseClientSocket
  <2>3. CASE Program(c) = "classes" /\ FreeAddrs(c)
    <3>1. addrs[c] = "freed" => faults > 0
      BY <2>1 DEF UndefInv
    <3> QED BY <1>1, <1>2, <2>1, <2>2, <2>3, <3>1 DEF FreeAddrs, UndefInv
  <2>4. CASE UNCHANGED <<addrs, undef>>
    BY <1>1, <1>2, <2>1, <2>2, <2>4 DEF UndefInv
  <2> QED BY <1>11, <2>3, <2>4 DEF ClientClose
<1> QED
  BY <1>4, <1>5, <1>6, <1>7, <1>8, <1>9, <1>10, <1>11 DEF ClientThread, ClientStep

LEMMA LeftBehindInit == Init => ServerSocketInv /\ UndefInv
<1> SUFFICES ASSUME Init PROVE ServerSocketInv /\ UndefInv
  OBVIOUS
<1>1. Program(LocalClient) \in ProgramsUsed
  BY TestBedAssumption DEF Init, StartupCode, Program
<1>2. ServerSocketInv
  BY <1>1 DEF Init, ServerInit, NetworkInit, ServerSocketInv, ServerSocketClosed
<1>3. UndefInv
  BY DEF Init, ClientInit, UndefInv
<1> QED BY <1>2, <1>3

LEMMA LeftBehindStep ==
  IInv /\ ServerSocketInv /\ UndefInv /\ [Next]_vars => ServerSocketInv' /\ UndefInv'
<1> SUFFICES ASSUME IInv, ServerSocketInv, UndefInv, [Next]_vars
             PROVE  ServerSocketInv' /\ UndefInv'
  OBVIOUS
<1>1. /\ UdpTypeOK /\ MainInv /\ faults \in Nat
      /\ cpc \in [Clients -> ClientPcs] /\ csock \in [Clients -> SocketStates]
  BY DEF IInv, UdpTypeOK, NetworkTypeOK, ClientTypeOK
<1>2. ASSUME UNCHANGED <<cfg, addrs, undef>>, faults' \in {faults, faults + 1},
             \A c \in Clients : /\ csock'[c] \in {csock[c], "closed"}
                                /\ cpc'[c] = cpc[c] \/ (cpc[c] = "idle" /\ cpc'[c] = "start")
      PROVE  UndefInv'
  BY <1>1, <1>2, UndefKept
<1>3. ASSUME UNCHANGED cfg, server' \in {server, "closed"},
             spc' = spc \/ (spc = "idle" /\ spc' = "start")
      PROVE  ServerSocketInv'
  <2>1. Program(LocalClient)' = Program(LocalClient)
    BY <1>3 DEF Program
  <2> QED BY <1>3, <2>1 DEF ServerSocketInv, ServerSocketClosed
<1>4. ASSUME NEW c \in Clients, EndProcess(c)
      PROVE  /\ server' \in {server, "closed"}
             /\ \A d \in Clients : csock'[d] \in {csock[d], "closed"}
  BY <1>1, <1>4 DEF EndProcess
<1>5. CASE Main
  <2>1. UNCHANGED <<cfg, addrs, undef>> /\ LocalClient \in Clients
    BY <1>5, TestBedAssumption
    DEF Main, SpawnServer, SpawnClient, SpawnFails, JoinBoth, ClientGoto, clientVars
  <2>2. faults' \in {faults, faults + 1} /\ server' \in {server, "closed"}
        /\ \A d \in Clients : csock'[d] \in {csock[d], "closed"}
    BY <1>4, <1>5, <2>1
    DEF Main, SpawnServer, SpawnClient, SpawnFails, JoinBoth, netVars
  <2>3. spc' = spc \/ (spc = "idle" /\ spc' = "start")
    BY <1>1, <1>5
    DEF Main, SpawnServer, SpawnClient, SpawnFails, JoinBoth, MainAt, Goto, MainInv, serverVars
  <2>4. \A c \in Clients : cpc'[c] = cpc[c] \/ (cpc[c] = "idle" /\ cpc'[c] = "start")
    BY <1>1, <1>5
    DEF Main, SpawnServer, SpawnClient, SpawnFails, JoinBoth, MainAt, ClientGoto, MainInv,
        clientVars
  <2> QED BY <1>2, <1>3, <2>1, <2>2, <2>3, <2>4
<1>6. CASE ServerThread
  <2>1. UNCHANGED <<cfg, addrs, undef, cpc, csock>>
    BY <1>6
    DEF ServerThread, clientVars, ServerStep, ServerApplication, ServerResolve, ServerSocket,
        ServerBind, ServerRecv, ServerRecvFails, ServerEcho, ServerClose, CallFails,
        ServerSocketBecomes, RecvRequest, SendReply, CloseServerSocket, netVars
  <2>2. faults' \in {faults, faults + 1}
    BY <1>6
    DEF ServerThread, ServerStep, ServerApplication, ServerResolve, ServerSocket,
        ServerBind, ServerRecv, ServerRecvFails, ServerEcho, ServerClose, CallFails,
        ServerSocketBecomes, RecvRequest, SendReply, CloseServerSocket, netVars
  <2> QED BY <1>2, <1>6, <2>1, <2>2, ServerKeepsSocketInv
<1>7. ASSUME NEW c \in Clients, ClientThread(c) PROVE ServerSocketInv' /\ UndefInv'
  <2>1. UNCHANGED <<cfg, server, spc>>
    BY <1>7
    DEF ClientThread, serverVars, ClientStep, ClientApplication, ClientResolve, ClientSocket,
        ClientSend, ClientSendFails, ClientRecv, ClientRecvFails, ClientClose, CallFails,
        ClientSocketBecomes, SendRequest, SendRequestFails, RecvReply, RecvReplyFails,
        CloseClientSocket, netVars
  <2> QED BY <1>3, <1>7, <2>1, ClientKeepsUndefInv
<1>8. ASSUME NEW m \in net, Network(m) PROVE ServerSocketInv' /\ UndefInv'
  <2>1. UNCHANGED <<cfg, server, csock, faults, spc, cpc, addrs, undef>>
    BY <1>8 DEF Network, Deliver, Duplicate, Lose, serverVars, clientVars
  <2> QED BY <1>2, <1>3, <2>1
<1>9. ASSUME NEW c \in Clients, StartRemote(c) PROVE ServerSocketInv' /\ UndefInv'
  <2>1. /\ UNCHANGED <<cfg, server, csock, faults, spc, addrs, undef>>
        /\ cpc[c] = "idle" /\ cpc' = [cpc EXCEPT ![c] = "start"]
    BY <1>9 DEF StartRemote, ClientGoto, serverVars, netVars
  <2> QED BY <1>1, <1>2, <1>3, <2>1
<1>10. ASSUME NEW c \in Clients, Crash(c) PROVE ServerSocketInv' /\ UndefInv'
  <2>1. UNCHANGED <<cfg, faults, spc, cpc, addrs, undef>>
    BY <1>10 DEF Crash, serverVars, clientVars
  <2> QED BY <1>2, <1>3, <1>4, <1>10, <2>1 DEF Crash
<1>11. CASE UNCHANGED vars
  BY <1>2, <1>3, <1>11 DEF vars, serverVars, clientVars, netVars
<1> QED BY <1>5, <1>6, <1>7, <1>8, <1>9, <1>10, <1>11 DEF Next

LEMMA LeftBehind == Spec => [](ServerSocketInv /\ UndefInv)
<1>1. Init => IInv /\ ServerSocketInv /\ UndefInv
  BY InitInv, LeftBehindInit
<1>2. (IInv /\ ServerSocketInv /\ UndefInv) /\ [Next]_vars
         => (IInv /\ ServerSocketInv /\ UndefInv)'
  BY NextInductive, LeftBehindStep
<1> QED BY <1>1, <1>2, PTL DEF Spec

\* Whatever fails and however often, a server that is done has let go of its
\* socket, the one the C function could not bind excepted.
THEOREM ServerSocketClosedHolds == Spec => []ServerSocketClosed
<1>1. ServerSocketInv => ServerSocketClosed
  BY DEF ServerSocketInv
<1> QED BY <1>1, LeftBehind, PTL

\* A step after which a client has done something undefined is one of its own:
\* its recv has failed, or its destructor has found the list freed.
LEMMA ComesToUndefined ==
  ASSUME IInv, UndefInv, Next, NEW c \in undef' \ undef
  PROVE  /\ Program(c) = "classes"
         /\ faults' > 0 \/ (cfg[c].build = "windows" /\ c \in refused \ refused')
<1>1. /\ cpc \in [Clients -> ClientPcs] /\ addrs \in [Clients -> AddrStates]
      /\ csock \in [Clients -> SocketStates] /\ undef \subseteq Clients
      /\ faults \in Nat
  BY DEF IInv, UdpTypeOK, ClientTypeOK, NetworkTypeOK
<1>2. CallFails => faults' > 0
  BY <1>1 DEF CallFails
<1>3. PICK d \in Clients : ClientThread(d)
  BY DEF Next, Main, SpawnServer, SpawnClient, SpawnFails, JoinBoth, ClientGoto, clientVars,
         ServerThread, Network, StartRemote, Crash
<1>4. CASE ClientSocket(d)
  <2>1. CASE FreeAddrs(d)
    <3>1. addrs[d] # "freed"
      BY <1>1, <1>4 DEF ClientSocket, ClientAt, UndefInv
    <3> QED BY <2>1, <3>1 DEF FreeAddrs
  <2>2. CASE UNCHANGED undef
    BY <2>2
  <2> QED BY <1>4, <2>1, <2>2 DEF ClientSocket, ClientGoto
<1>5. CASE ClientRecvFails(d)
  <2>1. c = d /\ Program(c) = "classes" /\ cpc[c] = "recv" /\ RecvReplyFails(c)
    BY <1>5 DEF ClientRecvFails, ClientAt
  <2>2. csock[c] \in {"none", "created"} /\ UNCHANGED netVars => faults' > 0
    BY <1>3, <2>1 DEF UndefInv, netVars
  <2> QED BY <1>2, <1>3, <2>1, <2>2 DEF RecvReplyFails
<1>6. CASE ClientClose(d)
  <2>1. c = d /\ Program(c) = "classes" /\ addrs[c] = "freed"
    BY <1>6 DEF ClientClose, FreeAddrs
  <2>2. cpc[c] = "close" /\ UNCHANGED faults
    BY <1>6, <2>1 DEF ClientClose, ClientAt, CloseClientSocket
  <2> QED BY <1>3, <2>1, <2>2 DEF UndefInv
<1>7. CASE UNCHANGED undef
  BY <1>7
<1> QED
  BY <1>3, <1>4, <1>5, <1>6, <1>7
  DEF ClientThread, ClientStep, ClientApplication, ClientResolve, ClientSend, ClientSendFails,
      ClientRecv, ClientGoto

\* Only clients of the class ever write before a buffer or free a list twice:
\* after a failed call of some program, or as Windows reports to one that its
\* request found no server.
THEOREM UndefinedNeedsError == Spec => UndefinedOnlyAfterError
<1>1. IInv /\ UndefInv /\ [Next]_vars
        => [\A c \in undef' \ undef :
               /\ Program(c) = "classes"
               /\ faults' > 0 \/ (cfg[c].build = "windows" /\ c \in refused \ refused')]_vars
  BY ComesToUndefined
<1> QED BY <1>1, LeftBehind, Invariance, PTL DEF Spec, UndefinedOnlyAfterError
===============================================================================
