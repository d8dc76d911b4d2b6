----------------------------- MODULE TcpDemoProofs -----------------------------
(* Theorems about the whole TCP demo, for any set of clients, any texts,    *)
(* any size of the buffers and any number of failing calls: first what each *)
(* thread keeps by itself, then the types, the replies and the output of    *)
(* all of them, and last the exchange as ServerContract promises it.        *)
EXTENDS TcpDemo, TcpKernelProofs, ReceptionBufferProofs

-------------------------------------------------------------------------------
(* What the server thread keeps by itself, whatever the others do between   *)
(* two of its steps.  The client threads follow.                            *)

Opening == {"idle", "start", "resolve", "socket", "bind", "listen", "accept"}
Holding == {"echo", "reply", "receive"}

\* clientSocket is valid where a call on it has succeeded (an accept that
\* fails unnoticed leaves it invalid in the other places); the bytes to
\* be echoed are payload, never the terminator or what was in the buffer.
ServerInv ==
  /\ ServerTypeOK
  /\ spc \in Opening => conn = NoClient
  /\ spc \in Holding => conn \in Clients
  /\ spc = "echo" => \A i \in 1..retval : buffer[i] \in Byte

-------------------------------------------------------------------------------
LEMMA ServerInitInv == ServerInit => ServerInv
<1> SUFFICES ASSUME ServerInit PROVE ServerInv
  OBVIOUS
<1>1. retval \in 0..BufSize - 1
  BY BufferAssumption DEF ServerInit
<1>2. buffer \in Buffers
  BY DEF ServerInit, Buffers, EmptyBuffer
<1>3. ServerTypeOK
  BY <1>1, <1>2 DEF ServerInit, ServerTypeOK, ServerPcs
<1> QED
  BY <1>3 DEF ServerInit, ServerInv, Opening, Holding

LEMMA ServerUnchangedInv == ServerInv /\ UNCHANGED serverVars => ServerInv'
BY DEF serverVars, ServerInv, ServerTypeOK

\* Going on without touching the buffer: to a place that needs no client, or
\* from one where there is a client.
LEMMA GotoInv ==
  ASSUME ServerInv, NEW pc \in ServerPcs \ {"echo"}, Goto(pc),
         pc \in Opening => conn = NoClient,
         pc \in Holding => conn \in Clients
  PROVE  ServerInv'
BY DEF Goto, ServerInv, ServerTypeOK

LEMMA ReturnErrorInv == ServerInv /\ ReturnError => ServerInv'
BY DEF ReturnError, ServerInv, ServerTypeOK, ServerPcs, Opening, Holding

\* A recv into the buffer.
LEMMA RecvBuffer ==
  ASSUME KernelInv, ServerInv, conn \in Clients, NEW n \in RecvSizes,
         RecvData(Srv(conn), n)
  PROVE  LET chunk == Chunk(Srv(conn), n) IN
         /\ KernelInv' /\ StreamsGrow
         /\ n \in 0..BufSize - 1
         /\ Overwrite(buffer, chunk) \in Buffers
         /\ Terminate(Overwrite(buffer, chunk), n) \in Buffers
         /\ \A i \in 1..n : /\ Terminate(Overwrite(buffer, chunk), n)[i] \in Byte
                            /\ Terminate(Overwrite(buffer, chunk), n)[i] =
                                 sent[Cli(conn)][read[Srv(conn)] + i]
<1>1. Srv(conn) \in Endpoints /\ Peer(Srv(conn)) = Cli(conn) /\ n \in Nat
  BY EndpointFacts, BufferAssumption DEF RecvSizes
<1>2. /\ KernelInv' /\ StreamsGrow
      /\ Chunk(Srv(conn), n) \in [1..n -> Byte]
      /\ \A i \in 1..n : Chunk(Srv(conn), n)[i] = sent[Cli(conn)][read[Srv(conn)] + i]
  BY <1>1, RecvDataInv
<1>3. buffer \in Buffers
  BY DEF ServerInv, ServerTypeOK
<1>4. n \in 0..BufSize - 1
  BY BufferAssumption DEF RecvSizes
<1> QED
  BY <1>2, <1>3, <1>4, BufferType

-------------------------------------------------------------------------------
(* One lemma per group of actions. *)

LEMMA OpeningInv ==
  ASSUME KernelInv, ServerInv,
         ServerApplication \/ Setup \/ AcceptFails \/ (\E c \in Clients : Accept(c))
  PROVE  KernelInv' /\ StreamsGrow /\ ServerInv'
<1> USE DEF At, Opening, Holding, ServerPcs
<1>1. CASE ServerApplication
  <2>1. conn = NoClient
    BY <1>1 DEF ServerApplication, ServerInv
  <2>2. ServerInv'
    BY <1>1, <2>1, GotoInv DEF ServerApplication
  <2> QED BY <1>1, <2>2, UnchangedInv DEF ServerApplication
<1>2. ASSUME NEW pc, NEW next \in {"socket", "bind", "listen", "accept"},
             NEW state \in ListenerStates, SetupStep(pc, next, state), pc \in Opening
      PROVE  KernelInv' /\ StreamsGrow /\ ServerInv'
  <2>1. conn = NoClient
    BY <1>2 DEF SetupStep, ServerInv
  <2>2. CASE ListenerBecomes(state) /\ Goto(next)
    BY <2>1, <2>2, GotoInv, ListenerBecomesInv
  <2>3. CASE CallFails /\ ReturnError
    BY <2>3, CallFailsInv, ReturnErrorInv
  <2> QED BY <1>2, <2>2, <2>3 DEF SetupStep
<1>3. CASE Setup
  <2>1. listener \in ListenerStates /\ {"created", "bound", "listening"} \subseteq ListenerStates
    BY DEF KernelInv, KernelTypeOK, ListenerStates
  <2>2. CASE SetupStep("resolve", "socket", listener)
    BY <1>2, <2>1, <2>2
  <2>3. CASE SetupStep("socket", "bind", "created")
    BY <1>2, <2>1, <2>3
  <2>4. CASE SetupStep("bind", "listen", "bound")
    BY <1>2, <2>1, <2>4
  <2>5. CASE SetupStep("listen", "accept", "listening")
    BY <1>2, <2>1, <2>5
  <2> QED BY <1>3, <2>2, <2>3, <2>4, <2>5 DEF Setup
<1>4. CASE AcceptFails
  BY <1>4, CallFailsInv, ReturnErrorInv, GotoInv DEF AcceptFails
<1>5. CASE \E c \in Clients : Accept(c)
  <2>1. PICK c \in Clients : Accept(c)
    BY <1>5
  <2>2. ServerInv'
    BY <2>1 DEF Accept, ServerInv, ServerTypeOK
  <2> QED BY <2>1, <2>2, AcceptInv DEF Accept
<1> QED BY <1>1, <1>3, <1>4, <1>5

LEMMA ReceivingInv ==
  ASSUME KernelInv, ServerInv, NEW n \in RecvSizes,
         Mode1Recv(n) \/ Mode2Recv(n) \/ Mode3Receive(n) \/ Mode5Receive(n)
  PROVE  KernelInv' /\ StreamsGrow /\ ServerInv'
<1>1. spc \in {"recv", "receive"} /\ RecvData(Srv(conn), n)
  BY DEF Mode1Recv, Mode2Recv, Mode3Receive, Mode5Receive, At
<1>2. conn \in Clients
  BY <1>1, ValidServer DEF RecvData
<1>3. /\ KernelInv' /\ StreamsGrow
      /\ n \in 0..BufSize - 1
      /\ Overwrite(buffer, Chunk(Srv(conn), n)) \in Buffers
      /\ Terminate(Overwrite(buffer, Chunk(Srv(conn), n)), n) \in Buffers
      /\ \A i \in 1..n : Terminate(Overwrite(buffer, Chunk(Srv(conn), n)), n)[i] \in Byte
  BY <1>1, <1>2, RecvBuffer
<1>4. /\ spc' \in {"recv", "echo", "shutdown", "select"}
      /\ retval' = n
      /\ UNCHANGED <<conn, rfds, sret>>
      /\ buffer' \in Buffers
      /\ spc' = "echo" => buffer' = Terminate(Overwrite(buffer, Chunk(Srv(conn), n)), n)
  BY <1>1, <1>3 DEF Mode1Recv, Mode2Recv, Mode3Receive, Mode5Receive, At
<1>5. ServerTypeOK'
  BY <1>3, <1>4 DEF ServerInv, ServerTypeOK, ServerPcs
<1>6. ServerInv'
  BY <1>2, <1>3, <1>4, <1>5 DEF ServerInv, Opening, Holding
<1> QED BY <1>3, <1>6

LEMMA ServingInv ==
  ASSUME KernelInv, ServerInv,
         \/ CloseListen \/ Mode1Eof \/ RecvError \/ Mode2Eof \/ Mode3Ends
         \/ SelectReady \/ SelectTimeout \/ SelectFails \/ Mode5Eof \/ Mode5Error
  PROVE  KernelInv' /\ StreamsGrow /\ ServerInv'
<1>1. /\ spc \in {"closeListen", "recv", "select", "receive"}
      /\ RecvEof(Srv(conn)) \/ Readable(Srv(conn)) => conn \in Clients
  BY ValidServer
     DEF CloseListen, Mode1Eof, RecvError, Mode2Eof, Mode3Ends, SelectReady, SelectTimeout,
         SelectFails, Mode5Eof, Mode5Error, At, RecvEof, Readable
<1>2. CASE CloseListen
  <2>1. ModeOperation \in {"shutdown", "select", "recv"}
    BY DEF ModeOperation
  <2>2. ServerInv'
    BY <1>1, <1>2, <2>1 DEF CloseListen, ServerInv, ServerTypeOK, ServerPcs, Opening, Holding
  <2> QED BY <1>2, <2>2, CloseListenerInv DEF CloseListen
<1>3. ASSUME NEW pc \in {"recv", "reply", "select", "receive", "shutdown"}, Goto(pc),
             pc \in {"reply", "receive"} => conn \in Clients
      PROVE  ServerInv'
  BY <1>3, GotoInv DEF ServerPcs, Opening, Holding
<1>4. CASE Mode1Eof \/ Mode2Eof \/ Mode5Eof
  BY <1>1, <1>3, <1>4, RecvEofInv DEF Mode1Eof, Mode2Eof, Mode5Eof
<1>5. CASE RecvError
  BY <1>5, RecvFailsInv, ReturnErrorInv DEF RecvError
<1>6. CASE Mode3Ends \/ Mode5Error
  BY <1>3, <1>6, RecvEofInv, RecvFailsInv DEF Mode3Ends, Mode5Error
<1>7. CASE SelectReady
  BY <1>1, <1>3, <1>7, UnchangedInv DEF SelectReady
<1>8. CASE SelectTimeout
  <2>1. ServerInv'
    BY <1>8 DEF SelectTimeout, At, ServerInv, ServerTypeOK
  <2> QED BY <1>8, <2>1, UnchangedInv DEF SelectTimeout
<1>9. CASE SelectFails
  BY <1>9, CallFailsInv, UnchangedInv, ServerUnchangedInv DEF SelectFails, InvalidCall
<1> QED
  BY <1>2, <1>4, <1>5, <1>6, <1>7, <1>8, <1>9

LEMMA SendingInv ==
  ASSUME KernelInv, ServerInv, Mode1Echo \/ Mode2Reply \/ ServerSigPipe
  PROVE  KernelInv' /\ StreamsGrow /\ ServerInv'
<1>1. spc \in {"echo", "reply"} /\ conn \in Clients /\ Srv(conn) \in Endpoints
  BY EndpointFacts DEF Mode1Echo, Mode2Reply, ServerSigPipe, At, ServerInv, Holding
<1>2. ASSUME NEW pc \in {"recv", "shutdown"}, NEW bytes \in Seq(Byte),
             \/ SendOk(Srv(conn), bytes) /\ Goto(pc)
             \/ SendFails(Srv(conn), SigPipe) /\ ReturnError
      PROVE  KernelInv' /\ StreamsGrow /\ ServerInv'
  <2>1. CASE SendOk(Srv(conn), bytes) /\ Goto(pc)
    <3>1. ServerInv'
      BY <1>1, <2>1, GotoInv DEF ServerPcs, Opening
    <3> QED BY <1>1, <2>1, <3>1, SendOkInv
  <2>2. CASE SendFails(Srv(conn), SigPipe) /\ ReturnError
    BY <1>1, <2>2, SendFailsInv, ReturnErrorInv
  <2> QED BY <1>2, <2>1, <2>2
<1>3. CASE Mode1Echo
  <2>1. retval \in Nat /\ \A i \in 1..retval : buffer[i] \in Byte
    BY <1>3, BufferAssumption DEF Mode1Echo, At, ServerInv, ServerTypeOK
  <2>2. EchoBytes \in Seq(Byte)
    BY <2>1 DEF EchoBytes
  <2> QED BY <1>2, <1>3, <2>2 DEF Mode1Echo
<1>4. CASE Mode2Reply
  BY <1>2, <1>4, ServerAssumption DEF Mode2Reply
<1>5. CASE ServerSigPipe
  BY <1>1, <1>5, SendKillsInv, ServerUnchangedInv, ConfigAssumption, TestBedAssumption DEF ServerSigPipe
<1> QED BY <1>3, <1>4, <1>5

LEMMA ClosingInv ==
  ASSUME KernelInv, ServerInv, ServerShutdown \/ DtorListen \/ DtorClient
  PROVE  KernelInv' /\ StreamsGrow /\ ServerInv'
<1>1. ASSUME NEW pc \in {"dtorListen", "dtorClient", "done"}, Goto(pc) PROVE ServerInv'
  BY <1>1, GotoInv DEF ServerPcs, Opening, Holding
<1>2. CASE ServerShutdown
  BY <1>1, <1>2, ShutdownOkInv, ShutdownFailsInv, ReturnErrorInv DEF ServerShutdown
<1>3. CASE DtorListen
  BY <1>1, <1>3, CloseListenerInv DEF DtorListen
<1>4. CASE DtorClient
  BY <1>1, <1>4, CloseInv DEF DtorClient
<1> QED BY <1>2, <1>3, <1>4

\* Every step of the server thread keeps its invariant and the kernel's.
THEOREM ServerStepInv ==
  ASSUME KernelInv, ServerInv, ServerStep
  PROVE  KernelInv' /\ StreamsGrow /\ ServerInv'
BY OpeningInv, ReceivingInv, ServingInv, SendingInv, ClosingInv DEF ServerStep

-------------------------------------------------------------------------------
Fresh == {"idle", "start", "resolve", "connect"}

\* A client about to send has a text left to send.
PacketOK(c) == /\ cpc[c] = "send" => packet[c] <= Len(Outgoing(c))
               /\ cpc[c] \in Fresh => packet[c] = 1

ClientInv == ClientTypeOK /\ \A c \in Clients : PacketOK(c)

-------------------------------------------------------------------------------
LEMMA OutgoingType ==
  ASSUME NEW c \in Clients
  PROVE  /\ Outgoing(c) \in Seq(Seq(Byte))
         /\ Len(Outgoing(c)) \in 1..Len(Packets)
BY ClientAssumption DEF Outgoing

LEMMA ClientInitInv == ClientInit => ClientInv
<1> SUFFICES ASSUME ClientInit PROVE ClientInv
  OBVIOUS
<1>1. 1 \in 1..NumAddrs /\ 1 \in 1..Len(Packets) + 1
  BY ClientAssumption
<1>2. EmptyBuffer \in Buffers
  BY DEF Buffers, EmptyBuffer
<1> QED
  BY <1>1, <1>2 DEF ClientInit, ClientInv, ClientTypeOK, ClientPcs, Verdicts, PacketOK

LEMMA ClientUnchangedInv ==
  ClientInv /\ UNCHANGED <<cfg, clientVars>> => ClientInv'
BY DEF clientVars, ClientInv, ClientTypeOK, PacketOK, Outgoing, Mode

\* Going on, to a send only from the start of the list of texts.
LEMMA ClientGotoInv ==
  ASSUME ClientInv, UNCHANGED cfg, NEW c \in Clients, NEW pc \in ClientPcs,
         ClientGoto(c, pc), pc = "send" => packet[c] <= Len(Outgoing(c)),
         pc \in Fresh => packet[c] = 1
  PROVE  ClientInv'
<1>1. ClientTypeOK'
  BY DEF ClientGoto, ClientInv, ClientTypeOK
<1>2. \A d \in Clients : PacketOK(d)'
  BY DEF PacketOK, Fresh, ClientGoto, ClientInv, ClientTypeOK, Outgoing, Mode
<1> QED BY <1>1, <1>2 DEF ClientInv

LEMMA ClientReturnInv ==
  ASSUME ClientInv, UNCHANGED cfg, NEW c \in Clients, NEW code \in {-1, 0, 1},
         NEW v \in Verdicts, ClientReturn(c, code, v)
  PROVE  ClientInv'
<1>1. ClientTypeOK'
  BY DEF ClientReturn, ClientInv, ClientTypeOK, ClientPcs
<1>2. \A d \in Clients : PacketOK(d)'
  BY DEF PacketOK, Fresh, ClientReturn, ClientInv, ClientTypeOK, Outgoing, Mode
<1> QED BY <1>1, <1>2 DEF ClientInv

-------------------------------------------------------------------------------
LEMMA ConnectingInv ==
  ASSUME KernelInv, ClientInv, UNCHANGED cfg, NEW c \in Clients,
         ClientApplication(c) \/ SetupResolve(c) \/ SetupSocketFails(c)
           \/ SetupConnect(c) \/ SetupRefused(c)
  PROVE  KernelInv' /\ StreamsGrow /\ ClientInv'
<1>1. CASE ClientApplication(c)
  <2>1. ClientInv'
    BY <1>1, ClientGotoInv DEF ClientApplication, ClientAt, ClientPcs, ClientInv, PacketOK, Fresh
  <2> QED BY <1>1, <2>1, UnchangedInv DEF ClientApplication
<1>2. ASSUME ClientReturn(c, 1, "unable") PROVE ClientInv'
  BY <1>2, ClientReturnInv DEF Verdicts
<1>3. ASSUME cpc[c] \in Fresh, ClientGoto(c, FirstStep(c)) PROVE ClientInv'
  <2>1. packet[c] <= Len(Outgoing(c))
    BY <1>3, OutgoingType DEF ClientInv, PacketOK
  <2>2. FirstStep(c) \in ClientPcs \ Fresh
    BY DEF FirstStep, ClientPcs, Fresh
  <2> QED BY <1>3, <2>1, <2>2, ClientGotoInv
<1>4. ASSUME cpc[c] \in Fresh, NotConnected(c) PROVE ClientInv'
  BY <1>2, <1>3, <1>4 DEF NotConnected
<1>5. CASE SetupResolve(c)
  <2>1. ClientInv'
    BY <1>4, <1>5, ClientGotoInv
       DEF SetupResolve, ClientAt, ClientPcs, ClientInv, PacketOK, Fresh
  <2> QED BY <1>5, <2>1, UnchangedInv, CallFailsInv DEF SetupResolve
<1>6. CASE SetupSocketFails(c)
  BY <1>2, <1>6, CallFailsInv DEF SetupSocketFails
<1>7. CASE SetupConnect(c)
  BY <1>3, <1>7, ConnectInv DEF SetupConnect, ClientAt, Fresh
<1>8. CASE SetupRefused(c)
  <2>1. KernelInv' /\ StreamsGrow
    BY <1>8, UnchangedInv, CallFailsInv DEF SetupRefused
  <2>2. CASE /\ attempt[c] < NumAddrs
             /\ attempt' = [attempt EXCEPT ![c] = @ + 1]
             /\ UNCHANGED <<cpc, packet, cbuf, shown, verdict, cret>>
    <3>1. attempt' \in [Clients -> 1..NumAddrs]
      BY <2>2, ClientAssumption DEF ClientInv, ClientTypeOK
    <3> QED BY <2>1, <2>2, <3>1 DEF ClientInv, ClientTypeOK, PacketOK, Outgoing, Mode
  <2> QED BY <1>4, <1>8, <2>1, <2>2 DEF SetupRefused, ClientAt, Fresh
<1> QED BY <1>1, <1>5, <1>6, <1>7, <1>8

LEMMA SendingClientInv ==
  ASSUME KernelInv, ClientInv, UNCHANGED cfg, NEW c \in Clients,
         ClientSend(c) \/ ClientSendFails(c) \/ ClientSigPipe(c) \/ ClientShutdown(c)
  PROVE  KernelInv' /\ StreamsGrow /\ ClientInv'
<1>0. Cli(c) \in Endpoints
  BY EndpointFacts
<1>1. ASSUME NEW pc \in {"shutdown", "recv", "dtor", "close", "done"}, ClientGoto(c, pc)
      PROVE  ClientInv'
  BY <1>1, ClientGotoInv DEF ClientPcs, Fresh
<1>2. ASSUME NEW code \in {-1, 0, 1}, ClientReturn(c, code, "none") PROVE ClientInv'
  BY <1>2, ClientReturnInv DEF Verdicts
<1>3. CASE ClientSend(c)
  <2>1. /\ packet[c] \in 1..Len(Packets) + 1
        /\ packet[c] <= Len(Outgoing(c))
        /\ Outgoing(c) \in Seq(Seq(Byte)) /\ Len(Outgoing(c)) \in 1..Len(Packets)
        /\ Packets \in Seq(Seq(Byte))
    BY <1>3, OutgoingType, ClientAssumption
       DEF ClientSend, ClientAt, ClientInv, ClientTypeOK, PacketOK
  <2>2. Outgoing(c)[packet[c]] \in Seq(Byte) /\ packet[c] + 1 \in 1..Len(Packets) + 1
    BY <2>1
  <2>3. KernelInv' /\ StreamsGrow
    BY <1>0, <1>3, <2>2, SendOkInv DEF ClientSend
  <2>4. /\ packet' = [packet EXCEPT ![c] = packet[c] + 1]
        /\ cpc' = [cpc EXCEPT ![c] = IF packet[c] = Len(Outgoing(c)) THEN "shutdown" ELSE "send"]
        /\ UNCHANGED <<attempt, cbuf, shown, verdict, cret>>
    BY <1>3 DEF ClientSend
  <2>5. ClientTypeOK'
    BY <2>2, <2>4 DEF ClientInv, ClientTypeOK, ClientPcs
  <2>6. \A d \in Clients : PacketOK(d)'
    <3> SUFFICES ASSUME NEW d \in Clients PROVE PacketOK(d)'
      OBVIOUS
    <3>1. CASE d # c
      BY <2>4, <3>1 DEF ClientInv, ClientTypeOK, PacketOK, Outgoing, Mode
    <3>2. CASE d = c
      <4>1. packet'[c] = packet[c] + 1
        BY <2>4 DEF ClientInv, ClientTypeOK
      <4>2. cpc'[c] = IF packet[c] = Len(Outgoing(c)) THEN "shutdown" ELSE "send"
        BY <2>4 DEF ClientInv, ClientTypeOK
      <4>3. Outgoing(c)' = Outgoing(c)
        BY DEF Outgoing, Mode
      <4> QED BY <2>1, <3>2, <4>1, <4>2, <4>3 DEF PacketOK, Fresh
    <3> QED BY <3>1, <3>2
  <2> QED BY <2>3, <2>5, <2>6 DEF ClientInv
<1>4. CASE ClientSendFails(c)
  BY <1>0, <1>1, <1>2, <1>4, SendFailsInv DEF ClientSendFails
<1>5. CASE ClientSigPipe(c)
  BY <1>0, <1>5, SendKillsInv, ClientUnchangedInv DEF ClientSigPipe
<1>6. CASE ClientShutdown(c)
  BY <1>0, <1>1, <1>2, <1>6, ShutdownOkInv, ShutdownFailsInv DEF ClientShutdown
<1> QED BY <1>3, <1>4, <1>5, <1>6

\* A received text ends up in the log unchanged.
LEMMA RecvShown ==
  ASSUME KernelInv, ClientInv, NEW c \in Clients, NEW n \in RecvSizes, ClientRecv(c, n)
  PROVE  /\ Chunk(Cli(c), n) \in Seq(Byte) /\ Len(Chunk(Cli(c), n)) = n
         /\ cbuf' = [cbuf EXCEPT ![c] = Terminate(Overwrite(cbuf[c], Chunk(Cli(c), n)), n)]
         /\ cbuf' \in [Clients -> Buffers]
         /\ shown' = [shown EXCEPT ![c] = shown[c] \o Chunk(Cli(c), n)]
<1> DEFINE chunk == Chunk(Cli(c), n)
<1>1. cbuf[c] \in Buffers /\ n \in Nat /\ Cli(c) \in Endpoints
  BY EndpointFacts, BufferAssumption DEF ClientInv, ClientTypeOK, RecvSizes
<1>2. chunk \in [1..n -> Byte]
  BY <1>1, RecvDataInv DEF ClientRecv
<1>3. /\ chunk \in Seq(Byte) /\ Len(chunk) = n
      /\ Terminate(Overwrite(cbuf[c], chunk), n) \in Buffers
      /\ CString(Terminate(Overwrite(cbuf[c], chunk), n)) = chunk
  <2> HIDE DEF chunk
  <2> QED BY <1>1, <1>2, BufferType, PrintedText
<1>4. cbuf' = [cbuf EXCEPT ![c] = Terminate(Overwrite(cbuf[c], chunk), n)]
  BY DEF ClientRecv
<1>5. cbuf'[c] = Terminate(Overwrite(cbuf[c], chunk), n) /\ cbuf' \in [Clients -> Buffers]
  BY <1>3, <1>4 DEF ClientInv, ClientTypeOK
<1>6. shown' = [shown EXCEPT ![c] = shown[c] \o CString(cbuf'[c])]
  BY DEF ClientRecv
<1> QED BY <1>3, <1>4, <1>5, <1>6

LEMMA ReadingClientInv ==
  ASSUME KernelInv, ClientInv, UNCHANGED cfg, NEW c \in Clients,
         (\E n \in RecvSizes : ClientRecv(c, n)) \/ ClientRecvEnds(c)
           \/ ClientClose(c) \/ ClientDtor(c)
  PROVE  KernelInv' /\ StreamsGrow /\ ClientInv'
<1>0. Cli(c) \in Endpoints
  BY EndpointFacts
<1>1. ASSUME NEW pc \in {"close", "dtor", "done"}, ClientGoto(c, pc) PROVE ClientInv'
  BY <1>1, ClientGotoInv DEF ClientPcs, Fresh
<1>2. CASE \E n \in RecvSizes : ClientRecv(c, n)
  <2>1. PICK n \in RecvSizes : ClientRecv(c, n)
    BY <1>2
  <2>2. n \in Nat
    BY BufferAssumption DEF RecvSizes
  <2>3. KernelInv' /\ StreamsGrow
    BY <1>0, <2>1, <2>2, RecvDataInv DEF ClientRecv
  <2>4. /\ cbuf' \in [Clients -> Buffers]
        /\ Chunk(Cli(c), n) \in Seq(Byte)
        /\ shown' = [shown EXCEPT ![c] = shown[c] \o Chunk(Cli(c), n)]
    BY <2>1, RecvShown
  <2>5. shown' \in [Clients -> Seq(Byte)]
    <3> DEFINE chunk == Chunk(Cli(c), n)
    <3>1. shown[c] \o chunk \in Seq(Byte)
      <4> HIDE DEF chunk
      <4>1. chunk \in Seq(Byte) /\ shown[c] \in Seq(Byte)
        BY <2>4 DEF chunk, ClientInv, ClientTypeOK
      <4> QED BY <4>1
    <3> QED BY <2>4, <3>1 DEF ClientInv, ClientTypeOK
  <2>6. ClientInv'
    BY <2>1, <2>4, <2>5 DEF ClientRecv, ClientInv, ClientTypeOK, PacketOK, Outgoing, Mode
  <2> QED BY <2>3, <2>6
<1>3. CASE ClientRecvEnds(c)
  <2>1. ASSUME NEW v \in {"eof", "error"}, ClientReturn(c, 0, v) PROVE ClientInv'
    BY <2>1, ClientReturnInv DEF Verdicts
  <2> QED BY <1>0, <1>1, <1>3, <2>1, RecvEofInv, RecvFailsInv DEF ClientRecvEnds
<1>4. CASE ClientClose(c) \/ ClientDtor(c)
  BY <1>0, <1>1, <1>4, CloseInv DEF ClientClose, ClientDtor
<1> QED BY <1>2, <1>3, <1>4

\* Every step of a client thread keeps its invariant and the kernel's.
THEOREM ClientStepInv ==
  ASSUME KernelInv, ClientInv, UNCHANGED cfg, NEW c \in Clients, ClientStep(c)
  PROVE  KernelInv' /\ StreamsGrow /\ ClientInv'
BY ConnectingInv, SendingClientInv, ReadingClientInv DEF ClientStep

-------------------------------------------------------------------------------
(* The whole demo. *)

\* The inductive form of TypeOK: the parts every thread keeps by itself, and
\* that a thread which main has not spawned has not moved.
TypeInv ==
  /\ ConfigTypeOK
  /\ KernelInv
  /\ ServerInv
  /\ ClientInv
  /\ mpc \in MainPcs
  /\ mpc = "spawnServer" => spc = "idle"
  /\ mpc \in {"spawnServer", "spawnClient"} => cpc[LocalClient] = "idle"

-------------------------------------------------------------------------------
LEMMA TypeInvInit == Init => TypeInv
<1> SUFFICES ASSUME Init PROVE TypeInv
  OBVIOUS
<1>1. ConfigTypeOK
  BY ConfigAssumption, TestBedAssumption DEF Init, StartupCode, ConfigTypeOK, DemoTypes
<1>2. KernelInv /\ ServerInv /\ ClientInv
  BY KernelInitInv, ServerInitInv, ClientInitInv DEF Init
<1>3. cpc[LocalClient] = "idle" /\ spc = "idle" /\ mpc = "spawnServer"
  BY ConfigAssumption, TestBedAssumption DEF Init, ClientInit, ServerInit
<1> QED
  BY <1>1, <1>2, <1>3 DEF TypeInv, MainPcs

LEMMA MainStep ==
  ASSUME TypeInv, Main
  PROVE  TypeInv' /\ StreamsGrow
<1>0. UNCHANGED <<cfg, kernelVars>>
  BY DEF Main, SpawnServer, SpawnClient, JoinServer, JoinClient
<1>1. KernelInv' /\ StreamsGrow /\ ConfigTypeOK'
  BY <1>0, UnchangedInv DEF TypeInv, ConfigTypeOK
<1>2. CASE SpawnServer
  <2>1. ServerInv'
    BY <1>2, GotoInv DEF SpawnServer, MainAt, TypeInv, ServerInv, ServerPcs, Opening, Holding
  <2>2. ClientInv'
    BY <1>0, <1>2, ClientUnchangedInv DEF SpawnServer, TypeInv
  <2> QED
    BY <1>1, <1>2, <2>1, <2>2 DEF SpawnServer, MainAt, TypeInv, MainPcs, clientVars
<1>3. CASE SpawnClient
  <2>1. ServerInv'
    BY <1>3, ServerUnchangedInv DEF SpawnClient, TypeInv
  <2>2. cpc[LocalClient] = "idle"
    BY <1>3 DEF SpawnClient, MainAt, TypeInv
  <2>3. packet[LocalClient] = 1
    BY <2>2, ConfigAssumption, TestBedAssumption DEF TypeInv, ClientInv, PacketOK, Fresh
  <2>4. ClientInv'
    BY <1>0, <1>3, <2>3, ClientGotoInv, ConfigAssumption, TestBedAssumption DEF SpawnClient, TypeInv, ClientPcs
  <2> QED BY <1>1, <1>3, <2>1, <2>4 DEF SpawnClient, MainAt, TypeInv, MainPcs
<1>4. CASE JoinServer \/ JoinClient
  <2>1. ServerInv' /\ ClientInv'
    BY <1>0, <1>4, ServerUnchangedInv, ClientUnchangedInv DEF JoinServer, JoinClient, TypeInv
  <2> QED BY <1>1, <1>4, <2>1 DEF JoinServer, JoinClient, MainAt, TypeInv, MainPcs
<1> QED BY <1>2, <1>3, <1>4 DEF Main

LEMMA ServerThreadStep ==
  ASSUME TypeInv, ServerThread
  PROVE  TypeInv' /\ StreamsGrow
<1>1. KernelInv' /\ StreamsGrow /\ ServerInv'
  BY ServerStepInv DEF ServerThread, TypeInv
<1>2. ClientInv'
  BY ClientUnchangedInv DEF ServerThread, TypeInv
<1>3. spc # "idle"
  BY DEF ServerThread, ServerStep, ServerApplication, Setup, SetupStep, AcceptFails, CloseListen,
         Accept, Mode1Recv, Mode2Recv, Mode3Receive, Mode5Receive, Mode1Eof, RecvError,
         Mode1Echo, Mode2Eof, Mode2Reply, ServerSigPipe, Mode3Ends, SelectReady, SelectTimeout,
         SelectFails, Mode5Eof, Mode5Error, ServerShutdown, DtorListen, DtorClient, At
<1> QED
  BY <1>1, <1>2, <1>3 DEF ServerThread, TypeInv, ConfigTypeOK, clientVars

LEMMA ClientThreadStep ==
  ASSUME TypeInv, NEW c \in Clients, ClientThread(c)
  PROVE  TypeInv' /\ StreamsGrow
<1>1. KernelInv' /\ StreamsGrow /\ ClientInv'
  BY ClientStepInv DEF ClientThread, TypeInv
<1>2. ServerInv'
  BY ServerUnchangedInv DEF ClientThread, TypeInv
<1>3. cpc[c] # "idle" /\ \A d \in Clients \ {c} : cpc'[d] = cpc[d]
  BY DEF ClientThread, ClientStep, ClientApplication, SetupResolve, SetupSocketFails,
         SetupConnect, SetupRefused, NotConnected, ClientSend, ClientSendFails, ClientSigPipe,
         ClientShutdown,
         ClientRecv, ClientRecvEnds, ClientClose, ClientDtor, ClientAt, ClientGoto,
         ClientReturn, clientVars, TypeInv, ClientInv, ClientTypeOK
<1> QED
  BY <1>1, <1>2, <1>3, ConfigAssumption, TestBedAssumption
     DEF ClientThread, TypeInv, ConfigTypeOK, serverVars

LEMMA EnvironmentStep ==
  ASSUME TypeInv, NEW c \in Clients, StartRemote(c) \/ Reap(c) \/ Network
  PROVE  TypeInv' /\ StreamsGrow
<1>1. CASE StartRemote(c)
  <2>1. KernelInv' /\ StreamsGrow
    BY <1>1, UnchangedInv DEF StartRemote, TypeInv
  <2>2. ServerInv'
    BY <1>1, ServerUnchangedInv DEF StartRemote, TypeInv
  <2>3. packet[c] = 1
    BY <1>1 DEF StartRemote, TypeInv, ClientInv, PacketOK, Fresh
  <2>4. ClientInv'
    BY <1>1, <2>3, ClientGotoInv DEF StartRemote, TypeInv, ClientPcs
  <2>5. cpc'[LocalClient] = cpc[LocalClient]
    BY <1>1, ConfigAssumption, TestBedAssumption DEF StartRemote, ClientGoto, TypeInv, ClientInv, ClientTypeOK
  <2> QED BY <1>1, <2>1, <2>2, <2>4, <2>5 DEF StartRemote, TypeInv, ConfigTypeOK, serverVars
<1>2. ASSUME UNCHANGED <<cfg, mpc, serverVars, clientVars>>, KernelInv' /\ StreamsGrow
      PROVE  TypeInv' /\ StreamsGrow
  <2>1. ServerInv' /\ ClientInv'
    BY <1>2, ServerUnchangedInv, ClientUnchangedInv DEF TypeInv
  <2> QED BY <1>2, <2>1 DEF TypeInv, ConfigTypeOK, serverVars, clientVars
<1>3. CASE Reap(c)
  <2>1. Cli(c) \in Endpoints /\ (conn # NoClient => Srv(conn) \in Endpoints)
    BY EndpointFacts DEF TypeInv, ServerInv, ServerTypeOK
  <2>2. KernelInv' /\ StreamsGrow
    BY <1>3, <2>1, CloseInv, CloseListenerInv DEF Reap, TypeInv
  <2> QED BY <1>2, <1>3, <2>2 DEF Reap
<1>4. CASE Network
  <2>1. KernelInv' /\ StreamsGrow
    BY <1>4, DeliverRstInv DEF Network, TypeInv
  <2> QED BY <1>2, <1>4, <2>1 DEF Network
<1> QED BY <1>1, <1>3, <1>4

LEMMA TypeInvStep == TypeInv /\ [Next]_vars => TypeInv' /\ StreamsGrow
<1> SUFFICES ASSUME TypeInv, [Next]_vars PROVE TypeInv' /\ StreamsGrow
  OBVIOUS
<1>1. CASE UNCHANGED vars
  <2>1. KernelInv' /\ StreamsGrow /\ ServerInv' /\ ClientInv'
    BY <1>1, UnchangedInv, ServerUnchangedInv, ClientUnchangedInv DEF vars, TypeInv
  <2> QED BY <1>1, <2>1 DEF vars, TypeInv, ConfigTypeOK, serverVars, clientVars
<1>2. CASE Next
  BY <1>2, MainStep, ServerThreadStep, ClientThreadStep, EnvironmentStep, ConfigAssumption, TestBedAssumption
     DEF Next
<1> QED BY <1>1, <1>2

\* Every variable keeps its type: no recv writes past a buffer, no bytes are
\* held for a client that does not exist, no text beyond the last is sent.
THEOREM TypeCorrect == Spec => []TypeInv
<1>1. Init => TypeInv
  BY TypeInvInit
<1>2. TypeInv /\ [Next]_vars => TypeInv'
  BY TypeInvStep
<1> QED BY <1>1, <1>2, PTL DEF Spec

\* The same in the form the model checker evaluates: the types of cfg, of the
\* sockets, of both threads' variables and of main's position.
THEOREM TypeSafety == Spec => []TypeOK
<1>1. TypeInv => TypeOK
  BY DEF TypeInv, TypeOK, KernelInv, ServerInv, ClientInv
<1> QED BY <1>1, TypeCorrect, PTL

-------------------------------------------------------------------------------
(* The server's replies. *)

\* Where the server is in its exchange with the client it has accepted, as a
\* relation between the two streams and its buffer.
Replying ==
  LET got == read[Srv(conn)]
      reply == sent[Srv(conn)]
  IN  /\ spc = "echo" => ServerMode = 1
      /\ spc = "reply" => ServerMode = 2
      /\ spc \in {"select", "receive"} => ServerMode = 5
      /\ ServerMode = 1 =>
            /\ Len(reply) <= got
            /\ \A i \in 1..Len(reply) : reply[i] = sent[Cli(conn)][i]
            /\ spc \in {"closeListen", "recv", "shutdown"} => Len(reply) = got
            /\ spc = "echo" =>
                  /\ Len(reply) + retval = got
                  /\ \A i \in 1..retval : buffer[i] = sent[Cli(conn)][Len(reply) + i]
      /\ ServerMode = 2 =>
            /\ reply \in {<<>>, Unrequested}
            /\ spc \in {"closeListen", "recv", "reply"} => reply = <<>>
      /\ ServerMode > 2 => reply = <<>>

\* Clients other than the one accepted are given nothing.
Untouched == \A c \in Clients \ {conn} : sent[Srv(c)] = <<>> /\ read[Srv(c)] = 0

ReplyInv == Untouched /\ (conn \in Clients => Replying)

ServerEndsKept ==
  \A c \in Clients : sent'[Srv(c)] = sent[Srv(c)] /\ read'[Srv(c)] = read[Srv(c)]

LEMMA ClientKeepsServerEnds ==
  ASSUME TypeInv, NEW c \in Clients, ClientStep(c)
  PROVE  ServerEndsKept
<1>0. KernelInv /\ Cli(c) \in Endpoints /\ \A d \in Clients : Srv(d) \in Endpoints \ {Cli(c)}
  BY EndpointFacts DEF TypeInv
<1>1. CASE ClientSend(c)
  <2>1. packet[c] \in 1..Len(Outgoing(c)) /\ Outgoing(c) \in Seq(Seq(Byte))
    BY <1>1, OutgoingType, ClientAssumption
       DEF ClientSend, ClientAt, TypeInv, ClientInv, ClientTypeOK, PacketOK
  <2>2. Outgoing(c)[packet[c]] \in Seq(Byte)
    BY <2>1
  <2>3. SendOk(Cli(c), Outgoing(c)[packet[c]])
    BY <1>1 DEF ClientSend
  <2>4. \A d \in Clients : sent'[Srv(d)] = sent[Srv(d)]
    BY <1>0, <2>2, <2>3, SendOkInv
  <2> QED BY <2>3, <2>4 DEF SendOk, ServerEndsKept
<1>2. CASE \E n \in RecvSizes : ClientRecv(c, n)
  <2>1. PICK n \in RecvSizes : RecvData(Cli(c), n)
    BY <1>2 DEF ClientRecv
  <2> QED BY <1>0, <2>1 DEF RecvData, ServerEndsKept, KernelInv, KernelTypeOK
<1>3. CASE ~ClientSend(c) /\ ~(\E n \in RecvSizes : ClientRecv(c, n))
  <2>1. UNCHANGED <<sent, read>>
    BY <1>3
       DEF ClientStep, ClientApplication, SetupResolve, SetupSocketFails, SetupConnect,
           SetupRefused, NotConnected, ClientSendFails, ClientSigPipe, ClientShutdown,
           ClientRecvEnds,
           ClientClose, ClientDtor, kernelVars, CallFails, InvalidCall, ConnectCall, SendFails,
           SendKills,
           ReportReset, ShutdownOk, ShutdownFails, RecvEof, RecvFails, CloseCall, CloseOpen
  <2> QED BY <2>1 DEF ServerEndsKept
<1> QED BY <1>1, <1>2, <1>3

\* Nothing but the server's own steps can disturb its side of the exchange:
\* all that happens to it is that the client's stream grows.
LEMMA OthersKeepReplyInv ==
  ASSUME TypeInv, TypeInv', StreamsGrow, ReplyInv, ServerEndsKept,
         UNCHANGED <<cfg, conn, retval, buffer>>,
         spc' = spc \/ (spc = "idle" /\ spc' = "start")
  PROVE  ReplyInv'
<1>1. Untouched'
  BY DEF Untouched, ReplyInv, ServerEndsKept
<1>2. ASSUME conn \in Clients PROVE Replying'
  <2>1. /\ sent'[Srv(conn)] = sent[Srv(conn)]
        /\ read'[Srv(conn)] = read[Srv(conn)]
        /\ ServerMode' = ServerMode
    BY <1>2 DEF ServerEndsKept, ServerMode, Mode
  <2>2. spc' = spc
    BY <1>2, ServerAssumption DEF TypeInv, ServerInv, Opening
  <2>3. /\ sent[Cli(conn)] \in Seq(Byte) /\ sent[Srv(conn)] \in Seq(Byte)
        /\ read[Srv(conn)] \in Nat /\ retval \in Nat
        /\ read[Srv(conn)] <= Len(sent[Cli(conn)])
    BY <1>2, EndpointFacts, BufferAssumption
       DEF TypeInv, KernelInv, KernelTypeOK, ReadBound, ServerInv, ServerTypeOK
  <2>4. \A i \in 1..Len(sent[Cli(conn)]) : sent'[Cli(conn)][i] = sent[Cli(conn)][i]
    BY <1>2, EndpointFacts DEF StreamsGrow, Extends
  <2>5. \A i \in 1..read[Srv(conn)] : sent'[Cli(conn)][i] = sent[Cli(conn)][i]
    BY <2>3, <2>4
  <2>6. Replying
    BY <1>2 DEF ReplyInv
  <2>7. ServerMode = 1 =>
           /\ \A i \in 1..Len(sent[Srv(conn)]) : sent'[Cli(conn)][i] = sent[Cli(conn)][i]
           /\ spc = "echo" => \A i \in 1..retval :
                 sent'[Cli(conn)][Len(sent[Srv(conn)]) + i] = sent[Cli(conn)][Len(sent[Srv(conn)]) + i]
    <3>1. SUFFICES ASSUME ServerMode = 1
                   PROVE  /\ \A i \in 1..Len(sent[Srv(conn)]) :
                               sent'[Cli(conn)][i] = sent[Cli(conn)][i]
                          /\ spc = "echo" => \A i \in 1..retval :
                               sent'[Cli(conn)][Len(sent[Srv(conn)]) + i] =
                               sent[Cli(conn)][Len(sent[Srv(conn)]) + i]
      OBVIOUS
    <3>2. Len(sent[Srv(conn)]) <= read[Srv(conn)] /\ Len(sent[Srv(conn)]) \in Nat
      BY <2>3, <2>6, <3>1 DEF Replying
    <3>3. \A i \in 1..Len(sent[Srv(conn)]) : i \in 1..read[Srv(conn)]
      BY <2>3, <3>2
    <3>4. ASSUME spc = "echo", NEW i \in 1..retval
          PROVE  Len(sent[Srv(conn)]) + i \in 1..read[Srv(conn)]
      <4>1. Len(sent[Srv(conn)]) + retval = read[Srv(conn)]
        BY <2>6, <3>1, <3>4 DEF Replying
      <4> QED BY <2>3, <3>2, <4>1
    <3> QED BY <2>5, <3>3, <3>4
  <2> QED BY <2>1, <2>2, <2>6, <2>7 DEF Replying
<1> QED BY <1>1, <1>2 DEF ReplyInv

-------------------------------------------------------------------------------
(* The server's own steps. *)

\* A step that moves no bytes, to a place where no more is asked than before.
LEMMA QuietKeepsReplyInv ==
  ASSUME TypeInv, ReplyInv, UNCHANGED <<cfg, sent, read, conn, retval, buffer>>,
         \/ spc' \in {"idle", "start", "resolve", "socket", "bind", "listen", "accept",
                      "dtorListen", "dtorClient", "done", spc}
         \/ spc \in {"closeListen", "recv"} /\ spc' \in {"recv", "shutdown"}
         \/ spc \in {"closeListen", "recv"} /\ spc' = "reply" /\ ServerMode = 2
         \/ spc' \in {"select", "receive", "shutdown"} /\ ServerMode = 5
  PROVE  ReplyInv'
<1>1. Untouched'
  BY DEF Untouched, ReplyInv
<1>2. ServerMode' = ServerMode
  BY DEF ServerMode, Mode
<1>3. ASSUME conn \in Clients PROVE Replying'
  <2>1. Replying
    BY <1>3 DEF ReplyInv
  <2> QED BY <1>2, <2>1 DEF Replying
<1> QED BY <1>1, <1>3 DEF ReplyInv

LEMMA AcceptKeepsReplyInv ==
  ASSUME TypeInv, ReplyInv, UNCHANGED cfg, NEW c \in Clients, Accept(c)
  PROVE  ReplyInv'
<1>1. conn = NoClient /\ conn' = c /\ spc' = "closeListen" /\ UNCHANGED <<sent, read>>
  BY DEF Accept, At, AcceptCall, TypeInv, ServerInv, Opening
<1>2. \A d \in Clients : sent'[Srv(d)] = <<>> /\ read'[Srv(d)] = 0
  BY <1>1, ServerAssumption DEF ReplyInv, Untouched
<1>3. Replying'
  BY <1>1, <1>2 DEF Replying, ServerMode, Mode
<1> QED BY <1>2, <1>3 DEF ReplyInv, Untouched

LEMMA ReceivingKeepsReplyInv ==
  ASSUME TypeInv, ReplyInv, UNCHANGED cfg, NEW n \in RecvSizes,
         Mode1Recv(n) \/ Mode2Recv(n) \/ Mode3Receive(n) \/ Mode5Receive(n)
  PROVE  ReplyInv'
<1>1. spc \in {"recv", "receive"} /\ RecvData(Srv(conn), n) /\ conn' = conn
  BY DEF Mode1Recv, Mode2Recv, Mode3Receive, Mode5Receive, At
<1>2. conn \in Clients /\ KernelInv /\ ServerInv
  BY <1>1, ValidServer DEF TypeInv, RecvData
<1>3. Srv(conn) \in Endpoints /\ n \in Nat /\ n > 0 /\ \A c \in Clients : Srv(c) \in Endpoints
  BY <1>2, EndpointFacts, BufferAssumption DEF RecvSizes
<1>4. /\ sent' = sent
      /\ read' = [read EXCEPT ![Srv(conn)] = read[Srv(conn)] + n]
      /\ read \in [Endpoints -> Nat]
  BY <1>1, <1>2, <1>3, RecvDataInv DEF KernelInv, KernelTypeOK
<1>5. read'[Srv(conn)] = read[Srv(conn)] + n /\ read[Srv(conn)] \in Nat
  BY <1>3, <1>4
<1>6. Untouched'
  BY <1>1, <1>3, <1>4, EndpointFacts DEF ReplyInv, Untouched
<1>7. Replying /\ ServerMode' = ServerMode
  BY <1>2 DEF ReplyInv, ServerMode, Mode
<1>8. sent[Srv(conn)] \in Seq(Byte)
  BY <1>2, <1>3 DEF KernelInv, KernelTypeOK
<1>9. CASE Mode1Recv(n)
  <2>1. /\ spc = "recv" /\ spc' = "echo" /\ retval' = n /\ ServerMode = 1
        /\ buffer' = Terminate(Overwrite(buffer, Chunk(Srv(conn), n)), n)
    BY <1>9 DEF Mode1Recv, At
  <2>2. Len(sent[Srv(conn)]) = read[Srv(conn)]
    BY <1>7, <2>1 DEF Replying
  <2>3. \A i \in 1..n : buffer'[i] = sent[Cli(conn)][read[Srv(conn)] + i]
    BY <1>1, <1>2, <2>1, RecvBuffer
  <2>4. Len(sent[Srv(conn)]) <= read[Srv(conn)] + n
    BY <1>3, <1>5, <2>2
  <2>5. Replying'
    BY <1>1, <1>4, <1>5, <1>7, <2>1, <2>2, <2>3, <2>4 DEF Replying
  <2> QED BY <1>6, <2>5 DEF ReplyInv
<1>10. CASE Mode2Recv(n) \/ Mode3Receive(n) \/ Mode5Receive(n)
  <2>1. /\ ServerMode \in {2, 3, 5}
        /\ spc' \in {spc, "shutdown"} \/ (ServerMode = 5 /\ spc' = "select")
    BY <1>7, <1>10 DEF Mode2Recv, Mode3Receive, Mode5Receive, At, Replying
  <2>2. Replying'
    BY <1>1, <1>4, <1>7, <2>1 DEF Replying
  <2> QED BY <1>6, <2>2 DEF ReplyInv
<1> QED BY <1>9, <1>10

\* The send of the echo appends the buffer's bytes at the place in the
\* client's stream where they came from.
LEMMA EchoKeepsReplyInv ==
  ASSUME TypeInv, ReplyInv, UNCHANGED cfg, At("echo"),
         SendOk(Srv(conn), EchoBytes), Goto("recv")
  PROVE  ReplyInv'
<1>1. /\ conn \in Clients /\ KernelInv
      /\ retval \in Nat
      /\ \A i \in 1..retval : buffer[i] \in Byte
  BY BufferAssumption DEF At, TypeInv, ServerInv, ServerTypeOK, Holding
<1>2. EchoBytes \in Seq(Byte) /\ Len(EchoBytes) = retval
  BY <1>1 DEF EchoBytes
<1>3. /\ \A c \in Clients : Srv(c) \in Endpoints
      /\ \A c \in Clients \ {conn} : Srv(c) # Srv(conn)
      /\ Cli(conn) \in Endpoints \ {Srv(conn)}
  BY <1>1, EndpointFacts
<1>4. /\ sent'[Srv(conn)] = sent[Srv(conn)] \o EchoBytes
      /\ sent'[Cli(conn)] = sent[Cli(conn)]
      /\ \A c \in Clients \ {conn} : sent'[Srv(c)] = sent[Srv(c)]
  BY <1>1, <1>2, <1>3, SendOkInv
<1>5. read' = read /\ conn' = conn /\ spc' = "recv" /\ retval' = retval
  BY DEF SendOk, Goto
<1>6. sent[Srv(conn)] \in Seq(Byte) /\ read[Srv(conn)] \in Nat
  BY <1>1, <1>3 DEF KernelInv, KernelTypeOK
<1>7. /\ ServerMode = 1 /\ ServerMode' = ServerMode
      /\ \A i \in 1..Len(sent[Srv(conn)]) : sent[Srv(conn)][i] = sent[Cli(conn)][i]
      /\ Len(sent[Srv(conn)]) + retval = read[Srv(conn)]
      /\ \A i \in 1..retval : buffer[i] = sent[Cli(conn)][Len(sent[Srv(conn)]) + i]
  BY <1>1 DEF ReplyInv, Replying, At, ServerMode, Mode
<1>8. Len(sent'[Srv(conn)]) = read[Srv(conn)]
  <2>1. Len(sent[Srv(conn)] \o EchoBytes) = Len(sent[Srv(conn)]) + Len(EchoBytes)
    BY <1>2, <1>6
  <2> QED BY <1>2, <1>4, <1>7, <2>1
<1>9. ASSUME NEW i \in 1..read[Srv(conn)]
      PROVE  sent'[Srv(conn)][i] = sent[Cli(conn)][i]
  <2>1. CASE i <= Len(sent[Srv(conn)])
    <3>1. i \in 1..Len(sent[Srv(conn)]) /\ sent'[Srv(conn)][i] = sent[Srv(conn)][i]
      BY <1>2, <1>4, <1>6, <2>1
    <3> QED BY <1>7, <3>1
  <2>2. CASE i > Len(sent[Srv(conn)])
    <3> DEFINE j == i - Len(sent[Srv(conn)])
    <3>1. j \in 1..retval /\ Len(sent[Srv(conn)]) + j = i
      BY <1>1, <1>6, <1>7, <2>2
    <3>2. sent'[Srv(conn)][i] = EchoBytes[j]
      BY <1>2, <1>4, <1>6, <1>8, <2>2
    <3>3. EchoBytes[j] = buffer[j]
      BY <3>1 DEF EchoBytes
    <3> QED BY <1>7, <3>1, <3>2, <3>3
  <2> QED BY <1>6, <2>1, <2>2
<1>10. Replying'
  <2>1. /\ ServerMode' = 1 /\ spc' = "recv"
        /\ read'[Srv(conn')] = read[Srv(conn)]
        /\ sent'[Srv(conn')] = sent'[Srv(conn)]
        /\ sent'[Cli(conn')] = sent[Cli(conn)]
        /\ read[Srv(conn)] <= read[Srv(conn)]
    BY <1>4, <1>5, <1>6, <1>7
  <2> QED BY <1>8, <1>9, <2>1 DEF Replying
<1>11. Untouched'
  BY <1>4, <1>5 DEF ReplyInv, Untouched
<1> QED BY <1>10, <1>11 DEF ReplyInv

LEMMA UnrequestedKeepsReplyInv ==
  ASSUME TypeInv, ReplyInv, UNCHANGED cfg, At("reply"),
         SendOk(Srv(conn), Unrequested), Goto("shutdown")
  PROVE  ReplyInv'
<1>1. conn \in Clients /\ KernelInv
  BY DEF At, TypeInv, ServerInv, Holding
<1>2. /\ ServerMode = 2 /\ ServerMode' = ServerMode
      /\ sent[Srv(conn)] = <<>>
  BY <1>1 DEF ReplyInv, Replying, At, ServerMode, Mode
<1>3. Unrequested \in Seq(Byte) /\ <<>> \o Unrequested = Unrequested
  BY ServerAssumption
<1>4. /\ Srv(conn) \in Endpoints
      /\ \A c \in Clients \ {conn} : Srv(c) \in Endpoints \ {Srv(conn)}
  BY <1>1, EndpointFacts
<1>5. /\ sent'[Srv(conn)] = Unrequested
      /\ \A c \in Clients \ {conn} : sent'[Srv(c)] = sent[Srv(c)]
  BY <1>1, <1>2, <1>3, <1>4, SendOkInv
<1>6. read' = read /\ conn' = conn /\ spc' = "shutdown"
  BY DEF SendOk, Goto
<1>7. Replying'
  BY <1>2, <1>5, <1>6 DEF Replying
<1> QED BY <1>5, <1>6, <1>7 DEF ReplyInv, Untouched

LEMMA ServerKeepsReplyInv ==
  ASSUME TypeInv, ReplyInv, UNCHANGED cfg, ServerStep
  PROVE  ReplyInv'
<1>1. ASSUME UNCHANGED <<sent, read>>, NEW pc, Goto(pc) \/ (ReturnError /\ pc = "dtorListen"),
             \/ pc \in {"idle", "start", "resolve", "socket", "bind", "listen", "accept",
                        "dtorListen", "dtorClient", "done", spc}
             \/ spc = "recv" /\ pc = "shutdown"
             \/ spc = "recv" /\ pc = "reply" /\ ServerMode = 2
             \/ pc \in {"select", "receive", "shutdown"} /\ ServerMode = 5
      PROVE  ReplyInv'
  BY <1>1, QuietKeepsReplyInv DEF Goto, ReturnError
<1>2. /\ CallFails => UNCHANGED <<sent, read>>
      /\ \A x : SendFails(x, SigPipe) \/ RecvFails(x) \/ RecvEof(x) => UNCHANGED <<sent, read>>
  BY DEF CallFails, InvalidCall, SendFails, RecvFails, RecvEof, ReportReset, kernelVars
<1>3. CASE ServerApplication \/ Setup
  BY <1>1, <1>2, <1>3
     DEF ServerApplication, Setup, SetupStep, ListenerBecomes, kernelVars
<1>4. CASE AcceptFails
  <2>1. conn \notin Clients /\ conn' = conn /\ UNCHANGED <<sent, read>>
    BY <1>2, <1>4, ServerAssumption
       DEF AcceptFails, At, Goto, ReturnError, TypeInv, ServerInv, Opening
  <2> QED BY <2>1 DEF ReplyInv, Untouched
<1>5. CASE \E c \in Clients : Accept(c)
  BY <1>5, AcceptKeepsReplyInv
<1>6. CASE CloseListen
  <2>1. ModeOperation \in {"shutdown", "recv"} \/ (ModeOperation = "select" /\ ServerMode = 5)
    BY DEF ModeOperation
  <2> QED
    BY <1>6, <2>1, QuietKeepsReplyInv DEF CloseListen, CloseListenerCall, At
<1>7. CASE \E n \in RecvSizes :
              Mode1Recv(n) \/ Mode2Recv(n) \/ Mode3Receive(n) \/ Mode5Receive(n)
  BY <1>7, ReceivingKeepsReplyInv
<1>8. CASE Mode1Eof \/ RecvError \/ Mode2Eof \/ Mode3Ends
  BY <1>1, <1>2, <1>8 DEF Mode1Eof, RecvError, Mode2Eof, Mode3Ends, At
<1>9. CASE Mode1Echo
  BY <1>1, <1>2, <1>9, EchoKeepsReplyInv DEF Mode1Echo
<1>10. CASE Mode2Reply
  BY <1>1, <1>2, <1>10, UnrequestedKeepsReplyInv DEF Mode2Reply
<1>11. CASE ServerSigPipe \/ SelectTimeout \/ SelectFails
  BY <1>2, <1>11, QuietKeepsReplyInv
     DEF ServerSigPipe, SendKills, SelectTimeout, SelectFails, InvalidCall, serverVars,
         kernelVars
<1>12. CASE SelectReady \/ Mode5Eof \/ Mode5Error
  <2>1. spc \in {"select", "receive"} /\ conn \in Clients
    BY <1>12, ValidServer DEF SelectReady, Mode5Eof, Mode5Error, At, TypeInv, ServerInv,
                              Holding, Readable
  <2>2. ServerMode = 5
    BY <2>1 DEF ReplyInv, Replying
  <2> QED
    BY <1>1, <1>2, <1>12, <2>2 DEF SelectReady, Mode5Eof, Mode5Error, kernelVars
<1>13. CASE ServerShutdown \/ DtorListen \/ DtorClient
  <2>1. UNCHANGED <<sent, read>>
    BY <1>2, <1>13
       DEF ServerShutdown, DtorListen, DtorClient, ShutdownOk, ShutdownFails, CloseCall,
           CloseOpen, InvalidCall, CloseListenerCall, kernelVars
  <2> QED BY <1>1, <1>13, <2>1 DEF ServerShutdown, DtorListen, DtorClient
<1> QED
  BY <1>3, <1>5, <1>6, <1>7, <1>8, <1>9, <1>10, <1>11, <1>12, <1>13, <1>4 DEF ServerStep

LEMMA ReplyInvInit == Init => ReplyInv
<1> SUFFICES ASSUME Init PROVE ReplyInv
  OBVIOUS
<1>1. \A c \in Clients : sent[Srv(c)] = <<>> /\ read[Srv(c)] = 0
  BY EndpointFacts DEF Init, KernelInit
<1>2. conn = NoClient
  BY DEF Init, ServerInit
<1> QED BY <1>1, <1>2, ServerAssumption DEF ReplyInv, Untouched

LEMMA ReplyInvStep == TypeInv /\ ReplyInv /\ [Next]_vars => ReplyInv'
<1> SUFFICES ASSUME TypeInv, ReplyInv, [Next]_vars PROVE ReplyInv'
  OBVIOUS
<1>0. TypeInv' /\ StreamsGrow
  BY TypeInvStep
<1>1. ASSUME UNCHANGED <<sent, read, cfg, conn, retval, buffer>>,
             spc' = spc \/ (spc = "idle" /\ spc' = "start")
      PROVE  ReplyInv'
  BY <1>0, <1>1, OthersKeepReplyInv DEF ServerEndsKept
<1>2. CASE UNCHANGED vars
  BY <1>1, <1>2 DEF vars, serverVars, kernelVars
<1>3. CASE Main
  <2>1. CASE SpawnServer
    BY <1>1, <1>3, <2>1 DEF Main, SpawnServer, MainAt, Goto, kernelVars, TypeInv
  <2>2. CASE SpawnClient \/ JoinServer \/ JoinClient
    BY <1>1, <1>3, <2>2 DEF Main, SpawnClient, JoinServer, JoinClient, kernelVars, serverVars
  <2> QED BY <1>3, <2>1, <2>2 DEF Main
<1>4. CASE ServerThread
  BY <1>4, ServerKeepsReplyInv DEF ServerThread
<1>5. CASE Network
  BY <1>1, <1>5 DEF Network, DeliverRst, serverVars
<1>6. ASSUME NEW c \in Clients, ClientThread(c) PROVE ReplyInv'
  BY <1>0, <1>6, ClientKeepsServerEnds, OthersKeepReplyInv DEF ClientThread, serverVars
<1>7. ASSUME NEW c \in Clients, StartRemote(c) PROVE ReplyInv'
  BY <1>1, <1>7 DEF StartRemote, serverVars, kernelVars
<1>8. ASSUME NEW c \in Clients, Reap(c) PROVE ReplyInv'
  BY <1>1, <1>8 DEF Reap, CloseCall, CloseOpen, InvalidCall, CloseListenerCall, serverVars,
                    kernelVars
<1> QED
  BY <1>2, <1>3, <1>4, <1>5, <1>6, <1>7, <1>8 DEF Next

LEMMA ReplyInvImplies == TypeInv /\ ReplyInv => ReplyIntegrity
<1> SUFFICES ASSUME TypeInv, ReplyInv, NEW c \in Clients
             PROVE  /\ c # conn => sent[Srv(c)] = <<>>
                    /\ ServerMode = 1 => /\ Len(sent[Srv(c)]) <= read[Srv(c)]
                                         /\ \A i \in 1..Len(sent[Srv(c)]) :
                                               sent[Srv(c)][i] = sent[Cli(c)][i]
                    /\ ServerMode = 2 => sent[Srv(c)] \in {<<>>, Unrequested}
                    /\ ServerMode > 2 => sent[Srv(c)] = <<>>
  BY DEF ReplyIntegrity
<1>1. CASE c = conn
  BY <1>1 DEF ReplyInv, Replying
<1>2. CASE c # conn
  BY <1>2 DEF ReplyInv, Untouched
<1> QED BY <1>1, <1>2

\* In every mode, under every interleaving and every split of the streams
\* into packets, the server replies to the client it accepted, and only to
\* it, what that mode promises: its own bytes, the canned reply or nothing.
THEOREM ReplyIntegrityHolds == Spec => []ReplyIntegrity
<1>1. Init => TypeInv /\ ReplyInv
  BY TypeInvInit, ReplyInvInit
<1>2. (TypeInv /\ ReplyInv) /\ [Next]_vars => (TypeInv /\ ReplyInv)'
  BY TypeInvStep, ReplyInvStep
<1> QED BY <1>1, <1>2, ReplyInvImplies, PTL DEF Spec

-------------------------------------------------------------------------------
(* What the clients print. *)

LogOK(c) == /\ Len(shown[c]) = read[Cli(c)]
            /\ \A i \in 1..Len(shown[c]) : shown[c][i] = sent[Srv(c)][i]

\* A step in which a client prints nothing and receives nothing.
LEMMA QuietKeepsLog ==
  ASSUME TypeInv, StreamsGrow, NEW c \in Clients, LogOK(c),
         shown'[c] = shown[c], read'[Cli(c)] = read[Cli(c)]
  PROVE  LogOK(c)'
<1>1. /\ Cli(c) \in Endpoints /\ Srv(c) \in Endpoints
      /\ shown[c] \in Seq(Byte)
      /\ read[Cli(c)] <= Len(sent[Srv(c)])
      /\ sent[Srv(c)] \in Seq(Byte)
  BY EndpointFacts DEF TypeInv, KernelInv, KernelTypeOK, ReadBound, ClientInv, ClientTypeOK
<1>2. \A i \in 1..Len(sent[Srv(c)]) : sent'[Srv(c)][i] = sent[Srv(c)][i]
  BY <1>1 DEF StreamsGrow, Extends
<1>3. \A i \in 1..Len(shown[c]) : i \in 1..Len(sent[Srv(c)])
  BY <1>1 DEF LogOK
<1> QED BY <1>2, <1>3 DEF LogOK

\* A recv prints the next bytes of the server's stream.
LEMMA RecvKeepsLog ==
  ASSUME TypeInv, NEW c \in Clients, LogOK(c), NEW n \in RecvSizes, ClientRecv(c, n)
  PROVE  LogOK(c)'
<1> DEFINE chunk == Chunk(Cli(c), n)
<1>1. /\ Cli(c) \in Endpoints /\ Peer(Cli(c)) = Srv(c) /\ n \in Nat
      /\ RecvData(Cli(c), n) /\ KernelInv /\ ClientInv
      /\ shown[c] \in Seq(Byte)
      /\ read \in [Endpoints -> Nat]
      /\ shown \in [Clients -> Seq(Byte)]
  BY EndpointFacts, BufferAssumption
     DEF RecvSizes, ClientRecv, TypeInv, KernelInv, KernelTypeOK, ClientInv, ClientTypeOK
<1>2. /\ chunk \in Seq(Byte) /\ Len(chunk) = n
      /\ shown' = [shown EXCEPT ![c] = shown[c] \o chunk]
  BY <1>1, RecvShown
<1>3. /\ sent' = sent
      /\ read' = [read EXCEPT ![Cli(c)] = read[Cli(c)] + n]
      /\ \A i \in 1..n : chunk[i] = sent[Srv(c)][read[Cli(c)] + i]
  BY <1>1, RecvDataInv
<1> HIDE DEF chunk
<1>4. shown'[c] = shown[c] \o chunk /\ read'[Cli(c)] = read[Cli(c)] + n
  BY <1>1, <1>2, <1>3
<1>5. Len(shown[c]) = read[Cli(c)] /\ Len(shown'[c]) = Len(shown[c]) + n
  <2>1. shown[c] \in Seq(Byte) /\ chunk \in Seq(Byte)
    BY <1>1, <1>2
  <2>2. Len(shown[c] \o chunk) = Len(shown[c]) + Len(chunk)
    BY <2>1
  <2>3. Len(shown[c]) = read[Cli(c)]
    BY DEF LogOK
  <2> QED BY <1>2, <1>4, <2>2, <2>3
<1>6. ASSUME NEW i \in 1..Len(shown'[c]) PROVE shown'[c][i] = sent[Srv(c)][i]
  <2>1. CASE i <= Len(shown[c])
    <3>1. i \in 1..Len(shown[c]) /\ shown'[c][i] = shown[c][i]
      BY <1>1, <1>2, <1>4, <2>1
    <3> QED BY <3>1 DEF LogOK
  <2>2. CASE i > Len(shown[c])
    <3> DEFINE j == i - Len(shown[c])
    <3>1. j \in 1..n /\ read[Cli(c)] + j = i
      BY <1>1, <1>5, <2>2
    <3>2. shown'[c][i] = chunk[j]
      BY <1>1, <1>2, <1>4, <1>5, <2>2
    <3> QED BY <1>3, <3>1, <3>2
  <2> QED BY <1>1, <2>1, <2>2
<1> QED BY <1>3, <1>4, <1>5, <1>6 DEF LogOK

LEMMA LogStep ==
  ASSUME TypeInv, [Next]_vars, NEW c \in Clients, LogOK(c)
  PROVE  LogOK(c)'
<1>0. TypeInv' /\ StreamsGrow
  BY TypeInvStep
<1>1. ASSUME UNCHANGED <<shown, read>> PROVE LogOK(c)'
  BY <1>0, <1>1, QuietKeepsLog
<1>2. CASE UNCHANGED vars
  BY <1>1, <1>2 DEF vars, clientVars, kernelVars
<1>3. CASE Main
  BY <1>1, <1>3 DEF Main, SpawnServer, SpawnClient, JoinServer, JoinClient, ClientGoto,
                    clientVars, kernelVars
<1>4. CASE ServerThread
  <2>1. read'[Cli(c)] = read[Cli(c)]
    <3>1. CASE \E n \in RecvSizes :
                 Mode1Recv(n) \/ Mode2Recv(n) \/ Mode3Receive(n) \/ Mode5Receive(n)
      <4>1. PICK n \in RecvSizes : RecvData(Srv(conn), n)
        BY <3>1 DEF Mode1Recv, Mode2Recv, Mode3Receive, Mode5Receive
      <4> QED BY <4>1, EndpointFacts DEF RecvData, TypeInv, KernelInv, KernelTypeOK
    <3>2. CASE ~(\E n \in RecvSizes :
                   Mode1Recv(n) \/ Mode2Recv(n) \/ Mode3Receive(n) \/ Mode5Receive(n))
      BY <1>4, <3>2
         DEF ServerThread, ServerStep, ServerApplication, Setup, SetupStep, ListenerBecomes,
             AcceptFails, CloseListen, CloseListenerCall, Accept, AcceptCall, Mode1Eof,
             RecvError, Mode1Echo, Mode2Eof, Mode2Reply, ServerSigPipe, Mode3Ends, SelectReady,
             SelectTimeout, SelectFails, Mode5Eof, Mode5Error, ServerShutdown, DtorListen,
             DtorClient, kernelVars, CallFails, InvalidCall, SendOk, SendFails, SendKills,
             ReportReset,
             ShutdownOk, ShutdownFails, RecvEof, RecvFails, CloseCall, CloseOpen
    <3> QED BY <3>1, <3>2
  <2> QED BY <1>0, <1>4, <2>1, QuietKeepsLog DEF ServerThread, clientVars
<1>5. CASE Network
  BY <1>1, <1>5 DEF Network, DeliverRst, clientVars
<1>6. ASSUME NEW d \in Clients, StartRemote(d) \/ Reap(d) PROVE LogOK(c)'
  BY <1>1, <1>6 DEF StartRemote, Reap, CloseCall, CloseOpen, InvalidCall, CloseListenerCall,
                    ClientGoto,
                    clientVars, kernelVars
<1>7. ASSUME NEW d \in Clients, ClientThread(d) PROVE LogOK(c)'
  <2>1. CASE \E n \in RecvSizes : ClientRecv(d, n)
    <3>1. PICK n \in RecvSizes : ClientRecv(d, n)
      BY <2>1
    <3>2. CASE d = c
      BY <3>1, <3>2, RecvKeepsLog
    <3>3. CASE d # c
      <4>1. shown'[c] = shown[c]
        BY <3>1, <3>3 DEF ClientRecv, TypeInv, ClientInv, ClientTypeOK
      <4>2. read'[Cli(c)] = read[Cli(c)]
        BY <3>1, <3>3, EndpointFacts DEF ClientRecv, RecvData, TypeInv, KernelInv, KernelTypeOK
      <4> QED BY <1>0, <4>1, <4>2, QuietKeepsLog
    <3> QED BY <3>2, <3>3
  <2>2. CASE ~(\E n \in RecvSizes : ClientRecv(d, n))
    BY <1>1, <1>7, <2>2
       DEF ClientThread, ClientStep, ClientApplication, SetupResolve, SetupSocketFails,
           SetupConnect, SetupRefused, NotConnected, ClientSend, ClientSendFails, ClientSigPipe,
           ClientShutdown, ClientRecvEnds, ClientClose, ClientDtor, ClientGoto, ClientReturn,
           clientVars, kernelVars, CallFails, InvalidCall, ConnectCall, SendOk, SendFails,
           SendKills,
           ReportReset, ShutdownOk, ShutdownFails, RecvEof, RecvFails, CloseCall, CloseOpen
  <2> QED BY <2>1, <2>2
<1> QED
  BY <1>2, <1>3, <1>4, <1>5, <1>6, <1>7 DEF Next

\* Whatever the sizes of the packets and of the buffer, the text a client
\* prints is what the server sent it, up to the last byte received.
THEOREM LogIsFaithful == Spec => []LogShowsReceived
<1> DEFINE Inv == TypeInv /\ \A c \in Clients : LogOK(c)
<1>1. Init => Inv
  <2> SUFFICES ASSUME Init, NEW c \in Clients PROVE LogOK(c)
    BY TypeInvInit
  <2> QED BY EndpointFacts DEF Init, KernelInit, ClientInit, LogOK
<1>2. Inv /\ [Next]_vars => Inv'
  BY TypeInvStep, LogStep
<1>3. Inv => LogShowsReceived
  BY DEF LogOK, LogShowsReceived
<1> QED BY <1>1, <1>2, <1>3, PTL DEF Spec

-------------------------------------------------------------------------------
(* The server finishes only when it has everything; the refinement.         *)

\* Where the server is when it has shut its side down or given up.
Ending == {"dtorListen", "dtorClient", "done"}

\* Where a client is when it has shut its side down.
Waiting == {"recv", "close", "dtor", "done"}

\* The server has received everything up to the client's FIN.
Complete == Unread(Srv(conn)) = 0 /\ fin[Cli(conn)]

\* An end a program connects with is never in the backlog itself.
NoQueued == \A c \in Clients : sock[Cli(c)] # "queued"

\* A client that has sent its FIN sends nothing after it.
Silent(c) == fin[Cli(c)] => c \in killed \/ cpc[c] \in Waiting

\* The server's FIN is the last thing it does in order.
FinLast == \A c \in Clients :
             fin[Srv(c)] => LocalClient \in killed \/ (c = conn /\ spc \in Ending)

\* How complete the exchange is where the server wants to end it: the client
\* may have reset the connection, but then the shutdown fails.
Drain ==
  (conn \in Clients /\ LocalClient \notin killed) =>
     /\ ServerMode \in {1, 2, 5} /\ spc \in {"reply", "shutdown"} =>
           Complete \/ rst[Srv(conn)] = "reported"
     /\ ServerMode \in {1, 2, 5} /\ spc \in Ending /\ sret = 0 => Complete
     /\ ServerMode = 2 /\ spc = "shutdown" => sent[Srv(conn)] = Unrequested

DrainInv == NoQueued /\ (\A c \in Clients : Silent(c)) /\ FinLast /\ Drain

-------------------------------------------------------------------------------
(* What every call of the socket layer leaves alone. *)

\* No FIN is taken back, and a server that was told of a reset stays so.
Lasting == /\ killed \subseteq killed'
           /\ \A x \in Endpoints : fin[x] => fin'[x]
           /\ \A c \in Clients : rst[Srv(c)] = "reported" => rst'[Srv(c)] = "reported"

KernelCall ==
  \/ UNCHANGED kernelVars
  \/ CallFails
  \/ CloseListenerCall
  \/ \E state : ListenerBecomes(state)
  \/ \E c \in Clients : ConnectCall(c) \/ AcceptCall(c)
  \/ \E x \in Endpoints :
        \/ \E bytes : SendOk(x, bytes)
        \/ ReportReset(x)
        \/ \E process : SendKills(x, process, SigPipe)
        \/ \E n : RecvData(x, n)
        \/ ShutdownOk(x) \/ CloseOpen(x) \/ DeliverRst(x)

LEMMA CallsLast ==
  ASSUME KernelInv, NoQueued, KernelCall
  PROVE  Lasting /\ NoQueued'
<1> USE EndpointFacts
<1>0. /\ sock \in [Endpoints -> SockStates] /\ fin \in [Endpoints -> BOOLEAN]
      /\ rst \in [Endpoints -> RstStates]
  BY DEF KernelInv, KernelTypeOK
<1>1. CASE UNCHANGED kernelVars \/ CallFails \/ \E state : ListenerBecomes(state)
  BY <1>1 DEF kernelVars, CallFails, ListenerBecomes, Lasting, NoQueued
<1>2. CASE CloseListenerCall
  BY <1>0, <1>2 DEF CloseListenerCall, Lasting, NoQueued
<1>3. ASSUME NEW c \in Clients, ConnectCall(c) \/ AcceptCall(c) PROVE Lasting /\ NoQueued'
  BY <1>0, <1>3 DEF ConnectCall, AcceptCall, Lasting, NoQueued
<1>4. ASSUME NEW x \in Endpoints, NEW bytes, SendOk(x, bytes) PROVE Lasting /\ NoQueued'
  BY <1>0, <1>4 DEF SendOk, Lasting, NoQueued
<1>5. ASSUME NEW x \in Endpoints, NEW process,
             ReportReset(x) \/ SendKills(x, process, SigPipe) \/ DeliverRst(x)
      PROVE  Lasting /\ NoQueued'
  BY <1>0, <1>5 DEF ReportReset, SendKills, DeliverRst, Lasting, NoQueued
<1>6. ASSUME NEW x \in Endpoints, NEW n, RecvData(x, n) \/ ShutdownOk(x)
      PROVE  Lasting /\ NoQueued'
  BY <1>0, <1>6 DEF RecvData, ShutdownOk, Lasting, NoQueued
<1>7. ASSUME NEW x \in Endpoints, CloseOpen(x) PROVE Lasting /\ NoQueued'
  <2>1. NoQueued'
    BY <1>0, <1>7 DEF CloseOpen, NoQueued
  <2>2. killed' = killed /\ \A y \in Endpoints : fin[y] => fin'[y]
    BY <1>0, <1>7 DEF CloseOpen
  <2>3. \A c \in Clients : rst[Srv(c)] = "reported" => rst'[Srv(c)] = "reported"
    BY <1>0, <1>7 DEF CloseOpen
  <2> QED BY <2>1, <2>2, <2>3 DEF Lasting
<1> QED BY <1>1, <1>2, <1>3, <1>4, <1>5, <1>6, <1>7 DEF KernelCall

LEMMA ServerCalls ==
  ASSUME TypeInv, ServerStep
  PROVE  KernelCall
<1>1. CASE ServerApplication \/ Setup \/ AcceptFails
  BY <1>1 DEF ServerApplication, Setup, SetupStep, AcceptFails, KernelCall
<1>2. CASE \E c \in Clients : Accept(c)
  BY <1>2 DEF Accept, KernelCall
<1>3. CASE CloseListen \/ DtorListen
  BY <1>3 DEF CloseListen, DtorListen, KernelCall
<1>4. ASSUME RecvEof(Srv(conn)) \/ RecvFails(Srv(conn)) \/ InvalidCall(Srv(conn))
               \/ ShutdownFails(Srv(conn)) \/ SendFails(Srv(conn), SigPipe)
      PROVE  KernelCall
  BY <1>4 DEF RecvEof, RecvFails, InvalidCall, ShutdownFails, SendFails, BrokenPipe, Valid,
              KernelCall
<1>5. CASE \E n \in RecvSizes :
              Mode1Recv(n) \/ Mode2Recv(n) \/ Mode3Receive(n) \/ Mode5Receive(n)
  <2>1. PICK n \in RecvSizes : RecvData(Srv(conn), n)
    BY <1>5 DEF Mode1Recv, Mode2Recv, Mode3Receive, Mode5Receive
  <2> QED BY <2>1 DEF RecvData, Valid, KernelCall
<1>6. CASE Mode1Eof \/ RecvError \/ Mode2Eof \/ Mode3Ends \/ Mode5Eof \/ Mode5Error
  BY <1>4, <1>6 DEF Mode1Eof, RecvError, Mode2Eof, Mode3Ends, Mode5Eof, Mode5Error
<1>7. CASE Mode1Echo \/ Mode2Reply
  <2>1. SendFails(Srv(conn), SigPipe) \/ \E bytes : SendOk(Srv(conn), bytes)
    BY <1>7 DEF Mode1Echo, Mode2Reply
  <2> QED BY <1>4, <2>1 DEF SendOk, Valid, KernelCall
<1>8. CASE ServerSigPipe
  BY <1>8 DEF ServerSigPipe, SendKills, BrokenPipe, Valid, KernelCall
<1>9. CASE SelectReady \/ SelectTimeout \/ SelectFails
  BY <1>4, <1>9 DEF SelectReady, SelectTimeout, SelectFails, KernelCall
<1>10. CASE ServerShutdown \/ DtorClient
  BY <1>4, <1>10 DEF ServerShutdown, DtorClient, CloseCall, CloseOpen, ShutdownOk, Valid, KernelCall
<1> QED
  BY <1>1, <1>2, <1>3, <1>5, <1>6, <1>7, <1>8, <1>9, <1>10 DEF ServerStep

LEMMA ClientCalls ==
  ASSUME TypeInv, NEW c \in Clients, ClientStep(c)
  PROVE  KernelCall
<1>1. CASE ClientApplication(c) \/ SetupResolve(c) \/ SetupSocketFails(c) \/ SetupConnect(c)
             \/ SetupRefused(c)
  BY <1>1 DEF ClientApplication, SetupResolve, SetupSocketFails, SetupConnect, SetupRefused,
              KernelCall
<1>2. ASSUME RecvEof(Cli(c)) \/ RecvFails(Cli(c)) \/ ShutdownFails(Cli(c))
               \/ SendFails(Cli(c), SigPipe)
      PROVE  KernelCall
  BY <1>2 DEF RecvEof, RecvFails, InvalidCall, ShutdownFails, SendFails, BrokenPipe, Valid,
              KernelCall
<1>3. CASE ClientSend(c)
  BY <1>3 DEF ClientSend, SendOk, Valid, KernelCall
<1>4. CASE ClientSendFails(c) \/ ClientRecvEnds(c)
  BY <1>2, <1>4 DEF ClientSendFails, ClientRecvEnds
<1>5. CASE ClientSigPipe(c)
  BY <1>5 DEF ClientSigPipe, SendKills, BrokenPipe, Valid, KernelCall
<1>6. CASE ClientShutdown(c)
  BY <1>2, <1>6 DEF ClientShutdown, ShutdownOk, Valid, KernelCall
<1>7. CASE \E n \in RecvSizes : ClientRecv(c, n)
  BY <1>7 DEF ClientRecv, RecvData, Valid, KernelCall
<1>8. CASE ClientClose(c) \/ ClientDtor(c)
  BY <1>8 DEF ClientClose, ClientDtor, CloseCall, CloseOpen, InvalidCall, Valid, KernelCall
<1> QED BY <1>1, <1>3, <1>4, <1>5, <1>6, <1>7, <1>8 DEF ClientStep

LEMMA NextCalls ==
  ASSUME TypeInv, Next
  PROVE  KernelCall
<1>1. CASE Main
  BY <1>1 DEF Main, SpawnServer, SpawnClient, JoinServer, JoinClient, kernelVars, KernelCall
<1>2. CASE Network
  BY <1>2 DEF Network, KernelCall
<1>3. ASSUME NEW c \in Clients, StartRemote(c) \/ Reap(c) PROVE KernelCall
  BY <1>3 DEF StartRemote, Reap, CloseCall, CloseOpen, InvalidCall, Valid, kernelVars, KernelCall
<1> QED BY <1>1, <1>2, <1>3, ServerCalls, ClientCalls DEF Next, ServerThread, ClientThread

-------------------------------------------------------------------------------
(* What the steps of one side leave alone on the other. *)

\* The client's side as the server sees it.
ClientEndsKept ==
  \A c \in Clients : sent'[Cli(c)] = sent[Cli(c)] /\ fin'[Cli(c)] = fin[Cli(c)]

ServerFinsKept == \A c \in Clients : fin'[Srv(c)] = fin[Srv(c)]

\* Nothing is sent after a FIN.
SilenceKept == \A c \in Clients : fin[Cli(c)] => sent'[Cli(c)] = sent[Cli(c)]

LEMMA ServerKeepsClientEnds ==
  ASSUME TypeInv, ServerStep
  PROVE  /\ ClientEndsKept
         /\ \A c \in Clients : fin'[Srv(c)] =>
               fin[Srv(c)] \/ (c = conn /\ spc \in {"shutdown", "dtorClient"})
<1> USE EndpointFacts
<1>0. fin \in [Endpoints -> BOOLEAN] /\ sent \in [Endpoints -> Seq(Byte)]
  BY DEF TypeInv, KernelInv, KernelTypeOK
<1>1. CASE ServerShutdown \/ DtorClient
  <2>1. /\ sent' = sent /\ spc \in {"shutdown", "dtorClient"}
        /\ \E b \in BOOLEAN : fin' \in {fin, [fin EXCEPT ![Srv(conn)] = b]}
    BY <1>0, <1>1 DEF ServerShutdown, DtorClient, At, ShutdownOk, ShutdownFails, CallFails,
                InvalidCall, CloseCall, CloseOpen, kernelVars, Valid
  <2>2. \A x \in Endpoints : x # Srv(conn) => fin'[x] = fin[x]
    BY <1>0, <2>1
  <2> QED BY <2>1, <2>2 DEF ClientEndsKept
<1>2. CASE ~(ServerShutdown \/ DtorClient)
  <2>1. fin' = fin
    BY <1>2
       DEF ServerStep, ServerApplication, Setup, SetupStep, ListenerBecomes, AcceptFails,
           CloseListen, CloseListenerCall, Accept, AcceptCall, Mode1Recv, Mode2Recv,
           Mode3Receive, Mode5Receive, RecvData, Mode1Eof, RecvError, Mode1Echo, Mode2Eof,
           Mode2Reply, ServerSigPipe, Mode3Ends, SelectReady, SelectTimeout, SelectFails,
           Mode5Eof, Mode5Error, DtorListen, kernelVars, CallFails, InvalidCall, SendOk,
           SendFails, SendKills, ReportReset, RecvEof, RecvFails
  <2>2. \A c \in Clients : sent'[Cli(c)] = sent[Cli(c)]
    <3>1. CASE Mode1Echo \/ Mode2Reply
      BY <1>0, <3>1 DEF Mode1Echo, Mode2Reply, SendOk, SendFails, CallFails, InvalidCall,
                        ReportReset, kernelVars
    <3>2. CASE ~(Mode1Echo \/ Mode2Reply)
      BY <1>2, <3>2
         DEF ServerStep, ServerApplication, Setup, SetupStep, ListenerBecomes, AcceptFails,
             CloseListen, CloseListenerCall, Accept, AcceptCall, Mode1Recv, Mode2Recv,
             Mode3Receive, Mode5Receive, RecvData, Mode1Eof, RecvError, Mode2Eof,
             ServerSigPipe, Mode3Ends, SelectReady, SelectTimeout, SelectFails,
             Mode5Eof, Mode5Error, DtorListen, kernelVars, CallFails, InvalidCall,
             SendKills, ReportReset, RecvEof, RecvFails
    <3> QED BY <3>1, <3>2
  <2> QED BY <2>1, <2>2 DEF ClientEndsKept
<1> QED BY <1>1, <1>2

LEMMA ClientKeepsSilence ==
  ASSUME TypeInv, NEW c \in Clients, ClientStep(c), \A d \in Clients : Silent(d)
  PROVE  ServerFinsKept /\ SilenceKept /\ \A d \in Clients : Silent(d)'
<1> USE EndpointFacts
<1>0. /\ fin \in [Endpoints -> BOOLEAN] /\ sent \in [Endpoints -> Seq(Byte)]
      /\ cpc \in [Clients -> ClientPcs]
  BY DEF TypeInv, KernelInv, KernelTypeOK, ClientInv, ClientTypeOK
<1>1. killed \subseteq killed' /\ \A d \in Clients \ {c} : cpc'[d] = cpc[d]
  BY <1>0 DEF ClientStep, ClientApplication, SetupResolve, SetupSocketFails, SetupConnect,
         SetupRefused, NotConnected, ClientSend, ClientSendFails, ClientSigPipe, ClientShutdown,
         ClientRecv, ClientRecvEnds, ClientClose, ClientDtor, ClientGoto, ClientReturn,
         clientVars, kernelVars, CallFails, InvalidCall, ConnectCall, SendOk, SendFails,
         SendKills, ReportReset, RecvData, ShutdownOk, ShutdownFails, RecvEof, RecvFails,
         CloseCall, CloseOpen
<1>2. CASE ClientSend(c)
  <2>1. ~fin[Cli(c)] /\ fin' = fin /\ sent' = [sent EXCEPT ![Cli(c)] = sent'[Cli(c)]]
    BY <1>0, <1>2 DEF ClientSend, ClientAt, SendOk, Silent, Waiting
  <2> QED BY <1>0, <1>1, <2>1 DEF ServerFinsKept, SilenceKept, Silent
<1>3. CASE ClientShutdown(c) \/ ClientClose(c) \/ ClientDtor(c)
  <2>1. /\ sent' = sent /\ cpc'[c] \in Waiting
        /\ \E b \in BOOLEAN : fin' \in {fin, [fin EXCEPT ![Cli(c)] = b]}
    BY <1>0, <1>3
       DEF ClientShutdown, ClientClose, ClientDtor, ClientGoto, ClientReturn, Waiting, ClientPcs,
           ShutdownOk, ShutdownFails, CallFails, InvalidCall, CloseCall, CloseOpen, kernelVars
  <2> QED BY <1>0, <1>1, <2>1 DEF ServerFinsKept, SilenceKept, Silent
<1>4. CASE ~(ClientSend(c) \/ ClientShutdown(c) \/ ClientClose(c) \/ ClientDtor(c))
  <2>1. UNCHANGED <<sent, fin>>
    BY <1>4
       DEF ClientStep, ClientApplication, SetupResolve, SetupSocketFails, SetupConnect,
           SetupRefused, ClientSendFails, ClientSigPipe, ClientRecv, ClientRecvEnds,
           kernelVars, CallFails, InvalidCall, ConnectCall, SendFails,
           SendKills, ReportReset, RecvData, RecvEof, RecvFails
  <2>2. cpc[c] \in Waiting => cpc'[c] \in Waiting
    BY <1>0, <1>4
       DEF ClientStep, ClientApplication, SetupResolve, SetupSocketFails, SetupConnect,
           SetupRefused, ClientSendFails, ClientSigPipe, ClientRecv, ClientRecvEnds, ClientAt,
           ClientGoto, ClientReturn, clientVars, Waiting, ClientPcs
  <2>3. c \notin killed
    BY <1>4
       DEF ClientStep, ClientApplication, SetupResolve, SetupSocketFails, SetupConnect,
           SetupRefused, ClientSendFails, ClientSigPipe, ClientRecv, ClientRecvEnds, ClientAt
  <2> QED BY <1>1, <2>1, <2>2, <2>3 DEF ServerFinsKept, SilenceKept, Silent
<1> QED BY <1>2, <1>3, <1>4

\* All that others do to an exchange at its end is to reset it.
LEMMA OthersKeepDrain ==
  ASSUME TypeInv, FinLast, Drain, Lasting, SilenceKept, ServerEndsKept, ServerFinsKept,
         UNCHANGED <<cfg, conn, sret>>, spc' = spc \/ (spc = "idle" /\ spc' = "start")
  PROVE  FinLast' /\ Drain'
<1>1. FinLast'
  BY DEF FinLast, Lasting, ServerFinsKept, Ending
<1>2. ASSUME conn \in Clients, LocalClient \notin killed' PROVE Drain'
  <2>1. /\ ServerMode' = ServerMode /\ spc' = spc /\ LocalClient \notin killed
        /\ Srv(conn) \in Endpoints /\ Cli(conn) \in Endpoints /\ Peer(Srv(conn)) = Cli(conn)
    BY <1>2, EndpointFacts, ServerAssumption
       DEF ServerMode, Mode, Lasting, TypeInv, ServerInv, Opening
  <2>2. Complete => Complete'
    BY <1>2, <2>1 DEF Complete, Unread, Lasting, SilenceKept, ServerEndsKept
  <2>3. sent'[Srv(conn)] = sent[Srv(conn)] /\ (rst[Srv(conn)] = "reported" => rst'[Srv(conn)] = "reported")
    BY <1>2 DEF ServerEndsKept, Lasting
  <2> QED BY <1>2, <2>1, <2>2, <2>3 DEF Drain
<1> QED BY <1>1, <1>2 DEF Drain

\* A step of the server that receives nothing leaves a complete exchange so.
LEMMA ServerKeepsComplete ==
  ASSUME TypeInv, conn \in Clients, ClientEndsKept, Complete, UNCHANGED conn,
         read'[Srv(conn)] = read[Srv(conn)]
  PROVE  Complete'
BY EndpointFacts DEF Complete, Unread, ClientEndsKept

LEMMA ServerKeepsDrain ==
  ASSUME TypeInv, TypeInv', ReplyInv, FinLast, Drain, Lasting, UNCHANGED cfg, ServerStep
  PROVE  FinLast' /\ Drain'
<1>0. /\ ClientEndsKept /\ ServerMode' = ServerMode
      /\ rst \in [Endpoints -> RstStates] /\ read \in [Endpoints -> Nat]
  BY ServerKeepsClientEnds DEF ServerMode, Mode, TypeInv, KernelInv, KernelTypeOK
<1>1. FinLast'
  <2>1. (conn' = conn \/ (conn = NoClient /\ spc = "accept"))
        /\ (spc \in Ending => spc' \in Ending)
    BY DEF ServerStep, ServerApplication, Setup, SetupStep, AcceptFails, CloseListen, Accept,
           Mode1Recv, Mode2Recv, Mode3Receive, Mode5Receive, Mode1Eof, RecvError, Mode1Echo,
           Mode2Eof, Mode2Reply, ServerSigPipe, Mode3Ends, SelectReady, SelectTimeout,
           SelectFails, Mode5Eof, Mode5Error, ServerShutdown, DtorListen, DtorClient, At, Goto,
           ReturnError, serverVars, Ending, TypeInv, ServerInv, Opening
  <2>2. spc = "shutdown" => spc' \in Ending /\ conn' = conn
    BY DEF ServerStep, ServerApplication, Setup, SetupStep, AcceptFails, CloseListen, Accept,
           Mode1Recv, Mode2Recv, Mode3Receive, Mode5Receive, Mode1Eof, RecvError, Mode1Echo,
           Mode2Eof, Mode2Reply, ServerSigPipe, Mode3Ends, SelectReady, SelectTimeout,
           SelectFails, Mode5Eof, Mode5Error, ServerShutdown, DtorListen, DtorClient, At, Goto,
           ReturnError, serverVars, Ending
  <2> QED BY <2>1, <2>2, ServerKeepsClientEnds DEF FinLast, Lasting, Ending
<1>2. SUFFICES ASSUME conn' \in Clients, LocalClient \notin killed' PROVE Drain'
  BY <1>1 DEF Drain
<1>3. LocalClient \notin killed
  BY <1>2 DEF Lasting
\* Nothing is asked of the other places.
<1>4. ASSUME spc' \notin {"reply", "shutdown"}, spc' \in Ending => sret' = 1 PROVE Drain'
  BY <1>4 DEF Drain
<1>5. CASE ServerApplication \/ Setup \/ AcceptFails
  <2>1. conn' = conn /\ spc \in Opening
    BY <1>5 DEF ServerApplication, Setup, SetupStep, AcceptFails, Goto, ReturnError, At, Opening
  <2> QED BY <1>2, <2>1, ServerAssumption DEF TypeInv, ServerInv
<1>6. CASE \E c \in Clients : Accept(c)
  BY <1>4, <1>6 DEF Accept, Ending
<1>7. CASE CloseListen
  <2>1. spc' = "shutdown" => ServerMode = 4
    BY <1>7 DEF CloseListen, ModeOperation
  <2>2. spc' \notin Ending /\ spc' # "reply"
    BY <1>7 DEF CloseListen, ModeOperation, Ending
  <2> QED BY <1>0, <2>1, <2>2 DEF Drain
<1>8. CASE \E n \in RecvSizes :
              Mode1Recv(n) \/ Mode2Recv(n) \/ Mode3Receive(n) \/ Mode5Receive(n)
  <2>1. CASE \E n \in RecvSizes : Mode3Receive(n)
    BY <1>0, <2>1 DEF Mode3Receive, Ending, Drain
  <2>2. CASE ~\E n \in RecvSizes : Mode3Receive(n)
    BY <1>4, <1>8, <2>2 DEF Mode1Recv, Mode2Recv, Mode5Receive, At, Ending
  <2> QED BY <2>1, <2>2
<1>9. CASE RecvError \/ Mode1Echo \/ SelectReady \/ SelectTimeout \/ SelectFails \/ Mode5Error
  BY <1>4, <1>9
     DEF RecvError, Mode1Echo, SelectReady, SelectTimeout, SelectFails, Mode5Error, At, Goto,
         ReturnError, serverVars, Ending
<1>10. CASE Mode1Eof \/ Mode2Eof \/ Mode5Eof
  <2>1. /\ RecvEof(Srv(conn)) /\ conn' = conn
        /\ \/ spc' = "shutdown" /\ ServerMode \in {1, 5}
           \/ spc' = "reply" /\ ServerMode = 2
    <3>1. CASE Mode1Eof \/ Mode2Eof
      BY <3>1 DEF Mode1Eof, Mode2Eof, Goto
    <3>2. CASE Mode5Eof
      <4>1. spc = "receive" /\ conn \in Clients
        BY <3>2 DEF Mode5Eof, At, TypeInv, ServerInv, Holding
      <4> QED BY <3>2, <4>1 DEF Mode5Eof, Goto, ReplyInv, Replying
    <3> QED BY <1>10, <3>1, <3>2
  <2>2. conn \in Clients /\ Peer(Srv(conn)) = Cli(conn)
    BY <2>1, ValidServer, EndpointFacts DEF RecvEof
  <2>3. /\ AtEnd(Srv(conn)) /\ UNCHANGED <<rst, read>>
    BY <2>1 DEF RecvEof, kernelVars
  <2>4. Complete \/ rst[Srv(conn)] = "reported"
    BY <2>2, <2>3 DEF AtEnd, Complete
  <2>5. Complete' \/ rst'[Srv(conn)] = "reported"
    BY <1>0, <2>1, <2>2, <2>3, <2>4, ServerKeepsComplete
  <2> QED BY <1>0, <2>1, <2>5 DEF Drain, Ending
<1>11. CASE Mode2Reply
  <2>1. conn' = conn /\ conn \in Clients /\ spc = "reply" /\ ServerMode = 2
    <3>1. conn' = conn /\ spc = "reply" /\ conn \in Clients
      BY <1>11 DEF Mode2Reply, At, Goto, ReturnError, TypeInv, ServerInv, Holding
    <3> QED BY <3>1 DEF ReplyInv, Replying
  <2>2. CASE SendOk(Srv(conn), Unrequested) /\ Goto("shutdown")
    <3>1. rst[Srv(conn)] # "reported" /\ read' = read /\ spc' = "shutdown"
      BY <2>2 DEF SendOk, Goto
    <3>2. Complete
      BY <1>3, <2>1, <3>1 DEF Drain
    <3>3. Complete'
      BY <1>0, <2>1, <3>1, <3>2, ServerKeepsComplete
    <3>4. sent'[Srv(conn)] = Unrequested
      <4>1. sent[Srv(conn)] = <<>> /\ Srv(conn) \in Endpoints
        BY <2>1, EndpointFacts DEF ReplyInv, Replying
      <4>2. sent'[Srv(conn)] = sent[Srv(conn)] \o Unrequested
        BY <2>2, <4>1, SendOkInv, ServerAssumption DEF TypeInv
      <4> QED BY <4>1, <4>2, ServerAssumption
    <3> QED BY <2>1, <3>1, <3>3, <3>4 DEF Drain, Ending
  <2>3. CASE ReturnError
    BY <1>4, <2>3 DEF ReturnError
  <2> QED BY <1>11, <2>2, <2>3 DEF Mode2Reply
<1>12. CASE ServerSigPipe
  BY <1>2, <1>12 DEF ServerSigPipe, SendKills
<1>13. CASE Mode3Ends
  BY <1>0, <1>13 DEF Mode3Ends, Goto, Drain, Ending
<1>14. CASE ServerShutdown
  <2>1. CASE ShutdownOk(Srv(conn)) /\ Goto("dtorListen")
    <3>1. /\ rst[Srv(conn)] # "reported" /\ read' = read
          /\ spc' = "dtorListen" /\ conn' = conn /\ spc = "shutdown"
      BY <1>14, <2>1 DEF ServerShutdown, ShutdownOk, Goto, At
    <3>2. ServerMode \in {1, 2, 5} => Complete
      BY <1>2, <1>3, <3>1 DEF Drain
    <3>3. ServerMode \in {1, 2, 5} => Complete'
      BY <1>0, <1>2, <3>1, <3>2, ServerKeepsComplete
    <3> QED BY <1>0, <3>1, <3>3 DEF Drain
  <2>2. CASE ReturnError
    BY <1>4, <2>2 DEF ReturnError
  <2> QED BY <1>14, <2>1, <2>2 DEF ServerShutdown
<1>15. CASE DtorListen \/ DtorClient
  <2>1. /\ read' = read /\ spc \in Ending /\ spc' \in Ending
        /\ conn' = conn /\ sret' = sret /\ spc' \notin {"reply", "shutdown"}
    BY <1>15 DEF DtorListen, DtorClient, CloseListenerCall, CloseCall, CloseOpen, InvalidCall,
                 kernelVars, Goto, At, Ending
  <2>2. (ServerMode \in {1, 2, 5} /\ sret = 0) => Complete
    BY <1>2, <1>3, <2>1 DEF Drain
  <2>3. (ServerMode \in {1, 2, 5} /\ sret = 0) => Complete'
    BY <1>0, <1>2, <2>1, <2>2, ServerKeepsComplete
  <2> QED BY <1>0, <2>1, <2>3 DEF Drain
<1> QED
  BY <1>5, <1>6, <1>7, <1>8, <1>9, <1>10, <1>11, <1>12, <1>13, <1>14, <1>15 DEF ServerStep

LEMMA DrainInvInit == Init => DrainInv
<1> SUFFICES ASSUME Init PROVE DrainInv
  OBVIOUS
<1>1. \A x \in Endpoints : sock[x] = "none" /\ fin[x] = FALSE
  BY DEF Init, KernelInit
<1>2. conn = NoClient
  BY DEF Init, ServerInit
<1> QED
  BY <1>1, <1>2, EndpointFacts, ServerAssumption DEF DrainInv, NoQueued, Silent, FinLast, Drain

LEMMA DrainInvStep == TypeInv /\ ReplyInv /\ DrainInv /\ [Next]_vars => DrainInv'
<1> SUFFICES ASSUME TypeInv, ReplyInv, DrainInv, [Next]_vars PROVE DrainInv'
  OBVIOUS
<1> USE DEF DrainInv
<1>0. TypeInv'
  BY TypeInvStep
<1>1. CASE UNCHANGED vars
  BY <1>1 DEF vars, kernelVars, serverVars, clientVars, NoQueued, Silent, FinLast, Drain,
              Complete, Unread, ServerMode, Mode
<1>2. CASE Next
  <2>0. Lasting /\ NoQueued'
    BY <1>2, NextCalls, CallsLast DEF TypeInv
  <2>1. CASE Main
    <3>1. UNCHANGED <<cfg, conn, sret, kernelVars>>
      BY <2>1 DEF Main, SpawnServer, SpawnClient, JoinServer, JoinClient, Goto, serverVars
    <3>2. spc' = spc \/ (spc = "idle" /\ spc' = "start")
      BY <2>1 DEF Main, SpawnServer, SpawnClient, JoinServer, JoinClient, MainAt, Goto,
                  serverVars, TypeInv
    <3>3. \A d \in Clients : cpc'[d] = cpc[d] \/ cpc[d] = "idle"
      BY <2>1 DEF Main, SpawnServer, SpawnClient, JoinServer, JoinClient, MainAt, ClientGoto,
                  clientVars, TypeInv, ClientInv, ClientTypeOK
    <3>4. \A d \in Clients : Silent(d)'
      BY <3>1, <3>3 DEF Silent, Waiting, kernelVars
    <3> QED
      BY <2>0, <3>1, <3>2, <3>4, OthersKeepDrain
         DEF kernelVars, SilenceKept, ServerEndsKept, ServerFinsKept
  <2>2. CASE ServerThread
    <3>1. FinLast' /\ Drain'
      BY <1>0, <2>0, <2>2, ServerKeepsDrain DEF ServerThread
    <3>2. \A d \in Clients : Silent(d)'
      BY <2>0, <2>2, ServerKeepsClientEnds
         DEF ServerThread, ClientEndsKept, Silent, Lasting, clientVars
    <3> QED BY <2>0, <3>1, <3>2
  <2>3. ASSUME NEW c \in Clients, ClientThread(c) PROVE DrainInv'
    <3>1. ServerFinsKept /\ SilenceKept /\ \A d \in Clients : Silent(d)'
      BY <2>3, ClientKeepsSilence DEF ClientThread
    <3>2. ServerEndsKept
      BY <2>3, ClientKeepsServerEnds DEF ClientThread
    <3> QED BY <2>0, <2>3, <3>1, <3>2, OthersKeepDrain DEF ClientThread, serverVars
  <2>4. CASE Network
    <3>1. UNCHANGED <<sent, read, fin, killed>>
      BY <2>4 DEF Network, DeliverRst
    <3>2. \A d \in Clients : Silent(d)'
      BY <2>4, <3>1 DEF Network, Silent, clientVars
    <3> QED
      BY <2>0, <2>4, <3>1, <3>2, OthersKeepDrain
         DEF Network, serverVars, SilenceKept, ServerEndsKept, ServerFinsKept
  <2>5. ASSUME NEW c \in Clients, StartRemote(c) PROVE DrainInv'
    <3>1. \A d \in Clients : cpc'[d] = cpc[d] \/ cpc[d] = "idle"
      BY <2>5 DEF StartRemote, ClientGoto, TypeInv, ClientInv, ClientTypeOK
    <3>2. \A d \in Clients : Silent(d)'
      BY <2>5, <3>1 DEF StartRemote, Silent, Waiting, kernelVars
    <3> QED
      BY <2>0, <2>5, <3>2, OthersKeepDrain
         DEF StartRemote, kernelVars, serverVars, SilenceKept, ServerEndsKept, ServerFinsKept
  <2>6. ASSUME NEW c \in Clients, Reap(c) PROVE DrainInv'
    <3>1. c \in killed /\ UNCHANGED <<sent, read, killed, cpc, cfg, serverVars>>
      BY <2>6 DEF Reap, CloseCall, CloseOpen, InvalidCall, CloseListenerCall, kernelVars, clientVars
    <3>2. \A d \in Clients : fin'[Cli(d)] # fin[Cli(d)] => d = c
      BY <2>6, EndpointFacts
         DEF Reap, CloseCall, CloseOpen, InvalidCall, CloseListenerCall, kernelVars, TypeInv,
             KernelInv, KernelTypeOK
    <3>3. \A d \in Clients : Silent(d)'
      BY <3>1, <3>2 DEF Silent
    <3>4. CASE c = LocalClient
      BY <2>0, <3>1, <3>3, <3>4 DEF FinLast, Drain
    <3>5. CASE c # LocalClient
      <4>1. ServerFinsKept
        BY <2>6, <3>5, EndpointFacts
           DEF Reap, CloseCall, CloseOpen, InvalidCall, kernelVars, TypeInv,
               KernelInv, KernelTypeOK, ServerFinsKept
      <4> QED
        BY <2>0, <3>1, <3>3, <4>1, OthersKeepDrain
           DEF serverVars, SilenceKept, ServerEndsKept
    <3> QED BY <3>4, <3>5
  <2> QED BY <1>2, <2>1, <2>2, <2>3, <2>4, <2>5, <2>6 DEF Next
<1> QED BY <1>1, <1>2

LEMMA DrainCorrect == Spec => [](TypeInv /\ ReplyInv /\ DrainInv)
<1>1. Init => TypeInv /\ ReplyInv /\ DrainInv
  BY TypeInvInit, ReplyInvInit, DrainInvInit
<1>2. (TypeInv /\ ReplyInv /\ DrainInv) /\ [Next]_vars => (TypeInv /\ ReplyInv /\ DrainInv)'
  BY TypeInvStep, ReplyInvStep, DrainInvStep
<1> QED BY <1>1, <1>2, PTL DEF Spec

LEMMA DrainInvImplies == TypeInv /\ DrainInv => DrainsBeforeShutdown
<1> SUFFICES ASSUME TypeInv, DrainInv, ServerMode \in {1, 2, 5}, conn # NoClient,
                    fin[Srv(conn)], sret = 0, LocalClient \notin killed
             PROVE  Complete
  BY DEF DrainsBeforeShutdown, Drained, Complete
<1>1. conn \in Clients
  BY DEF TypeInv, ServerInv, ServerTypeOK
<1> QED BY <1>1 DEF DrainInv, FinLast, Drain

\* In modes 1, 2 and 5 a server that has shut its side down and reports no
\* error has received every byte the client sent, and the client's FIN.
THEOREM DrainsBeforeShutdownHolds == Spec => []DrainsBeforeShutdown
BY DrainCorrect, DrainInvImplies, PTL

-------------------------------------------------------------------------------
(* The demo implements ServerContract. *)

Unheard == {"idle", "start", "resolve", "socket", "bind", "listen"}
Expecting == {"accept", "closeListen", "recv", "select", "shutdown"}

LEMMA PhaseValues ==
  /\ LocalClient \in killed \/ spc \in Ending => Phase = "over"
  /\ LocalClient \notin killed /\ conn = NoClient /\ spc \in Expecting => Phase = "open"
  /\ LocalClient \notin killed /\ conn = NoClient /\ spc \in Unheard => Phase = "closed"
  /\ LocalClient \notin killed /\ conn \in Clients /\ spc \notin Ending => Phase = "serving"
BY ServerAssumption DEF Phase, Ending, Expecting, Unheard

LEMMA PhaseValuesNext ==
  /\ LocalClient \in killed' \/ spc' \in Ending => Phase' = "over"
  /\ LocalClient \notin killed' /\ conn' = NoClient /\ spc' \in Expecting => Phase' = "open"
  /\ LocalClient \notin killed' /\ conn' = NoClient /\ spc' \in Unheard => Phase' = "closed"
  /\ LocalClient \notin killed' /\ conn' \in Clients /\ spc' \notin Ending => Phase' = "serving"
BY ServerAssumption DEF Phase, Ending, Expecting, Unheard

\* What the server takes and gives, as the contract sees it.
Taken == IF conn = NoClient THEN 0 ELSE read[Srv(conn)]
Given == IF conn = NoClient THEN <<>> ELSE sent[Srv(conn)]
Failed == sret = 1 \/ LocalClient \in killed

\* A step of anybody but the server that kills nobody: clients act.
LEMMA OthersAct ==
  ASSUME TypeInv, TypeInv', StreamsGrow, Lasting, ServerEndsKept,
         UNCHANGED <<cfg, conn, sret>>, spc' = spc \/ (spc = "idle" /\ spc' = "start"),
         LocalClient \in killed' => LocalClient \in killed
  PROVE  Contract!ClientActs
<1>1. Phase' = Phase
  <2>1. LocalClient \in killed' <=> LocalClient \in killed
    BY DEF Lasting
  <2>2. CASE spc' = spc
    BY <2>1, <2>2 DEF Phase
  <2>3. CASE spc = "idle" /\ spc' = "start"
    BY <2>1, <2>3 DEF Phase
  <2> QED BY <2>2, <2>3
<1>2. /\ ServerMode' = ServerMode
      /\ (sret = 1 \/ LocalClient \in killed)' = (sret = 1 \/ LocalClient \in killed)
  BY DEF ServerMode, Mode, Lasting
<1>3. Taken' = Taken /\ Given' = Given
  BY DEF Taken, Given, ServerEndsKept, TypeInv, ServerInv, ServerTypeOK
<1>4. ASSUME NEW c \in Clients
      PROVE  /\ Len(sent[Cli(c)]) <= Len(sent'[Cli(c)])
             /\ SubSeq(sent'[Cli(c)], 1, Len(sent[Cli(c)])) = sent[Cli(c)]
             /\ fin[Cli(c)] => fin'[Cli(c)]
  <2>1. Cli(c) \in Endpoints
    BY EndpointFacts
  <2>2. sent[Cli(c)] \in Seq(Byte) /\ sent'[Cli(c)] \in Seq(Byte)
    BY <2>1 DEF TypeInv, KernelInv, KernelTypeOK
  <2>3. Extends(sent[Cli(c)], sent'[Cli(c)])
    BY <2>1 DEF StreamsGrow
  <2> QED BY <2>1, <2>2, <2>3, InitialPart DEF Extends, Lasting
<1> QED
  BY <1>1, <1>2, <1>3, <1>4 DEF Contract!ClientActs, Contract!exchange, Taken, Given

\* The frame of every step of the server: it does not act for the clients.
LEMMA ServerFrame ==
  ASSUME TypeInv, UNCHANGED cfg, ServerStep
  PROVE  /\ ServerMode' = ServerMode
         /\ [c \in Clients |-> sent[Cli(c)]]' = [c \in Clients |-> sent[Cli(c)]]
         /\ [c \in Clients |-> fin[Cli(c)]]' = [c \in Clients |-> fin[Cli(c)]]
BY ServerKeepsClientEnds DEF ServerMode, Mode, ClientEndsKept

LEMMA ServerStutters ==
  ASSUME TypeInv, UNCHANGED <<cfg, conn, sent, read, sret, killed>>, ServerStep, Phase' = Phase
  PROVE  UNCHANGED Contract!contractVars
BY ServerFrame DEF Contract!contractVars, Contract!clientSide, Contract!exchange

LEMMA ServerFails ==
  ASSUME TypeInv, UNCHANGED <<cfg, conn, sent, read>>, ServerStep, Phase' = "over", Failed'
  PROVE  Contract!Fail
BY ServerFrame DEF Contract!Fail, Contract!clientSide, Contract!exchange, Failed

LEMMA ReceivingTakes ==
  ASSUME TypeInv, ReplyInv, UNCHANGED cfg, ServerStep, NEW n \in RecvSizes,
         Mode1Recv(n) \/ Mode2Recv(n) \/ Mode3Receive(n) \/ Mode5Receive(n)
  PROVE  Contract!Take
<1>1. /\ spc \in {"recv", "receive"} /\ LocalClient \notin killed
      /\ RecvData(Srv(conn), n) /\ UNCHANGED <<conn, sret>>
      /\ spc' \notin Ending
  BY DEF Mode1Recv, Mode2Recv, Mode3Receive, Mode5Receive, At, Ending
<1>2. /\ conn \in Clients /\ conn # NoClient /\ n \in Nat /\ n > 0
      /\ Srv(conn) \in Endpoints /\ Peer(Srv(conn)) = Cli(conn)
  BY <1>1, ValidServer, ServerAssumption, BufferAssumption, EndpointFacts
     DEF RecvData, RecvSizes
<1>3. /\ UNCHANGED <<sent, killed>>
      /\ read'[Srv(conn)] = read[Srv(conn)] + n
      /\ read[Srv(conn)] \in Nat
      /\ n <= Len(sent[Cli(conn)]) - read[Srv(conn)]
  BY <1>1, <1>2 DEF RecvData, Unread, TypeInv, KernelInv, KernelTypeOK
<1>4. Phase = "serving" /\ Phase' = "serving"
  BY <1>1, <1>2, <1>3, PhaseValues, PhaseValuesNext DEF Ending
<1>5. Len(sent[Cli(conn)]) \in Nat
  BY <1>2, EndpointFacts DEF TypeInv, KernelInv, KernelTypeOK
<1>6. /\ ServerMode # 4
      /\ ServerMode = 1 => Len(sent[Srv(conn)]) = read[Srv(conn)]
  <2>1. Replying
    BY <1>2 DEF ReplyInv
  <2>2. ServerMode = 1 => spc = "recv"
    BY <2>1, <1>1 DEF Replying
  <2>3. ServerMode # 4
    BY <2>1 DEF Replying, Mode1Recv, Mode2Recv, Mode3Receive, Mode5Receive, At
  <2> QED BY <2>1, <2>2, <2>3 DEF Replying
<1>7. read'[Srv(conn)] \in read[Srv(conn)] + 1..Len(sent[Cli(conn)])
  BY <1>2, <1>3, <1>5
<1> QED
  BY <1>1, <1>2, <1>3, <1>4, <1>6, <1>7, ServerFrame
     DEF Contract!Take, Contract!clientSide

LEMMA EchoReplies ==
  ASSUME TypeInv, TypeInv', ReplyInv, ReplyInv', UNCHANGED cfg, ServerStep, At("echo"),
         SendOk(Srv(conn), EchoBytes), Goto("recv")
  PROVE  Contract!Reply
<1>1. /\ conn \in Clients /\ conn # NoClient /\ spc = "echo" /\ LocalClient \notin killed
      /\ UNCHANGED <<conn, sret, killed, read>> /\ spc' = "recv"
  BY ServerAssumption DEF At, Goto, SendOk, TypeInv, ServerInv, Holding
<1>2. Phase = "serving" /\ Phase' = "serving"
  BY <1>1, PhaseValues, PhaseValuesNext DEF Ending
<1>3. /\ ServerMode = 1 /\ ServerMode' = 1
      /\ \A c \in Clients : sent'[Cli(c)] = sent[Cli(c)]
  BY <1>1, ServerFrame, ServerKeepsClientEnds DEF ReplyInv, Replying, ClientEndsKept
<1>4. /\ Len(sent'[Srv(conn)]) = read[Srv(conn)]
      /\ \A i \in 1..Len(sent'[Srv(conn)]) : sent'[Srv(conn)][i] = sent[Cli(conn)][i]
  BY <1>1, <1>3 DEF ReplyInv, Replying
<1>5. /\ sent'[Srv(conn)] \in Seq(Byte) /\ sent[Cli(conn)] \in Seq(Byte)
      /\ read[Srv(conn)] <= Len(sent[Cli(conn)])
  BY <1>1, EndpointFacts DEF TypeInv, KernelInv, KernelTypeOK, ReadBound
<1>6. sent'[Srv(conn)] = SubSeq(sent[Cli(conn)], 1, read[Srv(conn)])
  BY <1>4, <1>5, InitialPart DEF Extends
<1> QED
  BY <1>1, <1>2, <1>3, <1>6, ServerFrame DEF Contract!Reply, Contract!clientSide

LEMMA UnrequestedReplies ==
  ASSUME TypeInv, ReplyInv, Drain, UNCHANGED cfg, ServerStep, At("reply"),
         SendOk(Srv(conn), Unrequested), Goto("shutdown")
  PROVE  Contract!Reply
<1>1. /\ conn \in Clients /\ conn # NoClient /\ spc = "reply" /\ LocalClient \notin killed
      /\ UNCHANGED <<conn, sret, killed, read>> /\ spc' = "shutdown"
      /\ rst[Srv(conn)] # "reported"
  BY ServerAssumption DEF At, Goto, SendOk, TypeInv, ServerInv, Holding
<1>2. Phase = "serving" /\ Phase' = "serving"
  BY <1>1, PhaseValues, PhaseValuesNext DEF Ending
<1>3. /\ ServerMode = 2 /\ sent[Srv(conn)] = <<>>
      /\ Srv(conn) \in Endpoints /\ Peer(Srv(conn)) = Cli(conn)
  BY <1>1, EndpointFacts DEF ReplyInv, Replying
<1>4. read[Srv(conn)] = Len(sent[Cli(conn)]) /\ fin[Cli(conn)]
  <2>1. Complete
    BY <1>1, <1>3 DEF Drain
  <2>2. read[Srv(conn)] \in Nat /\ Len(sent[Cli(conn)]) \in Nat
    BY <1>1, <1>3, EndpointFacts DEF TypeInv, KernelInv, KernelTypeOK
  <2> QED BY <1>3, <2>1, <2>2 DEF Complete, Unread
<1>5. sent'[Srv(conn)] = Unrequested
  <2>1. sent'[Srv(conn)] = sent[Srv(conn)] \o Unrequested
    BY <1>3, SendOkInv, ServerAssumption DEF TypeInv
  <2> QED BY <1>3, <2>1, ServerAssumption
<1> QED
  BY <1>1, <1>2, <1>3, <1>4, <1>5, ServerFrame
     DEF Contract!Reply, Contract!Complete, Contract!clientSide

LEMMA ShutdownFinishes ==
  ASSUME TypeInv, ReplyInv, Drain, UNCHANGED cfg, ServerStep, At("shutdown"),
         ShutdownOk(Srv(conn)), Goto("dtorListen")
  PROVE  Contract!Finish
<1>1. /\ conn \in Clients /\ conn # NoClient /\ spc = "shutdown" /\ LocalClient \notin killed
      /\ UNCHANGED <<conn, sret, killed, read, sent>> /\ spc' = "dtorListen"
      /\ rst[Srv(conn)] # "reported" /\ Peer(Srv(conn)) = Cli(conn)
  BY ServerAssumption, ValidServer, EndpointFacts DEF At, Goto, ShutdownOk
<1>2. Phase = "serving" /\ Phase' = "over"
  BY <1>1, PhaseValues, PhaseValuesNext DEF Ending
<1>3. ServerMode = 1 => Len(sent[Srv(conn)]) = read[Srv(conn)]
  BY <1>1 DEF ReplyInv, Replying
<1>4. ServerMode = 2 => sent[Srv(conn)] = Unrequested
  BY <1>1 DEF Drain
<1>5. ServerMode \in {1, 2, 5} => read[Srv(conn)] = Len(sent[Cli(conn)]) /\ fin[Cli(conn)]
  <2>1. ServerMode \in {1, 2, 5} => Complete
    BY <1>1 DEF Drain
  <2>2. read[Srv(conn)] \in Nat /\ Len(sent[Cli(conn)]) \in Nat
    BY <1>1, EndpointFacts DEF TypeInv, KernelInv, KernelTypeOK
  <2> QED BY <1>1, <2>1, <2>2 DEF Complete, Unread
<1> QED
  BY <1>1, <1>2, <1>3, <1>4, <1>5, ServerFrame
     DEF Contract!Finish, Contract!Complete, Contract!clientSide, Contract!exchange

LEMMA ServerStepContract ==
  ASSUME TypeInv, TypeInv', ReplyInv, ReplyInv', Drain, UNCHANGED cfg, ServerStep
  PROVE  [Contract!Next]_Contract!contractVars
<1> USE DEF Contract!Next
\* Giving up after a call that moved no bytes.
<1>1. ASSUME ReturnError, UNCHANGED <<sent, read>> PROVE Contract!Fail
  BY <1>1, PhaseValuesNext, ServerFails DEF ReturnError, Ending, Failed
\* Going on after such a call.
<1>2. ASSUME UNCHANGED <<conn, sent, read, sret, killed>>, Phase' = Phase
      PROVE  UNCHANGED Contract!contractVars
  BY <1>2, ServerStutters
<1>3. /\ CallFails => UNCHANGED <<sent, read, killed>>
      /\ \A x : \/ SendFails(x, SigPipe) \/ RecvFails(x) \/ RecvEof(x) \/ ShutdownFails(x)
                \/ InvalidCall(x) \/ CloseCall(x)
           => UNCHANGED <<sent, read, killed>>
  BY DEF CallFails, InvalidCall, SendFails, RecvFails, RecvEof, ShutdownFails, CloseCall,
         CloseOpen, ReportReset, kernelVars
<1>4. CASE ServerApplication
  <2>1. /\ conn = NoClient /\ spc = "start" /\ LocalClient \notin killed
        /\ UNCHANGED <<conn, sret, kernelVars>>
        /\ spc' \in Ending \/ spc' = "resolve"
    BY <1>4 DEF ServerApplication, At, Goto, TypeInv, ServerInv, Opening, Ending
  <2>2. UNCHANGED <<sent, read, killed>>
    BY <2>1 DEF kernelVars
  <2>3. Phase = "closed"
    BY <2>1, PhaseValues DEF Unheard
  <2>4. CASE spc' = "resolve"
    <3>1. Phase' = "closed"
      BY <2>1, <2>2, <2>4, PhaseValuesNext DEF Unheard
    <3> QED BY <1>2, <2>1, <2>2, <2>3, <3>1
  <2>5. CASE spc' \in Ending
    <3>1. Phase' = "over"
      BY <2>5, PhaseValuesNext
    <3>2. Contract!Skip
      BY <2>1, <2>2, <2>3, <3>1, ServerFrame
         DEF Contract!Skip, Contract!clientSide, Contract!exchange
    <3> QED BY <3>2
  <2> QED BY <2>1, <2>4, <2>5
<1>5. CASE Setup
  <2>1. /\ conn = NoClient /\ spc \in Unheard /\ LocalClient \notin killed
        /\ UNCHANGED <<conn, sent, read, killed>>
        /\ \/ ReturnError
           \/ sret' = sret /\ spc' \in Unheard \cup {"accept"}
    BY <1>3, <1>5
       DEF Setup, SetupStep, ListenerBecomes, At, Goto, ReturnError, TypeInv, ServerInv, Opening,
           Unheard
  <2>2. Phase = "closed"
    BY <2>1, PhaseValues
  <2>3. CASE sret' = sret /\ spc' \in Unheard
    <3>1. Phase' = "closed"
      BY <2>1, <2>3, PhaseValuesNext
    <3> QED BY <1>2, <2>1, <2>2, <2>3, <3>1
  <2>4. CASE sret' = sret /\ spc' = "accept"
    <3>1. Phase' = "open"
      BY <2>1, <2>4, PhaseValuesNext DEF Expecting
    <3>2. Contract!Open
      BY <2>1, <2>2, <2>4, <3>1, ServerFrame
         DEF Contract!Open, Contract!clientSide, Contract!exchange
    <3> QED BY <3>2
  <2> QED BY <1>1, <2>1, <2>3, <2>4
<1>6. CASE AcceptFails
  <2>1. /\ conn = NoClient /\ spc = "accept" /\ LocalClient \notin killed
        /\ UNCHANGED <<conn, sent, read, killed>>
        /\ ReturnError \/ Goto("closeListen")
    BY <1>3, <1>6 DEF AcceptFails, At, Goto, ReturnError, TypeInv, ServerInv, Opening
  <2>2. CASE Goto("closeListen")
    <3>1. Phase = "open" /\ Phase' = "open" /\ sret' = sret
      BY <2>1, <2>2, PhaseValues, PhaseValuesNext DEF Expecting, Goto
    <3> QED BY <1>2, <2>1, <3>1
  <2> QED BY <1>1, <2>1, <2>2
<1>7. ASSUME NEW c \in Clients, Accept(c) PROVE Contract!Accept
  <2>1. /\ conn = NoClient /\ conn' = c /\ conn' # NoClient /\ spc = "accept"
        /\ spc' = "closeListen" /\ LocalClient \notin killed
        /\ UNCHANGED <<sent, read, killed, sret>>
    BY <1>7, ServerAssumption DEF Accept, AcceptCall, At, TypeInv, ServerInv, Opening
  <2>2. Phase = "open" /\ Phase' = "serving"
    BY <2>1, PhaseValues, PhaseValuesNext DEF Expecting, Ending
  <2>3. read'[Srv(c)] = 0 /\ sent'[Srv(c)] = <<>>
    BY <2>1, ServerAssumption DEF ReplyInv, Untouched
  <2> QED
    BY <2>1, <2>2, <2>3, ServerFrame
       DEF Contract!Accept, Contract!clientSide, Contract!exchange
\* Steps between the first and the last call of an exchange, with a client
\* or on INVALID_SOCKET.
<1>8. ASSUME UNCHANGED <<conn, sent, read, sret, killed>>, LocalClient \notin killed,
             spc \notin Ending, spc' \notin Ending,
             conn = NoClient => spc \in Expecting /\ spc' \in Expecting
      PROVE  UNCHANGED Contract!contractVars
  <2>1. conn \in Clients \/ conn = NoClient
    BY DEF TypeInv, ServerInv, ServerTypeOK
  <2>2. Phase' = Phase
    BY <1>8, <2>1, PhaseValues, PhaseValuesNext
  <2> QED BY <1>2, <1>8, <2>2
<1>9. CASE CloseListen
  <2>1. spc' \in {"shutdown", "select", "recv"}
    BY <1>9 DEF CloseListen, ModeOperation
  <2> QED
    BY <1>8, <1>9, <2>1 DEF CloseListen, CloseListenerCall, At, Expecting, Ending
<1>10. CASE \E n \in RecvSizes :
              Mode1Recv(n) \/ Mode2Recv(n) \/ Mode3Receive(n) \/ Mode5Receive(n)
  BY <1>10, ReceivingTakes
<1>11. CASE Mode1Eof \/ Mode2Eof \/ Mode5Eof
  <2>1. RecvEof(Srv(conn))
    BY <1>11 DEF Mode1Eof, Mode2Eof, Mode5Eof
  <2>2. conn \in Clients /\ conn # NoClient
    BY <2>1, ValidServer, ServerAssumption DEF RecvEof
  <2> QED
    BY <1>3, <1>8, <1>11, <2>1, <2>2 DEF Mode1Eof, Mode2Eof, Mode5Eof, At, Goto, Ending
<1>12. CASE RecvError
  BY <1>1, <1>3, <1>12 DEF RecvError
<1>13. CASE Mode1Echo
  <2>1. CASE SendOk(Srv(conn), EchoBytes) /\ Goto("recv")
    BY <1>13, <2>1, EchoReplies DEF Mode1Echo
  <2>2. CASE SendFails(Srv(conn), SigPipe) /\ ReturnError
    BY <1>1, <1>3, <2>2
  <2> QED BY <1>13, <2>1, <2>2 DEF Mode1Echo
<1>14. CASE Mode2Reply
  <2>1. CASE SendOk(Srv(conn), Unrequested) /\ Goto("shutdown")
    BY <1>14, <2>1, UnrequestedReplies DEF Mode2Reply
  <2>2. CASE SendFails(Srv(conn), SigPipe) /\ ReturnError
    BY <1>1, <1>3, <2>2
  <2> QED BY <1>14, <2>1, <2>2 DEF Mode2Reply
<1>15. CASE ServerSigPipe
  <2>1. LocalClient \in killed' /\ UNCHANGED <<conn, sent, read>>
    BY <1>15 DEF ServerSigPipe, SendKills, serverVars
  <2>2. Phase' = "over" /\ Failed'
    BY <2>1, PhaseValuesNext DEF Failed
  <2> QED BY <2>1, <2>2, ServerFails
<1>16. CASE Mode3Ends
  BY <1>3, <1>8, <1>16 DEF Mode3Ends, At, Goto, Expecting, Ending
<1>17. CASE SelectReady \/ SelectTimeout \/ SelectFails
  <2>1. SelectReady => conn \in Clients /\ conn # NoClient
    BY ValidServer, ServerAssumption DEF SelectReady, Readable
  <2> QED
    BY <1>3, <1>8, <1>17, <2>1
       DEF SelectReady, SelectTimeout, SelectFails, At, Goto, serverVars, kernelVars, Expecting,
           Ending
<1>18. CASE Mode5Error
  <2>1. conn \in Clients /\ conn # NoClient
    BY <1>18, ServerAssumption DEF Mode5Error, At, TypeInv, ServerInv, Holding
  <2> QED BY <1>3, <1>8, <1>18, <2>1 DEF Mode5Error, At, Goto, Ending
<1>19. CASE ServerShutdown
  <2>1. CASE ShutdownOk(Srv(conn)) /\ Goto("dtorListen")
    BY <1>19, <2>1, ShutdownFinishes DEF ServerShutdown
  <2>2. CASE ShutdownFails(Srv(conn)) /\ ReturnError
    BY <1>1, <1>3, <2>2
  <2> QED BY <1>19, <2>1, <2>2 DEF ServerShutdown
<1>20. CASE DtorListen \/ DtorClient
  <2>1. /\ spc \in Ending /\ spc' \in Ending
        /\ UNCHANGED <<conn, sent, read, sret, killed>>
    BY <1>3, <1>20 DEF DtorListen, DtorClient, CloseListenerCall, At, Goto, Ending
  <2>2. Phase' = Phase
    BY <2>1, PhaseValues, PhaseValuesNext
  <2> QED BY <1>2, <2>1, <2>2
<1> QED
  BY <1>4, <1>5, <1>6, <1>7, <1>9, <1>10, <1>11, <1>12, <1>13, <1>14, <1>15, <1>16, <1>17, <1>18,
     <1>19, <1>20
     DEF ServerStep

\* A client's own SIGPIPE ends the server with it, if they are one process.
LEMMA LocalClientDies ==
  ASSUME TypeInv, UNCHANGED <<cfg, serverVars>>, ClientSigPipe(LocalClient)
  PROVE  Contract!Fail
<1>1. LocalClient \in killed' /\ UNCHANGED <<sent, read, fin, conn, sret>>
  BY DEF ClientSigPipe, SendKills, serverVars
<1>2. Phase' = "over"
  BY <1>1, PhaseValuesNext
<1> QED
  BY <1>1, <1>2
     DEF Contract!Fail, Contract!clientSide, Contract!exchange, ServerMode, Mode, serverVars

LEMMA ClientStepContract ==
  ASSUME TypeInv, TypeInv', StreamsGrow, Lasting, NEW c \in Clients, ClientThread(c)
  PROVE  Contract!Next
<1>1. CASE ClientSigPipe(c) /\ c = LocalClient
  BY <1>1, LocalClientDies DEF ClientThread, Contract!Next
<1>2. CASE ~(ClientSigPipe(c) /\ c = LocalClient)
  <2>1. LocalClient \in killed' => LocalClient \in killed
    <3>1. CASE ClientSigPipe(c)
      BY <1>2, <3>1 DEF ClientSigPipe, SendKills
    <3>2. CASE ~ClientSigPipe(c)
      BY <3>2
         DEF ClientThread, ClientStep, ClientApplication, SetupResolve, SetupSocketFails,
             SetupConnect, SetupRefused, ClientSend, ClientSendFails, ClientShutdown,
             ClientRecv, ClientRecvEnds, ClientClose, ClientDtor,
             kernelVars, CallFails, InvalidCall, ConnectCall, SendOk, SendFails,
             ReportReset, RecvData, ShutdownOk, ShutdownFails, RecvEof, RecvFails,
             CloseCall, CloseOpen
    <3> QED BY <3>1, <3>2
  <2>2. ServerEndsKept
    BY ClientKeepsServerEnds DEF ClientThread
  <2>3. Contract!ClientActs
    BY <2>1, <2>2, OthersAct DEF ClientThread, serverVars
  <2> QED BY <2>3 DEF Contract!Next
<1> QED BY <1>1, <1>2

LEMMA ContractInit == Init => Contract!Init
<1> SUFFICES ASSUME Init PROVE Contract!Init
  OBVIOUS
<1>1. /\ spc = "idle" /\ conn = NoClient /\ sret = 0 /\ killed = {}
      /\ \A x \in Endpoints : sent[x] = <<>> /\ fin[x] = FALSE
  BY DEF Init, ServerInit, KernelInit
<1>2. Phase = "closed"
  BY <1>1, PhaseValues DEF Unheard
<1>3. ServerMode \in 1..5
  BY TypeInvInit, TestBedAssumption
     DEF TypeInv, ConfigTypeOK, ServerMode, Mode, OopModes
<1>4. \A c \in Clients : sent[Cli(c)] = <<>> /\ fin[Cli(c)] = FALSE
  BY <1>1, EndpointFacts
<1>5. (sret = 1 \/ LocalClient \in killed) = FALSE
  BY <1>1
<1>6. /\ (IF conn = NoClient THEN 0 ELSE read[Srv(conn)]) = 0
      /\ (IF conn = NoClient THEN <<>> ELSE sent[Srv(conn)]) = <<>>
  BY <1>1
<1>7. /\ [c \in Clients |-> sent[Cli(c)]] = [c \in Clients |-> <<>>]
      /\ [c \in Clients |-> fin[Cli(c)]] = [c \in Clients |-> FALSE]
  BY <1>4
<1> QED BY <1>1, <1>2, <1>3, <1>5, <1>6, <1>7 DEF Contract!Init

LEMMA ContractStep ==
  TypeInv /\ ReplyInv /\ DrainInv /\ [Next]_vars => [Contract!Next]_Contract!contractVars
<1> SUFFICES ASSUME TypeInv, ReplyInv, DrainInv, [Next]_vars
             PROVE  [Contract!Next]_Contract!contractVars
  OBVIOUS
<1>0. TypeInv' /\ StreamsGrow /\ ReplyInv'
  BY TypeInvStep, ReplyInvStep
<1>1. CASE UNCHANGED vars
  BY <1>1
     DEF vars, serverVars, clientVars, kernelVars, Contract!contractVars, Contract!clientSide,
         Contract!exchange, ServerMode, Mode, Phase
<1>2. CASE Next
  <2>0. Lasting
    BY <1>2, NextCalls, CallsLast DEF TypeInv, DrainInv
  <2>1. CASE ServerThread
    BY <1>0, <2>1, ServerStepContract DEF ServerThread, DrainInv
  <2>2. ASSUME NEW c \in Clients, ClientThread(c) PROVE Contract!Next
    BY <1>0, <2>0, <2>2, ClientStepContract
  <2>3. ASSUME UNCHANGED <<cfg, conn, sret, sent, read, killed>>,
               spc' = spc \/ (spc = "idle" /\ spc' = "start")
        PROVE  Contract!Next
    BY <1>0, <2>0, <2>3, OthersAct DEF ServerEndsKept, Contract!Next
  <2>4. CASE Main
    <3>1. spc' = spc \/ (spc = "idle" /\ spc' = "start")
      BY <2>4 DEF Main, SpawnServer, SpawnClient, JoinServer, JoinClient, MainAt, Goto,
                  serverVars, TypeInv
    <3> QED
      BY <2>3, <2>4, <3>1
         DEF Main, SpawnServer, SpawnClient, JoinServer, JoinClient, Goto, serverVars, kernelVars
  <2>5. CASE Network
    BY <2>3, <2>5 DEF Network, DeliverRst, serverVars
  <2>6. ASSUME NEW c \in Clients, StartRemote(c) \/ Reap(c) PROVE Contract!Next
    BY <2>3, <2>6
       DEF StartRemote, Reap, CloseCall, CloseOpen, InvalidCall, CloseListenerCall, serverVars,
           kernelVars
  <2> QED BY <1>2, <2>1, <2>2, <2>4, <2>5, <2>6 DEF Next
<1> QED BY <1>1, <1>2

\* Threads, buffers, closes and resets of the demo do nothing the abstract
\* server would not: it opens once, serves one client, replies what the mode
\* says and finishes, or fails.
THEOREM ContractImplemented == Spec => ImplementsContract
<1>1. Init => Contract!Init
  BY ContractInit
<1>2. TypeInv /\ ReplyInv /\ DrainInv /\ [Next]_vars => [Contract!Next]_Contract!contractVars
  BY ContractStep
<1> QED BY <1>1, <1>2, DrainCorrect, PTL DEF Spec, ImplementsContract, Contract!SafeSpec
===============================================================================
