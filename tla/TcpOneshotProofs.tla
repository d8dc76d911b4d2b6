---------------------------- MODULE TcpOneshotProofs ---------------------------
(* Theorems about the TCP demo without classes, for any mix of the C, the   *)
(* C++ and the Python programs on any set of clients, any text, any size of *)
(* the buffers, any garbage on a stack and any number of failing calls.     *)
EXTENDS TcpOneshot, TcpKernelProofs, ReceptionBufferProofs

Opening == {"idle", "start", "resolve", "socket", "bind", "listen", "accept"}
ClientOpening == {"idle", "start", "resolve", "connect", "send"}

\* The bytes received last, at the front of a buffer, are payload.
IOInv == /\ IOTypeOK
         /\ \A x \in Endpoints : \A i \in 1..got[x] : buf[x][i] \in Byte

\* An accept that fails unnoticed leaves the server without a client, but
\* there is one where bytes are to be echoed.
ServerInv == /\ ServerTypeOK
             /\ spc \in Opening => conn = NoClient
             /\ spc = "echo" => conn \in Clients

\* A client sends its text, whole, or nothing.
ClientInv == /\ ClientTypeOK
             /\ \A c \in Clients : /\ sent[Cli(c)] \in {<<>>, Text}
                                   /\ cpc[c] \in ClientOpening => sent[Cli(c)] = <<>>

MainInv == /\ mpc \in MainPcs
           /\ mpc = "spawnServer" => spc = "idle"
           /\ mpc \in {"spawnServer", "spawnClient"} => cpc[LocalClient] = "idle"

TypeInv == ConfigTypeOK /\ KernelInv /\ IOInv /\ ServerInv /\ ClientInv /\ MainInv

-------------------------------------------------------------------------------
(* What a recv does to the buffer and the printout of an end. *)

LEMMA RecvAndPrintFacts ==
  ASSUME KernelInv, IOInv, NEW x \in Endpoints, NEW n \in WholeBuffer, RecvAndPrint(x, n)
  PROVE  /\ KernelInv' /\ StreamsGrow /\ UNCHANGED sent /\ IOInv'
         /\ n \in Nat /\ n > 0
         /\ read' = [read EXCEPT ![x] = read[x] + n]
         /\ got' = [got EXCEPT ![x] = n]
         /\ \E old \in Before(x) :
              LET b == Overwrite(old, Chunk(x, n)) IN
              /\ old \in Buffers
              /\ buf' = [buf EXCEPT ![x] = b]
              /\ log' = [log EXCEPT ![x] = Printed(x, Chunk(x, n), b)]
              /\ overrun' = IF Terminated(b) \/ ProgramAt(x) = "python" THEN overrun
                            ELSE overrun \cup {x}
         /\ \A i \in 1..n : buf'[x][i] = sent[Peer(x)][read[x] + i]
<1>1. n \in Nat /\ n > 0 /\ n \in 0..BufSize
  BY BufferAssumption DEF WholeBuffer
<1>2. RecvData(x, n)
  BY DEF RecvAndPrint
<1>3. /\ KernelInv' /\ StreamsGrow /\ UNCHANGED sent
      /\ read' = [read EXCEPT ![x] = read[x] + n]
      /\ Chunk(x, n) \in [1..n -> Byte]
      /\ \A i \in 1..n : Chunk(x, n)[i] = sent[Peer(x)][read[x] + i]
  BY <1>1, <1>2, RecvDataInv
<1>4. PICK old \in Before(x) :
         /\ buf' = [buf EXCEPT ![x] = Overwrite(old, Chunk(x, n))]
         /\ log' = [log EXCEPT ![x] = Printed(x, Chunk(x, n), Overwrite(old, Chunk(x, n)))]
         /\ overrun' = IF Terminated(Overwrite(old, Chunk(x, n))) \/ ProgramAt(x) = "python"
                       THEN overrun ELSE overrun \cup {x}
  BY DEF RecvAndPrint
<1>5. got' = [got EXCEPT ![x] = n]
  BY DEF RecvAndPrint
<1>6. old \in Buffers
  BY <1>4, OneshotAssumption DEF Before, IOInv, IOTypeOK
<1>7. /\ Chunk(x, n) \in Seq(Byte)
      /\ Overwrite(old, Chunk(x, n)) \in Buffers
      /\ \A i \in 1..n : Overwrite(old, Chunk(x, n))[i] = Chunk(x, n)[i]
      /\ \A i \in 1..n : Chunk(x, n)[i] \in Byte
  BY <1>3, <1>6, OverwriteFacts
<1>8. Printed(x, Chunk(x, n), Overwrite(old, Chunk(x, n))) \in Seq(Byte)
  BY <1>3, <1>6, <1>7, CStringShows DEF Printed
<1>9. IOTypeOK'
  BY <1>1, <1>4, <1>5, <1>7, <1>8 DEF IOInv, IOTypeOK
<1>10. buf'[x] = Overwrite(old, Chunk(x, n))
  BY <1>4 DEF IOInv, IOTypeOK
<1>11. ASSUME NEW y \in Endpoints, NEW i \in 1..got'[y] PROVE buf'[y][i] \in Byte
  <2>1. CASE y = x
    BY <1>5, <1>7, <1>10, <2>1 DEF IOInv, IOTypeOK
  <2>2. CASE y # x
    BY <1>4, <1>5, <2>2 DEF IOInv, IOTypeOK
  <2> QED BY <2>1, <2>2
<1>12. IOInv'
  BY <1>9, <1>11 DEF IOInv
<1> QED
  BY <1>1, <1>3, <1>4, <1>5, <1>6, <1>7, <1>10, <1>12

LEMMA IOUnchanged == IOInv /\ UNCHANGED ioVars => IOInv'
BY DEF IOInv, IOTypeOK, ioVars

LEMMA FrontType ==
  ASSUME IOInv, NEW x \in Endpoints
  PROVE  /\ Front(x) \in Seq(Byte) /\ Len(Front(x)) = got[x] /\ got[x] \in Nat
         /\ \A i \in 1..got[x] : Front(x)[i] = buf[x][i]
BY BufferAssumption DEF IOInv, IOTypeOK, Front

-------------------------------------------------------------------------------
(* The server thread. *)

LEMMA ServerUnchanged == ServerInv /\ UNCHANGED serverVars => ServerInv'
BY DEF ServerInv, ServerTypeOK, serverVars

LEMMA GotoInv ==
  ASSUME ServerInv, NEW pc \in ServerPcs \ {"echo"}, Goto(pc), pc \in Opening => conn = NoClient
  PROVE  ServerInv'
BY DEF Goto, ServerInv, ServerTypeOK

LEMMA ReturnErrorInv ==
  ASSUME ServerInv, NEW pc \in {"closeListen", "close", "done"}, ReturnError(pc)
  PROVE  ServerInv'
BY DEF ReturnError, ServerInv, ServerTypeOK, ServerPcs, Opening

LEMMA OpeningInv ==
  ASSUME KernelInv, ServerInv,
         \/ ServerApplication \/ ServerResolve \/ ServerSocket \/ ServerBind \/ ServerListen
         \/ \E c \in Clients : ServerAccept(c)
         \/ ServerAcceptFails
  PROVE  KernelInv' /\ StreamsGrow /\ ServerInv' /\ UNCHANGED <<sent, read, ioVars>>
<1>1. /\ spc \in {"start", "resolve", "socket", "bind", "listen", "accept"}
      /\ conn = NoClient
      /\ UNCHANGED ioVars
  BY DEF ServerApplication, ServerResolve, ServerSocket, ServerBind, ServerListen, ServerOpens,
         ServerAccept, ServerAcceptFails, At, ServerInv, Opening
<1>2. ASSUME NEW pc \in ServerPcs \ {"echo"}, Goto(pc) PROVE ServerInv'
  BY <1>1, <1>2, GotoInv
<1>3. KernelInv /\ (UNCHANGED kernelVars \/ CallFails) =>
         KernelInv' /\ StreamsGrow /\ UNCHANGED <<sent, read>>
  BY UnchangedInv, CallFailsInv DEF kernelVars, CallFails
<1>4. ASSUME NEW state \in ListenerStates, ListenerBecomes(state)
      PROVE  KernelInv' /\ StreamsGrow /\ UNCHANGED <<sent, read>>
  BY <1>4, ListenerBecomesInv DEF ListenerBecomes
<1>5. CASE ServerApplication
  BY <1>1, <1>2, <1>3, <1>5 DEF ServerApplication, ServerPcs
<1>6. CASE ServerResolve
  BY <1>1, <1>2, <1>3, <1>6, ReturnErrorInv DEF ServerResolve, ServerPcs
<1>7. CASE ServerSocket
  BY <1>1, <1>2, <1>3, <1>4, <1>7, ReturnErrorInv DEF ServerSocket, ServerPcs, ListenerStates
<1>8. CASE ServerBind \/ ServerListen
  BY <1>1, <1>2, <1>3, <1>4, <1>8, ReturnErrorInv
     DEF ServerBind, ServerListen, ServerOpens, ServerPcs, ListenerStates
<1>9. CASE \E c \in Clients : ServerAccept(c)
  <2>1. PICK c \in Clients : ServerAccept(c)
    BY <1>9
  <2>2. ServerInv'
    BY <2>1 DEF ServerAccept, ServerInv, ServerTypeOK, ServerPcs, Opening
  <2> QED BY <1>1, <2>1, <2>2, AcceptInv DEF ServerAccept, AcceptCall
<1>10. CASE ServerAcceptFails
  BY <1>1, <1>2, <1>3, <1>10, ReturnErrorInv DEF ServerAcceptFails, ServerPcs
<1> QED BY <1>5, <1>6, <1>7, <1>8, <1>9, <1>10

LEMMA ServerRecvInv ==
  ASSUME KernelInv, IOInv, ServerInv, NEW n \in WholeBuffer, ServerRecv(n)
  PROVE  /\ KernelInv' /\ StreamsGrow /\ ServerInv' /\ IOInv' /\ UNCHANGED sent
         /\ conn \in Clients
<1>1. conn \in Clients /\ Srv(conn) \in Endpoints
  BY ValidServer DEF ServerRecv, RecvAndPrint, RecvData
<1>2. KernelInv' /\ StreamsGrow /\ IOInv' /\ UNCHANGED sent
  BY <1>1, RecvAndPrintFacts DEF ServerRecv
<1>3. ServerInv'
  BY <1>1 DEF ServerRecv, Goto, ServerInv, ServerTypeOK, ServerPcs, Opening
<1> QED BY <1>1, <1>2, <1>3

LEMMA ServerEchoInv ==
  ASSUME KernelInv, IOInv, ServerInv, ServerEcho \/ ServerSigPipe
  PROVE  KernelInv' /\ StreamsGrow /\ ServerInv' /\ UNCHANGED <<read, ioVars>>
<1>1. conn \in Clients /\ Srv(conn) \in Endpoints
  BY EndpointFacts DEF ServerEcho, ServerSigPipe, At, ServerInv
<1>2. CASE ServerEcho
  <2>1. CASE SendOk(Srv(conn), Front(Srv(conn))) /\ Goto("recv")
    BY <1>1, <1>2, <2>1, FrontType, SendOkInv, GotoInv
       DEF ServerEcho, SendOk, ServerPcs, Opening
  <2>2. CASE SendFailsIn(LocalClient, Srv(conn)) /\ ReturnError("close")
    BY <1>2, <2>2, SendFailsInv, ReturnErrorInv
       DEF ServerEcho, SendFailsIn, SendFails, CallFails, InvalidCall, ReportReset, kernelVars
  <2> QED BY <1>2, <2>1, <2>2 DEF ServerEcho
<1>3. CASE ServerSigPipe
  BY <1>1, <1>3, SendKillsInv, ServerUnchanged, TestBedAssumption
     DEF ServerSigPipe, SendKills
<1> QED BY <1>2, <1>3

LEMMA ServerEndInv ==
  ASSUME KernelInv, ServerInv,
         ServerCloseListen \/ ServerEof \/ ServerRecvFails \/ ServerShutdown \/ ServerClose
  PROVE  KernelInv' /\ StreamsGrow /\ ServerInv' /\ UNCHANGED <<sent, read, ioVars>>
<1>1. ASSUME NEW pc \in {"recv", "shutdown", "close", "done"}, Goto(pc) PROVE ServerInv'
  BY <1>1, GotoInv DEF ServerPcs, Opening
<1>2. CASE ServerCloseListen
  BY <1>1, <1>2, CloseListenerInv DEF ServerCloseListen, CloseListenerCall
<1>3. CASE ServerEof
  BY <1>1, <1>3, RecvEofInv DEF ServerEof, AfterEof, RecvEof, kernelVars
<1>4. CASE ServerRecvFails
  BY <1>4, RecvFailsInv, ReturnErrorInv
     DEF ServerRecvFails, RecvFails, CallFails, InvalidCall, ReportReset, kernelVars
<1>5. CASE ServerShutdown
  BY <1>1, <1>5, ShutdownOkInv, ShutdownFailsInv, ReturnErrorInv
     DEF ServerShutdown, ShutdownOk, ShutdownFails, CallFails, InvalidCall, kernelVars
<1>6. CASE ServerClose
  BY <1>1, <1>6, CloseInv DEF ServerClose, CloseCall, CloseOpen, InvalidCall, kernelVars
<1> QED BY <1>2, <1>3, <1>4, <1>5, <1>6

\* Every step of the server thread keeps its invariant, and sends nothing in
\* a client's name.
LEMMA ServerStepInv ==
  ASSUME KernelInv, IOInv, ServerInv, ServerStep
  PROVE  /\ KernelInv' /\ StreamsGrow /\ IOInv' /\ ServerInv'
         /\ \A c \in Clients : sent'[Cli(c)] = sent[Cli(c)]
         /\ spc # "idle"
<1>1. spc # "idle"
  BY DEF ServerStep, ServerApplication, ServerResolve, ServerSocket, ServerBind, ServerListen,
         ServerOpens, ServerAccept, ServerAcceptFails, ServerCloseListen, ServerRecv, ServerEcho,
         ServerSigPipe, ServerEof, ServerRecvFails, ServerShutdown, ServerClose, At
<1>2. CASE ServerEcho \/ ServerSigPipe
  <2>1. KernelInv' /\ StreamsGrow /\ IOInv' /\ ServerInv'
    BY <1>2, ServerEchoInv, IOUnchanged
  <2>2. \A c \in Clients : sent'[Cli(c)] = sent[Cli(c)]
    <3>1. CASE SendOk(Srv(conn), Front(Srv(conn)))
      <4>1. Srv(conn) \in Endpoints /\ Front(Srv(conn)) \in Seq(Byte)
        BY <3>1, ValidServer, FrontType DEF SendOk
      <4> QED BY <3>1, <4>1, SendOkInv, EndpointFacts
    <3>2. CASE ~SendOk(Srv(conn), Front(Srv(conn)))
      BY <1>2, <3>2
         DEF ServerEcho, ServerSigPipe, SendFailsIn, SendFails, SendKills, CallFails,
             InvalidCall, ReportReset, kernelVars
    <3> QED BY <3>1, <3>2
  <2> QED BY <1>1, <2>1, <2>2
<1>3. CASE \E n \in WholeBuffer : ServerRecv(n)
  BY <1>1, <1>3, ServerRecvInv
<1>4. CASE ~(ServerEcho \/ ServerSigPipe) /\ ~(\E n \in WholeBuffer : ServerRecv(n))
  BY <1>1, <1>4, OpeningInv, ServerEndInv, IOUnchanged DEF ServerStep
<1> QED BY <1>2, <1>3, <1>4

-------------------------------------------------------------------------------
(* The threads of the clients. *)

\* What a client does leaves the server's ends as they are.
ServerEndsKept ==
  \A d \in Clients : /\ sent'[Srv(d)] = sent[Srv(d)]
                     /\ read'[Srv(d)] = read[Srv(d)]
                     /\ got'[Srv(d)] = got[Srv(d)]
                     /\ buf'[Srv(d)] = buf[Srv(d)]

\* A step of a client that sends nothing.
LEMMA ClientMovesInv ==
  ASSUME ClientInv, UNCHANGED sent, NEW c \in Clients, NEW pc \in ClientPcs,
         pc \in ClientOpening => cpc[c] \in ClientOpening,
         \/ ClientGoto(c, pc)
         \/ \E v \in Verdicts : ClientEnds(c, pc, v)
  PROVE  ClientInv' /\ \A d \in Clients \ {c} : cpc'[d] = cpc[d]
BY DEF ClientGoto, ClientEnds, ClientInv, ClientTypeOK

LEMMA ClientUnchanged == ClientInv /\ UNCHANGED <<clientVars, sent>> => ClientInv'
BY DEF ClientInv, ClientTypeOK, clientVars

LEMMA ClientSendInv ==
  ASSUME KernelInv, ClientInv, NEW c \in Clients, ClientSend(c)
  PROVE  /\ KernelInv' /\ StreamsGrow /\ ClientInv'
         /\ UNCHANGED <<read, ioVars>>
         /\ \A d \in Clients : sent'[Srv(d)] = sent[Srv(d)]
         /\ \A d \in Clients \ {c} : cpc'[d] = cpc[d]
<1>1. /\ Cli(c) \in Endpoints /\ Text \in Seq(Byte) /\ UNCHANGED ioVars
      /\ cpc[c] = "send" /\ sent[Cli(c)] = <<>>
  BY EndpointFacts, ClientAssumption DEF ClientSend, ClientAt, ClientInv, ClientOpening
<1>2. CASE SendOk(Cli(c), Text) /\ ClientGoto(c, "shutdown")
  <2>1. /\ KernelInv' /\ StreamsGrow
        /\ sent'[Cli(c)] = sent[Cli(c)] \o Text
        /\ \A y \in Endpoints \ {Cli(c)} : sent'[y] = sent[y]
    BY <1>1, <1>2, SendOkInv
  <2>2. sent'[Cli(c)] = Text
    <3>1. <<>> \o Text = Text
      BY <1>1
    <3> QED BY <1>1, <2>1, <3>1
  <2>3. \A d \in Clients : /\ sent'[Srv(d)] = sent[Srv(d)]
                           /\ d # c => sent'[Cli(d)] = sent[Cli(d)]
    BY <2>1, EndpointFacts
  <2>4. ClientInv' /\ \A d \in Clients \ {c} : cpc'[d] = cpc[d]
    BY <1>2, <2>2, <2>3
       DEF ClientInv, ClientTypeOK, ClientGoto, ClientPcs, ClientOpening
  <2> QED BY <1>1, <1>2, <2>1, <2>3, <2>4 DEF SendOk
<1>3. CASE SendFailsIn(c, Cli(c)) /\ ClientEnds(c, "close", "error")
  <2>1. KernelInv' /\ StreamsGrow /\ UNCHANGED <<sent, read>>
    BY <1>3, SendFailsInv
       DEF SendFailsIn, SendFails, CallFails, InvalidCall, ReportReset, kernelVars
  <2>2. ClientInv' /\ \A d \in Clients \ {c} : cpc'[d] = cpc[d]
    BY <1>3, <2>1, ClientMovesInv DEF ClientPcs, ClientOpening, Verdicts
  <2> QED BY <1>1, <2>1, <2>2
<1> QED BY <1>2, <1>3 DEF ClientSend

LEMMA ClientRecvInv ==
  ASSUME KernelInv, IOInv, ClientInv, NEW c \in Clients, NEW n \in WholeBuffer, ClientRecv(c, n)
  PROVE  /\ KernelInv' /\ StreamsGrow /\ IOInv' /\ ClientInv' /\ ServerEndsKept
         /\ \A d \in Clients \ {c} : cpc'[d] = cpc[d]
<1>1. Cli(c) \in Endpoints /\ \A d \in Clients : Srv(d) \in Endpoints \ {Cli(c)}
  BY EndpointFacts
<1>2. RecvAndPrint(Cli(c), n)
  BY DEF ClientRecv
<1>3. /\ KernelInv' /\ StreamsGrow /\ IOInv' /\ UNCHANGED sent
      /\ read' = [read EXCEPT ![Cli(c)] = read[Cli(c)] + n]
      /\ got' = [got EXCEPT ![Cli(c)] = n]
      /\ \E b : buf' = [buf EXCEPT ![Cli(c)] = b]
  BY <1>1, <1>2, RecvAndPrintFacts
<1>4. ServerEndsKept
  BY <1>1, <1>3 DEF ServerEndsKept, KernelInv, KernelTypeOK, IOInv, IOTypeOK
<1>5. ClientInv' /\ \A d \in Clients \ {c} : cpc'[d] = cpc[d]
  BY <1>3, ClientMovesInv, ClientUnchanged
     DEF ClientRecv, ClientPcs, ClientOpening, Verdicts, clientVars
<1> QED BY <1>3, <1>4, <1>5

\* All but the send and a recv.
LEMMA ClientQuietInv ==
  ASSUME KernelInv, ClientInv, NEW c \in Clients,
         \/ ClientApplication(c) \/ ClientResolve(c) \/ ClientSocketFails(c)
         \/ ClientConnect(c) \/ ClientRefused(c) \/ ClientSigPipe(c)
         \/ ClientShutdown(c) \/ ClientRecvEnds(c) \/ ClientClose(c)
  PROVE  /\ KernelInv' /\ StreamsGrow /\ ClientInv'
         /\ UNCHANGED <<sent, read, ioVars>>
         /\ \A d \in Clients \ {c} : cpc'[d] = cpc[d]
<1>1. Cli(c) \in Endpoints
  BY EndpointFacts
<1>2. UNCHANGED kernelVars \/ CallFails =>
         KernelInv' /\ StreamsGrow /\ UNCHANGED <<sent, read>>
  BY UnchangedInv, CallFailsInv DEF kernelVars, CallFails
<1> USE DEF ClientPcs, ClientOpening, Verdicts
<1>3. CASE ClientApplication(c) \/ ClientResolve(c) \/ ClientSocketFails(c)
  <2>1. KernelInv' /\ StreamsGrow /\ UNCHANGED <<sent, read, ioVars>>
    BY <1>2, <1>3 DEF ClientApplication, ClientResolve, ClientSocketFails
  <2>2. cpc[c] \in {"start", "resolve", "connect"}
    BY <1>3 DEF ClientApplication, ClientResolve, ClientSocketFails, ClientAt
  <2> QED BY <1>3, <2>1, <2>2, ClientMovesInv
             DEF ClientApplication, ClientResolve, ClientSocketFails
<1>4. CASE ClientConnect(c)
  <2>1. KernelInv' /\ StreamsGrow /\ UNCHANGED <<sent, read, ioVars>> /\ cpc[c] = "connect"
    BY <1>4, ConnectInv DEF ClientConnect, ConnectCall, ClientAt
  <2> QED BY <1>4, <2>1, ClientMovesInv DEF ClientConnect
<1>5. CASE ClientRefused(c)
  <2>1. KernelInv' /\ StreamsGrow /\ UNCHANGED <<sent, read, ioVars>>
    BY <1>2, <1>5 DEF ClientRefused
  <2>2. CASE ClientEnds(c, "done", "unable")
    BY <2>1, <2>2, ClientMovesInv
  <2>3. CASE /\ attempt[c] < NumAddrs /\ attempt' = [attempt EXCEPT ![c] = attempt[c] + 1]
             /\ UNCHANGED <<cpc, verdict>>
    <3>1. attempt[c] + 1 \in 1..NumAddrs
      BY <2>3, ClientAssumption DEF ClientInv, ClientTypeOK
    <3> QED BY <2>1, <2>3, <3>1 DEF ClientInv, ClientTypeOK
  <2> QED BY <1>5, <2>2, <2>3 DEF ClientRefused
<1>6. CASE ClientSigPipe(c)
  <2>1. KernelInv' /\ StreamsGrow /\ UNCHANGED <<sent, read, ioVars, clientVars>>
    BY <1>1, <1>6, SendKillsInv DEF ClientSigPipe, SendKills
  <2> QED BY <2>1, ClientUnchanged DEF clientVars
<1>7. CASE ClientShutdown(c)
  <2>1. KernelInv' /\ StreamsGrow /\ UNCHANGED <<sent, read, ioVars>>
    BY <1>7, ShutdownOkInv, ShutdownFailsInv
       DEF ClientShutdown, ShutdownOk, ShutdownFails, CallFails, InvalidCall, kernelVars
  <2> QED BY <1>7, <2>1, ClientMovesInv DEF ClientShutdown
<1>8. CASE ClientRecvEnds(c)
  <2>1. KernelInv' /\ StreamsGrow /\ UNCHANGED <<sent, read, ioVars>>
    BY <1>8, RecvEofInv, RecvFailsInv
       DEF ClientRecvEnds, RecvEof, RecvFails, CallFails, InvalidCall, ReportReset, kernelVars
  <2> QED BY <1>8, <2>1, ClientMovesInv DEF ClientRecvEnds
<1>9. CASE ClientClose(c)
  <2>1. KernelInv' /\ StreamsGrow /\ UNCHANGED <<sent, read, ioVars>>
    BY <1>9, CloseInv DEF ClientClose, CloseCall, CloseOpen, InvalidCall, kernelVars
  <2> QED BY <1>9, <2>1, ClientMovesInv DEF ClientClose
<1> QED BY <1>3, <1>4, <1>5, <1>6, <1>7, <1>8, <1>9

LEMMA ClientStepInv ==
  ASSUME KernelInv, IOInv, ClientInv, NEW c \in Clients, ClientStep(c)
  PROVE  /\ KernelInv' /\ StreamsGrow /\ IOInv' /\ ClientInv' /\ ServerEndsKept
         /\ cpc[c] # "idle" /\ \A d \in Clients \ {c} : cpc'[d] = cpc[d]
<1>1. cpc[c] # "idle"
  BY DEF ClientStep, ClientApplication, ClientResolve, ClientSocketFails, ClientConnect,
         ClientRefused, ClientSend, ClientSigPipe, ClientShutdown, ClientRecv, ClientRecvEnds,
         ClientClose, ClientAt
<1>2. CASE ClientSend(c)
  BY <1>1, <1>2, ClientSendInv, IOUnchanged DEF ServerEndsKept, ioVars
<1>3. CASE \E n \in WholeBuffer : ClientRecv(c, n)
  BY <1>1, <1>3, ClientRecvInv
<1>4. CASE ~ClientSend(c) /\ ~(\E n \in WholeBuffer : ClientRecv(c, n))
  BY <1>1, <1>4, ClientQuietInv, IOUnchanged DEF ClientStep, ServerEndsKept, ioVars
<1> QED BY <1>2, <1>3, <1>4

-------------------------------------------------------------------------------
(* The whole demo. *)

LEMMA TypeInvInit == Init => TypeInv
<1> SUFFICES ASSUME Init PROVE TypeInv
  OBVIOUS
<1>1. ConfigTypeOK
  <2>1. PICK p \in [Clients -> ProgramsUsed], b \in [Clients -> BuildsUsed], t \in TypesUsed :
           cfg = [c \in Clients |->
                    [program |-> p[c],
                     type |-> IF c = LocalClient THEN t ELSE "CLIENT_ONLY",
                     build |-> IF p[c] = "python" THEN "unix" ELSE b[c]]]
    BY DEF Init, StartupCode
  <2>2. \A c \in Clients : p[c] \in Programs /\ b[c] \in Builds
    BY ConfigAssumption
  <2>3. t \in DemoTypes /\ "CLIENT_ONLY" \in DemoTypes /\ "unix" \in Builds
    BY ConfigAssumption DEF DemoTypes, Builds
  <2> QED BY <2>1, <2>2, <2>3 DEF ConfigTypeOK
<1>2. KernelInv
  BY KernelInitInv DEF Init
<1>3. IOInv
  BY BufferAssumption DEF Init, IOInit, IOInv, IOTypeOK, EmptyBuffer, Buffers
<1>4. ServerInv
  BY DEF Init, ServerInit, ServerInv, ServerTypeOK, ServerPcs
<1>5. ClientInv
  BY EndpointFacts, ClientAssumption
     DEF Init, ClientInit, KernelInit, ClientInv, ClientTypeOK, ClientPcs, Verdicts
<1>6. MainInv
  BY TestBedAssumption DEF Init, ServerInit, ClientInit, MainInv, MainPcs
<1> QED BY <1>1, <1>2, <1>3, <1>4, <1>5, <1>6 DEF TypeInv

LEMMA MainStep ==
  ASSUME TypeInv, Main
  PROVE  TypeInv' /\ StreamsGrow /\ UNCHANGED <<sent, read>>
<1>1. UNCHANGED <<cfg, ioVars>> /\ IOInv' /\ ConfigTypeOK'
  BY IOUnchanged DEF Main, TypeInv, ConfigTypeOK
<1>2. CASE SpawnServer
  <2>1. KernelInv' /\ StreamsGrow /\ UNCHANGED <<sent, read>> /\ ClientInv'
    BY <1>2, UnchangedInv, ClientUnchanged DEF SpawnServer, TypeInv, kernelVars
  <2>2. ServerInv'
    BY <1>2, GotoInv DEF SpawnServer, MainAt, TypeInv, MainInv, ServerInv, ServerPcs, Opening
  <2>3. MainInv'
    BY <1>2 DEF SpawnServer, MainAt, TypeInv, MainInv, MainPcs, clientVars
  <2> QED BY <1>1, <2>1, <2>2, <2>3 DEF TypeInv
<1>3. CASE SpawnClient
  <2>1. KernelInv' /\ StreamsGrow /\ UNCHANGED <<sent, read>> /\ ServerInv'
    BY <1>3, UnchangedInv, ServerUnchanged DEF SpawnClient, TypeInv, kernelVars
  <2>2. ClientInv'
    BY <1>3, <2>1, ClientMovesInv, TestBedAssumption
       DEF SpawnClient, MainAt, TypeInv, MainInv, ClientPcs, ClientOpening
  <2>3. MainInv'
    BY <1>3 DEF SpawnClient, MainAt, MainInv, MainPcs
  <2> QED BY <1>1, <2>1, <2>2, <2>3 DEF TypeInv
<1>4. CASE SpawnFails
  <2>1. KernelInv' /\ StreamsGrow /\ UNCHANGED <<sent, read>> /\ ServerInv'
    <3>1. /\ UNCHANGED <<listener, backlog, sock, sent, read, fin, rst, serverVars>>
          /\ faults' = faults + 1
          /\ killed' = killed \/ killed' = killed \cup {LocalClient}
      BY <1>4 DEF SpawnFails
    <3>2. KernelTypeOK'
      BY <3>1, TestBedAssumption DEF TypeInv, KernelInv, KernelTypeOK
    <3> QED BY <3>1, <3>2, SameStreams, ServerUnchanged DEF TypeInv, KernelInv
  <2>2. ClientInv'
    BY <1>4, <2>1, ClientMovesInv, ClientUnchanged, TestBedAssumption
       DEF SpawnFails, TypeInv, ClientPcs, ClientOpening
  <2>3. MainInv'
    BY <1>4 DEF SpawnFails, MainAt, MainInv, MainPcs
  <2> QED BY <1>1, <2>1, <2>2, <2>3 DEF TypeInv
<1>5. CASE JoinBoth
  <2>1. KernelInv' /\ StreamsGrow /\ UNCHANGED <<sent, read>> /\ ServerInv' /\ ClientInv'
    BY <1>5, UnchangedInv, ServerUnchanged, ClientUnchanged DEF JoinBoth, TypeInv, kernelVars
  <2>2. MainInv'
    BY <1>5 DEF JoinBoth, MainAt, MainInv, MainPcs
  <2> QED BY <1>1, <2>1, <2>2 DEF TypeInv
<1> QED BY <1>2, <1>3, <1>4, <1>5 DEF Main

LEMMA ServerThreadStep ==
  ASSUME TypeInv, ServerThread
  PROVE  TypeInv' /\ StreamsGrow
<1>1. /\ KernelInv' /\ StreamsGrow /\ IOInv' /\ ServerInv' /\ spc # "idle"
      /\ \A c \in Clients : sent'[Cli(c)] = sent[Cli(c)]
  BY ServerStepInv DEF ServerThread, TypeInv
<1>2. ClientInv'
  BY <1>1 DEF ServerThread, TypeInv, ClientInv, ClientTypeOK, clientVars
<1>3. MainInv'
  BY <1>1 DEF ServerThread, TypeInv, MainInv, clientVars
<1> QED BY <1>1, <1>2, <1>3 DEF ServerThread, TypeInv, ConfigTypeOK

LEMMA ClientThreadStep ==
  ASSUME TypeInv, NEW c \in Clients, ClientThread(c)
  PROVE  TypeInv' /\ StreamsGrow
<1>1. /\ KernelInv' /\ StreamsGrow /\ IOInv' /\ ClientInv'
      /\ cpc[c] # "idle" /\ \A d \in Clients \ {c} : cpc'[d] = cpc[d]
  BY ClientStepInv DEF ClientThread, TypeInv
<1>2. ServerInv'
  BY ServerUnchanged DEF ClientThread, TypeInv
<1>3. MainInv'
  BY <1>1, TestBedAssumption DEF ClientThread, TypeInv, MainInv, serverVars
<1> QED BY <1>1, <1>2, <1>3 DEF ClientThread, TypeInv, ConfigTypeOK

LEMMA EnvironmentStep ==
  ASSUME TypeInv, NEW c \in Clients, StartRemote(c) \/ Reap(c) \/ Network
  PROVE  TypeInv' /\ StreamsGrow /\ UNCHANGED <<sent, read>>
<1>1. UNCHANGED <<cfg, mpc, serverVars, ioVars>>
  BY DEF StartRemote, Reap, Network
<1>2. ConfigTypeOK' /\ ServerInv' /\ IOInv'
  BY <1>1, ServerUnchanged, IOUnchanged DEF TypeInv, ConfigTypeOK
<1>3. KernelInv' /\ StreamsGrow /\ UNCHANGED <<sent, read>>
  <2>1. CASE StartRemote(c)
    BY <2>1, UnchangedInv DEF StartRemote, TypeInv, kernelVars
  <2>2. CASE Reap(c)
    BY <2>2, CloseInv, CloseListenerInv
       DEF Reap, TypeInv, CloseCall, CloseOpen, InvalidCall, CloseListenerCall, kernelVars
  <2>3. CASE Network
    BY <2>3, DeliverRstInv DEF Network, DeliverRst, TypeInv
  <2> QED BY <2>1, <2>2, <2>3
<1>4. ClientInv' /\ cpc'[LocalClient] = cpc[LocalClient]
  <2>1. CASE StartRemote(c)
    BY <1>3, <2>1, ClientMovesInv, TestBedAssumption
       DEF StartRemote, TypeInv, ClientPcs, ClientOpening
  <2>2. CASE UNCHANGED clientVars
    BY <1>3, <2>2, ClientUnchanged DEF TypeInv, clientVars
  <2> QED BY <2>1, <2>2 DEF Reap, Network
<1>5. MainInv'
  BY <1>1, <1>4 DEF TypeInv, MainInv, serverVars
<1> QED BY <1>2, <1>3, <1>4, <1>5 DEF TypeInv

LEMMA TypeInvStep == TypeInv /\ [Next]_vars => TypeInv' /\ StreamsGrow
<1> SUFFICES ASSUME TypeInv, [Next]_vars PROVE TypeInv' /\ StreamsGrow
  OBVIOUS
<1>1. CASE UNCHANGED vars
  <2>1. UNCHANGED <<cfg, mpc, serverVars, clientVars, ioVars, kernelVars, sent>>
    BY <1>1 DEF vars, kernelVars
  <2>2. KernelInv' /\ StreamsGrow /\ IOInv' /\ ServerInv' /\ ClientInv'
    BY <2>1, UnchangedInv, IOUnchanged, ServerUnchanged, ClientUnchanged DEF TypeInv
  <2> QED BY <2>1, <2>2 DEF TypeInv, ConfigTypeOK, MainInv, serverVars, clientVars
<1>2. CASE Next
  BY <1>2, MainStep, ServerThreadStep, ClientThreadStep, EnvironmentStep, TestBedAssumption
     DEF Next
<1> QED BY <1>1, <1>2

\* Every variable keeps its type, whichever programs are paired: a recv into
\* the whole buffer stays within it, what is printed is text and never a
\* terminator, and no bytes are echoed to a client that does not exist.
THEOREM OneshotTypeSafety == Spec => []OneshotTypeOK
<1>1. Init => TypeInv
  BY TypeInvInit
<1>2. TypeInv /\ [Next]_vars => TypeInv'
  BY TypeInvStep
<1>3. TypeInv => OneshotTypeOK
  BY DEF TypeInv, OneshotTypeOK, KernelInv, IOInv, ServerInv, ClientInv, MainInv
<1> QED BY <1>1, <1>2, <1>3, PTL DEF Spec

-------------------------------------------------------------------------------
(* The echo. *)

\* Where the server is in its exchange with the client it has accepted.
Replying ==
  LET taken == read[Srv(conn)]
      reply == sent[Srv(conn)]
  IN  /\ Len(reply) <= taken
      /\ \A i \in 1..Len(reply) : reply[i] = sent[Cli(conn)][i]
      /\ spc \in {"closeListen", "recv"} => Len(reply) = taken
      /\ spc = "echo" =>
           /\ Len(reply) + got[Srv(conn)] = taken
           /\ \A i \in 1..got[Srv(conn)] :
                 buf[Srv(conn)][i] = sent[Cli(conn)][Len(reply) + i]

\* Clients other than the one accepted are given nothing.
Untouched == \A c \in Clients \ {conn} : sent[Srv(c)] = <<>> /\ read[Srv(c)] = 0

ReplyInv == Untouched /\ (conn \in Clients => Replying)

\* All that the others do to the server's exchange is to let the client's
\* stream grow.
LEMMA OthersKeepReplyInv ==
  ASSUME TypeInv, StreamsGrow, ReplyInv, ServerEndsKept, UNCHANGED conn,
         spc' = spc \/ (spc = "idle" /\ spc' = "start")
  PROVE  ReplyInv'
<1>1. Untouched'
  BY DEF Untouched, ReplyInv, ServerEndsKept
<1>2. ASSUME conn \in Clients PROVE Replying'
  <2>1. /\ sent'[Srv(conn)] = sent[Srv(conn)] /\ read'[Srv(conn)] = read[Srv(conn)]
        /\ got'[Srv(conn)] = got[Srv(conn)] /\ buf'[Srv(conn)] = buf[Srv(conn)]
    BY <1>2 DEF ServerEndsKept
  <2>2. spc' = spc
    BY <1>2, ServerAssumption DEF TypeInv, ServerInv, Opening
  <2>3. /\ sent[Cli(conn)] \in Seq(Byte) /\ sent[Srv(conn)] \in Seq(Byte)
        /\ read[Srv(conn)] \in Nat /\ got[Srv(conn)] \in Nat
        /\ read[Srv(conn)] <= Len(sent[Cli(conn)])
    BY <1>2, EndpointFacts, BufferAssumption
       DEF TypeInv, KernelInv, KernelTypeOK, ReadBound, IOInv, IOTypeOK
  <2>4. \A i \in 1..Len(sent[Cli(conn)]) : sent'[Cli(conn)][i] = sent[Cli(conn)][i]
    BY <1>2, EndpointFacts DEF StreamsGrow, Extends
  <2>5. Replying
    BY <1>2 DEF ReplyInv
  <2>6. \A i \in 1..Len(sent[Srv(conn)]) : sent'[Cli(conn)][i] = sent[Cli(conn)][i]
    <3>1. Len(sent[Srv(conn)]) <= read[Srv(conn)] /\ Len(sent[Srv(conn)]) \in Nat
      BY <2>3, <2>5 DEF Replying
    <3>2. \A i \in 1..Len(sent[Srv(conn)]) : i \in 1..Len(sent[Cli(conn)])
      BY <2>3, <3>1
    <3> QED BY <2>4, <3>2
  <2>7. ASSUME spc = "echo", NEW i \in 1..got[Srv(conn)]
        PROVE  sent'[Cli(conn)][Len(sent[Srv(conn)]) + i] =
                 sent[Cli(conn)][Len(sent[Srv(conn)]) + i]
    <3>1. Len(sent[Srv(conn)]) + got[Srv(conn)] = read[Srv(conn)]
      BY <2>5, <2>7 DEF Replying
    <3>2. Len(sent[Srv(conn)]) + i \in 1..Len(sent[Cli(conn)])
      BY <2>3, <3>1
    <3> QED BY <2>4, <3>2
  <2> QED BY <2>1, <2>2, <2>5, <2>6, <2>7 DEF Replying
<1> QED BY <1>1, <1>2 DEF ReplyInv

\* A step of the server that moves no bytes, to a place where no more is asked
\* than before.
LEMMA QuietKeepsReplyInv ==
  ASSUME ReplyInv, UNCHANGED <<sent, read, got, buf, conn>>,
         spc' \notin {"closeListen", "recv", "echo"} \/ spc' = spc
           \/ (spc = "closeListen" /\ spc' = "recv") \/ conn \notin Clients
  PROVE  ReplyInv'
<1>1. Untouched'
  BY DEF Untouched, ReplyInv
<1>2. ASSUME conn \in Clients PROVE Replying'
  <2>1. Replying
    BY <1>2 DEF ReplyInv
  <2> QED BY <1>2, <2>1 DEF Replying
<1> QED BY <1>1, <1>2 DEF ReplyInv

LEMMA AcceptKeepsReplyInv ==
  ASSUME TypeInv, ReplyInv, NEW c \in Clients, ServerAccept(c)
  PROVE  ReplyInv'
<1>1. conn = NoClient /\ conn' = c /\ spc' = "closeListen" /\ UNCHANGED <<sent, read>>
  BY DEF ServerAccept, At, AcceptCall, TypeInv, ServerInv, Opening
<1>2. \A d \in Clients : sent'[Srv(d)] = <<>> /\ read'[Srv(d)] = 0
  BY <1>1, ServerAssumption DEF ReplyInv, Untouched
<1>3. Replying'
  BY <1>1, <1>2 DEF Replying
<1> QED BY <1>2, <1>3 DEF ReplyInv, Untouched

LEMMA RecvKeepsReplyInv ==
  ASSUME TypeInv, ReplyInv, NEW n \in WholeBuffer, ServerRecv(n)
  PROVE  ReplyInv'
<1>1. /\ conn \in Clients /\ KernelInv /\ IOInv /\ ServerInv
      /\ Srv(conn) \in Endpoints /\ Peer(Srv(conn)) = Cli(conn)
      /\ conn' = conn /\ spc = "recv" /\ spc' = "echo"
  BY ServerRecvInv, EndpointFacts DEF TypeInv, ServerRecv, At, Goto
<1>2. /\ sent' = sent /\ n \in Nat
      /\ read' = [read EXCEPT ![Srv(conn)] = read[Srv(conn)] + n]
      /\ got' = [got EXCEPT ![Srv(conn)] = n]
      /\ \A i \in 1..n : buf'[Srv(conn)][i] = sent[Cli(conn)][read[Srv(conn)] + i]
  BY <1>1, RecvAndPrintFacts DEF ServerRecv
<1>3. /\ read'[Srv(conn)] = read[Srv(conn)] + n /\ got'[Srv(conn)] = n
      /\ \A c \in Clients \ {conn} : read'[Srv(c)] = read[Srv(c)]
      /\ read[Srv(conn)] \in Nat
  BY <1>1, <1>2, EndpointFacts DEF KernelInv, KernelTypeOK, IOInv, IOTypeOK
<1>4. /\ Len(sent[Srv(conn)]) = read[Srv(conn)]
      /\ \A i \in 1..Len(sent[Srv(conn)]) : sent[Srv(conn)][i] = sent[Cli(conn)][i]
  BY <1>1 DEF ReplyInv, Replying
<1>5. Replying'
  BY <1>1, <1>2, <1>3, <1>4 DEF Replying
<1>6. Untouched'
  BY <1>1, <1>2, <1>3 DEF ReplyInv, Untouched
<1> QED BY <1>5, <1>6 DEF ReplyInv

\* The send of the echo appends the bytes of the buffer at the place of the
\* client's stream they came from.
LEMMA EchoKeepsReplyInv ==
  ASSUME TypeInv, ReplyInv, At("echo"), SendOk(Srv(conn), Front(Srv(conn))), Goto("recv"),
         UNCHANGED ioVars
  PROVE  ReplyInv'
<1> DEFINE x == Srv(conn)
           old == sent[Srv(conn)]
           front == Front(Srv(conn))
<1>1. /\ conn \in Clients /\ KernelInv /\ IOInv /\ x \in Endpoints
      /\ \A c \in Clients \ {conn} : Srv(c) \in Endpoints \ {x}
      /\ Cli(conn) \in Endpoints \ {x}
  BY EndpointFacts DEF At, TypeInv, ServerInv
<1>2. /\ front \in Seq(Byte) /\ Len(front) = got[x] /\ got[x] \in Nat
      /\ \A i \in 1..got[x] : front[i] = buf[x][i]
  BY <1>1, FrontType
<1>3. /\ sent'[x] = old \o front
      /\ \A y \in Endpoints \ {x} : sent'[y] = sent[y]
      /\ UNCHANGED <<read, conn>> /\ spc' = "recv"
  BY <1>1, <1>2, SendOkInv DEF SendOk, Goto
<1>4. /\ old \in Seq(Byte) /\ read[x] \in Nat
      /\ Len(old) + got[x] = read[x]
      /\ \A i \in 1..Len(old) : old[i] = sent[Cli(conn)][i]
      /\ \A i \in 1..got[x] : buf[x][i] = sent[Cli(conn)][Len(old) + i]
  BY <1>1 DEF ReplyInv, Replying, At, KernelInv, KernelTypeOK
<1> HIDE DEF front, old
<1>5. Len(old \o front) = read[x] /\ Len(old) \in Nat
  <2>1. old \in Seq(Byte) /\ front \in Seq(Byte)
    BY <1>2, <1>4
  <2>2. Len(old \o front) = Len(old) + Len(front) /\ Len(old) \in Nat
    BY <2>1
  <2> QED BY <1>2, <1>4, <2>2
<1>6. ASSUME NEW i \in 1..read[x] PROVE (old \o front)[i] = sent[Cli(conn)][i]
  <2>1. CASE i <= Len(old)
    <3>1. i \in 1..Len(old) /\ (old \o front)[i] = old[i]
      BY <1>2, <1>4, <1>5, <2>1
    <3> QED BY <1>4, <3>1
  <2>2. CASE i > Len(old)
    <3> DEFINE j == i - Len(old)
    <3>1. j \in 1..got[x] /\ Len(old) + j = i
      BY <1>2, <1>4, <1>5, <2>2
    <3>2. (old \o front)[i] = front[j]
      BY <1>2, <1>4, <1>5, <2>2
    <3> QED BY <1>2, <1>4, <3>1, <3>2
  <2> QED BY <1>4, <1>5, <2>1, <2>2
<1>7. Replying'
  <2>1. /\ sent'[Srv(conn')] = old \o front /\ read'[Srv(conn')] = read[x]
        /\ sent'[Cli(conn')] = sent[Cli(conn)] /\ read[x] <= read[x] /\ spc' = "recv"
    BY <1>1, <1>3, <1>4
  <2> QED BY <1>5, <1>6, <2>1 DEF Replying
<1>8. Untouched'
  BY <1>1, <1>3 DEF ReplyInv, Untouched
<1> QED BY <1>7, <1>8 DEF ReplyInv

LEMMA ServerKeepsReplyInv ==
  ASSUME TypeInv, ReplyInv, ServerStep
  PROVE  ReplyInv'
<1>1. CASE \E c \in Clients : ServerAccept(c)
  BY <1>1, AcceptKeepsReplyInv
<1>2. CASE \E n \in WholeBuffer : ServerRecv(n)
  BY <1>2, RecvKeepsReplyInv
<1>3. CASE ServerEcho \/ ServerSigPipe
  <2>1. CASE SendOk(Srv(conn), Front(Srv(conn))) /\ Goto("recv") /\ ServerEcho
    BY <2>1, EchoKeepsReplyInv DEF ServerEcho
  <2>2. CASE ServerEcho /\ SendFailsIn(LocalClient, Srv(conn)) /\ ReturnError("close")
    <3>1. UNCHANGED <<sent, read, got, buf, conn>> /\ spc' = "close"
      BY <2>2 DEF ServerEcho, SendFailsIn, SendFails, CallFails, InvalidCall, ReportReset,
                  ReturnError, kernelVars, ioVars
    <3> QED BY <3>1, QuietKeepsReplyInv
  <2>3. CASE ServerSigPipe
    BY <2>3, QuietKeepsReplyInv DEF ServerSigPipe, SendKills, serverVars, ioVars
  <2> QED BY <1>3, <2>1, <2>2, <2>3 DEF ServerEcho
<1>4. CASE ServerCloseListen \/ ServerEof \/ ServerRecvFails \/ ServerShutdown \/ ServerClose
  <2>1. UNCHANGED <<sent, read, got, buf>>
    BY <1>4, ServerEndInv DEF TypeInv, ioVars
  <2>2. UNCHANGED conn /\ (spc' = "recv" => spc = "closeListen") /\ spc' # "echo"
        /\ spc' # "closeListen"
    BY <1>4 DEF ServerCloseListen, ServerEof, AfterEof, ServerRecvFails, ServerShutdown,
                ServerClose, At, Goto, ReturnError
  <2> QED BY <2>1, <2>2, QuietKeepsReplyInv
<1>5. CASE ServerApplication \/ ServerResolve \/ ServerSocket \/ ServerBind \/ ServerListen
             \/ ServerAcceptFails
  <2>1. UNCHANGED <<sent, read, got, buf, conn>>
    BY <1>5 DEF ServerApplication, ServerResolve, ServerSocket, ServerBind, ServerListen,
                ServerOpens, ServerAcceptFails, ListenerBecomes, CallFails, Goto, ReturnError,
                kernelVars, ioVars
  <2>2. conn \notin Clients
    BY <1>5, ServerAssumption
       DEF ServerApplication, ServerResolve, ServerSocket, ServerBind, ServerListen,
           ServerOpens, ServerAcceptFails, At, TypeInv, ServerInv, Opening
  <2> QED BY <2>1, <2>2, QuietKeepsReplyInv
<1> QED BY <1>1, <1>2, <1>3, <1>4, <1>5 DEF ServerStep

LEMMA ReplyInvInit == Init => ReplyInv
<1> SUFFICES ASSUME Init PROVE ReplyInv
  OBVIOUS
<1>1. \A c \in Clients : sent[Srv(c)] = <<>> /\ read[Srv(c)] = 0
  BY EndpointFacts DEF Init, KernelInit
<1>2. conn = NoClient
  BY DEF Init, ServerInit
<1> QED BY <1>1, <1>2, ServerAssumption DEF ReplyInv, Untouched

LEMMA ReplyInvStep == TypeInv /\ ReplyInv /\ [Next]_vars => ReplyInv'
<1> SUFFICES ASSUME TypeInv, ReplyInv, [Next]_vars PROVE ReplyInv'
  OBVIOUS
<1>0. StreamsGrow
  BY TypeInvStep
<1>1. ASSUME UNCHANGED <<sent, read, ioVars, conn>>,
             spc' = spc \/ (spc = "idle" /\ spc' = "start")
      PROVE  ReplyInv'
  BY <1>0, <1>1, OthersKeepReplyInv DEF ServerEndsKept, ioVars
<1>2. CASE UNCHANGED vars
  BY <1>1, <1>2 DEF vars, serverVars, kernelVars
<1>3. CASE Main
  <2>1. UNCHANGED <<sent, read, ioVars>>
    BY <1>3, MainStep DEF Main
  <2>2. UNCHANGED conn /\ (spc' = spc \/ (spc = "idle" /\ spc' = "start"))
    BY <1>3 DEF Main, SpawnServer, SpawnClient, SpawnFails, JoinBoth, MainAt, Goto, TypeInv,
                MainInv, serverVars
  <2> QED BY <1>1, <2>1, <2>2
<1>4. CASE ServerThread
  BY <1>4, ServerKeepsReplyInv DEF ServerThread
<1>5. ASSUME NEW c \in Clients, ClientThread(c) PROVE ReplyInv'
  BY <1>0, <1>5, ClientStepInv, OthersKeepReplyInv DEF ClientThread, TypeInv, serverVars
<1>6. ASSUME NEW c \in Clients, StartRemote(c) \/ Reap(c) \/ Network PROVE ReplyInv'
  <2>1. UNCHANGED <<sent, read>>
    BY <1>6, EnvironmentStep
  <2> QED BY <1>1, <1>6, <2>1 DEF StartRemote, Reap, Network, serverVars
<1> QED BY <1>2, <1>3, <1>4, <1>5, <1>6, TestBedAssumption DEF Next

LEMMA OneshotInv == Spec => [](TypeInv /\ ReplyInv)
<1>1. Init => TypeInv /\ ReplyInv
  BY TypeInvInit, ReplyInvInit
<1>2. (TypeInv /\ ReplyInv) /\ [Next]_vars => (TypeInv /\ ReplyInv)'
  BY TypeInvStep, ReplyInvStep
<1> QED BY <1>1, <1>2, PTL DEF Spec

LEMMA ReplyInvImplies == TypeInv /\ ReplyInv => EchoIntegrity
<1> SUFFICES ASSUME TypeInv, ReplyInv, NEW c \in Clients
             PROVE  /\ c # conn => sent[Srv(c)] = <<>>
                    /\ Len(sent[Srv(c)]) <= read[Srv(c)]
                    /\ \A i \in 1..Len(sent[Srv(c)]) : sent[Srv(c)][i] = sent[Cli(c)][i]
  BY DEF EchoIntegrity
<1>1. CASE c = conn
  BY <1>1 DEF ReplyInv, Replying
<1>2. CASE c # conn
  BY <1>2 DEF ReplyInv, Untouched
<1> QED BY <1>1, <1>2

\* Whichever of the C, C++ and Python programs are paired, the client that was
\* accepted is echoed its own bytes in their order, before the server has any
\* more than it has received, and the others are sent nothing.
THEOREM EchoIntegrityHolds == Spec => []EchoIntegrity
BY OneshotInv, ReplyInvImplies, PTL

-------------------------------------------------------------------------------
(* The printouts. *)

\* Outside the C program a buffer holds bytes received and zeros, and nothing
\* but zeros behind as many places as bytes were received.
Prints(x) ==
  /\ got[x] <= read[x] /\ got[x] <= Len(log[x])
  /\ \A i \in 1..got[x] : log[x][i] = sent[Peer(x)][read[x] - got[x] + i]
  /\ ProgramAt(x) # "c" =>
       /\ x \notin overrun
       /\ \A i \in 1..Len(log[x]) : \E j \in 1..read[x] : log[x][i] = sent[Peer(x)][j]
       /\ \A i \in 1..BufSize : buf[x][i] # NUL =>
             /\ i <= read[x]
             /\ \E j \in 1..read[x] : buf[x][i] = sent[Peer(x)][j]

\* The text fits a buffer with its terminator, and the echo is no longer.
LEMMA StreamsAreShort ==
  ASSUME TypeInv, ReplyInv, NEW x \in Endpoints
  PROVE  Len(sent[x]) < BufSize
<1>1. \A c \in Clients : Len(sent[Cli(c)]) < BufSize
  <2>1. Len(<<>>) < BufSize /\ Len(Text) < BufSize
    BY BufferAssumption, ClientAssumption
  <2> QED BY <2>1 DEF TypeInv, ClientInv
<1>2. ASSUME NEW c \in Clients PROVE Len(sent[Srv(c)]) < BufSize
  <2>1. Len(sent[Srv(c)]) <= read[Srv(c)]
    BY ReplyInvImplies DEF EchoIntegrity
  <2>2. read[Srv(c)] <= Len(sent[Cli(c)])
    BY EndpointFacts DEF TypeInv, KernelInv, ReadBound
  <2>3. /\ Len(sent[Srv(c)]) \in Nat /\ read[Srv(c)] \in Nat /\ Len(sent[Cli(c)]) \in Nat
        /\ BufSize \in Nat
    BY EndpointFacts, BufferAssumption DEF TypeInv, KernelInv, KernelTypeOK
  <2> QED BY <1>1, <2>1, <2>2, <2>3
<1>3. \E c \in Clients : x = Cli(c) \/ x = Srv(c)
  BY DEF Endpoints, Cli, Srv
<1> QED BY <1>1, <1>2, <1>3

\* A step in which an end prints nothing and receives nothing.
LEMMA QuietKeepsPrints ==
  ASSUME KernelInv, IOInv, StreamsGrow, UNCHANGED cfg, NEW x \in Endpoints, Prints(x),
         got'[x] = got[x], log'[x] = log[x], buf'[x] = buf[x], read'[x] = read[x],
         x \in overrun' => x \in overrun
  PROVE  Prints(x)'
<1>1. /\ read[x] \in Nat /\ got[x] \in Nat /\ sent[Peer(x)] \in Seq(Byte)
      /\ read[x] <= Len(sent[Peer(x)]) /\ BufSize \in Nat
  BY EndpointFacts, BufferAssumption DEF KernelInv, KernelTypeOK, ReadBound, IOInv, IOTypeOK
<1>2. \A j \in 1..read[x] : sent'[Peer(x)][j] = sent[Peer(x)][j]
  <2>1. \A j \in 1..Len(sent[Peer(x)]) : sent'[Peer(x)][j] = sent[Peer(x)][j]
    BY EndpointFacts DEF StreamsGrow, Extends
  <2> QED BY <1>1, <2>1
<1>3. ProgramAt(x)' = ProgramAt(x)
  BY DEF ProgramAt, Program
<1>4. \A i \in 1..got[x] : log'[x][i] = sent'[Peer(x)][read'[x] - got'[x] + i]
  <2>1. got[x] <= read[x] /\ \A i \in 1..got[x] : log[x][i] = sent[Peer(x)][read[x] - got[x] + i]
    BY DEF Prints
  <2>2. \A i \in 1..got[x] : read[x] - got[x] + i \in 1..read[x]
    BY <1>1, <2>1
  <2> QED BY <1>2, <2>1, <2>2
<1> QED BY <1>2, <1>3, <1>4 DEF Prints

LEMMA RecvKeepsPrints ==
  ASSUME KernelInv, IOInv, UNCHANGED cfg, NEW x \in Endpoints, Prints(x),
         Len(sent[Peer(x)]) < BufSize, NEW n \in WholeBuffer, RecvAndPrint(x, n)
  PROVE  Prints(x)'
<1> DEFINE chunk == Chunk(x, n)
           was == read[x]
<1>1. PICK old \in Before(x) :
         /\ old \in Buffers
         /\ buf' = [buf EXCEPT ![x] = Overwrite(old, chunk)]
         /\ log' = [log EXCEPT ![x] = Printed(x, chunk, Overwrite(old, chunk))]
         /\ overrun' = IF Terminated(Overwrite(old, chunk)) \/ ProgramAt(x) = "python"
                       THEN overrun ELSE overrun \cup {x}
  BY RecvAndPrintFacts
<1>2. /\ UNCHANGED sent /\ n \in Nat /\ n > 0 /\ IOInv'
      /\ read' = [read EXCEPT ![x] = was + n] /\ got' = [got EXCEPT ![x] = n]
  BY RecvAndPrintFacts
<1>3. /\ chunk \in [1..n -> Byte]
      /\ \A i \in 1..n : chunk[i] = sent[Peer(x)][was + i]
      /\ was + n <= Len(sent[Peer(x)])
  BY <1>2, RecvDataInv DEF RecvAndPrint
<1>4. was \in Nat /\ was = read[x] /\ BufSize \in Nat /\ was + n < BufSize
  <2>1. Len(sent[Peer(x)]) \in Nat /\ was \in Nat /\ BufSize \in Nat
    BY EndpointFacts, BufferAssumption DEF KernelInv, KernelTypeOK
  <2> QED BY <1>2, <1>3, <2>1
<1> DEFINE b == Overwrite(old, chunk)
           text == Printed(x, chunk, b)
<1> HIDE DEF chunk, was
<1>5. /\ b \in Buffers
      /\ \A i \in 1..n : b[i] = chunk[i]
      /\ \A i \in n+1..BufSize : b[i] = old[i]
      /\ chunk \in Seq(Byte) /\ Len(chunk) = n
  BY <1>1, <1>3, OverwriteFacts
<1>6. /\ text \in Seq(Byte) /\ n <= Len(text)
      /\ \A i \in 1..n : text[i] = chunk[i]
      /\ \A i \in 1..Len(text) : \/ i \in 1..n /\ text[i] = chunk[i]
                                 \/ i \in 1..BufSize /\ text[i] = b[i] /\ b[i] # NUL
  <2>1. CASE ProgramAt(x) = "python"
    BY <1>2, <1>5, <2>1 DEF Printed
  <2>2. CASE ProgramAt(x) # "python"
    <3>1. /\ CString(b) \in Seq(Byte) /\ n <= Len(CString(b)) /\ Len(CString(b)) <= BufSize
          /\ \A i \in 1..n : CString(b)[i] = chunk[i]
          /\ \A i \in 1..Len(CString(b)) : CString(b)[i] = b[i] /\ CString(b)[i] # NUL
      BY <1>1, <1>3, CStringShows
    <3>2. /\ text \in Seq(Byte) /\ n <= Len(text) /\ Len(text) <= BufSize
          /\ \A i \in 1..n : text[i] = chunk[i]
          /\ \A i \in 1..Len(text) : text[i] = b[i] /\ text[i] # NUL
      BY <2>2, <3>1 DEF Printed
    <3>3. \A i \in 1..Len(text) : i \in 1..BufSize
      BY <1>4, <3>2
    <3> QED BY <3>2, <3>3
  <2> QED BY <2>1, <2>2
<1> HIDE DEF b, text
<1>7. /\ read'[x] = was + n /\ got'[x] = n /\ buf'[x] = b /\ log'[x] = text
      /\ overrun' = IF Terminated(b) \/ ProgramAt(x) = "python"
                    THEN overrun ELSE overrun \cup {x}
  BY <1>1, <1>2 DEF KernelInv, KernelTypeOK, IOInv, IOTypeOK, b, text
<1>8. \A i \in 1..n : text[i] = sent'[Peer(x)][read'[x] - got'[x] + i]
  <2>1. \A i \in 1..n : (was + n) - n + i = was + i
    BY <1>2, <1>4
  <2> QED BY <1>2, <1>3, <1>6, <1>7, <2>1
<1>9. ProgramAt(x)' = ProgramAt(x)
  BY DEF ProgramAt, Program
<1>10. ASSUME ProgramAt(x) # "c"
       PROVE  /\ x \notin overrun'
              /\ \A i \in 1..Len(text) : \E j \in 1..was + n : text[i] = sent[Peer(x)][j]
              /\ \A i \in 1..BufSize : b[i] # NUL =>
                    /\ i <= was + n
                    /\ \E j \in 1..was + n : b[i] = sent[Peer(x)][j]
  <2>1. /\ old = buf[x]
        /\ x \notin overrun
        /\ \A i \in 1..BufSize : old[i] # NUL =>
              /\ i <= was
              /\ \E j \in 1..was : old[i] = sent[Peer(x)][j]
    BY <1>1, <1>4, <1>10 DEF Before, Prints
  <2>2. ASSUME NEW i \in 1..n
        PROVE  /\ i <= was + n
               /\ \E j \in 1..was + n : chunk[i] = sent[Peer(x)][j]
    <3>1. n \in Nat /\ was \in Nat
      BY <1>2, <1>4
    <3>2. was + i \in 1..was + n /\ i <= was + n
      BY <3>1
    <3>3. chunk[i] = sent[Peer(x)][was + i]
      BY <1>3
    <3> QED BY <3>2, <3>3
  <2>3. ASSUME NEW i \in n+1..BufSize, b[i] # NUL
        PROVE  /\ i <= was + n
               /\ \E j \in 1..was + n : b[i] = sent[Peer(x)][j]
    <3>1. i \in 1..BufSize /\ b[i] = old[i]
      BY <1>2, <1>4, <1>5
    <3>2. i <= was /\ \E j \in 1..was : b[i] = sent[Peer(x)][j]
      BY <2>1, <2>3, <3>1
    <3>3. \A j \in 1..was : j \in 1..was + n
      BY <1>2, <1>4
    <3> QED BY <1>2, <1>4, <3>1, <3>2, <3>3
  <2>4. ASSUME NEW i \in 1..BufSize, b[i] # NUL
        PROVE  /\ i <= was + n
               /\ \E j \in 1..was + n : b[i] = sent[Peer(x)][j]
    <3>1. CASE i \in 1..n
      BY <1>5, <2>2, <3>1
    <3>2. CASE i \in n+1..BufSize
      BY <2>3, <2>4, <3>2
    <3>3. i \in 1..n \/ i \in n+1..BufSize
      BY <1>2, <1>4
    <3> QED BY <3>1, <3>2, <3>3
  <2>5. Terminated(b)
    <3>1. was + n + 1 \in 1..BufSize /\ ~(was + n + 1 <= was + n)
      BY <1>2, <1>4
    <3> QED BY <2>4, <3>1 DEF Terminated
  <2>6. \A i \in 1..Len(text) : \E j \in 1..was + n : text[i] = sent[Peer(x)][j]
    BY <1>6, <2>2, <2>4
  <2> QED BY <1>7, <2>1, <2>4, <2>5, <2>6
<1>11. n <= was + n
  BY <1>2, <1>4
<1> QED BY <1>2, <1>6, <1>7, <1>8, <1>9, <1>10, <1>11 DEF Prints

\* Bytes are received where a recv prints them, and nowhere else.
LEMMA RecvOrQuiet ==
  ASSUME TypeInv, [Next]_vars
  PROVE  /\ UNCHANGED cfg
         /\ \/ UNCHANGED <<read, ioVars>>
            \/ \E x \in Endpoints, n \in WholeBuffer : RecvAndPrint(x, n)
<1>1. CASE UNCHANGED vars
  BY <1>1 DEF vars, kernelVars
<1>2. CASE Main
  BY <1>2, MainStep DEF Main
<1>3. CASE ServerThread
  <2>1. CASE \E n \in WholeBuffer : ServerRecv(n)
    BY <1>3, <2>1, ServerRecvInv, EndpointFacts DEF TypeInv, ServerThread, ServerRecv
  <2>2. CASE ~(\E n \in WholeBuffer : ServerRecv(n))
    BY <1>3, <2>2, OpeningInv, ServerEchoInv, ServerEndInv
       DEF TypeInv, ServerThread, ServerStep
  <2> QED BY <2>1, <2>2
<1>4. ASSUME NEW c \in Clients, ClientThread(c)
      PROVE  /\ UNCHANGED cfg
             /\ \/ UNCHANGED <<read, ioVars>>
                \/ \E x \in Endpoints, n \in WholeBuffer : RecvAndPrint(x, n)
  <2>1. CASE \E n \in WholeBuffer : ClientRecv(c, n)
    BY <1>4, <2>1, EndpointFacts DEF ClientThread, ClientRecv
  <2>2. CASE ~(\E n \in WholeBuffer : ClientRecv(c, n))
    BY <1>4, <2>2, ClientSendInv, ClientQuietInv DEF TypeInv, ClientThread, ClientStep
  <2> QED BY <2>1, <2>2
<1>5. ASSUME NEW c \in Clients, StartRemote(c) \/ Reap(c) \/ Network
      PROVE  UNCHANGED cfg /\ UNCHANGED <<read, ioVars>>
  BY <1>5, EnvironmentStep DEF StartRemote, Reap, Network
<1> QED BY <1>1, <1>2, <1>3, <1>4, <1>5, TestBedAssumption DEF Next

LEMMA PrintsStep ==
  ASSUME TypeInv, ReplyInv, [Next]_vars, NEW x \in Endpoints, Prints(x)
  PROVE  Prints(x)'
<1>1. KernelInv /\ IOInv /\ StreamsGrow /\ UNCHANGED cfg
  BY TypeInvStep, RecvOrQuiet DEF TypeInv
<1>2. CASE UNCHANGED <<read, ioVars>>
  BY <1>1, <1>2, QuietKeepsPrints DEF ioVars
<1>3. ASSUME NEW y \in Endpoints, NEW n \in WholeBuffer, RecvAndPrint(y, n)
      PROVE  Prints(x)'
  <2>1. CASE y = x
    BY <1>1, <1>3, <2>1, StreamsAreShort, EndpointFacts, RecvKeepsPrints
  <2>2. CASE y # x
    <3>1. /\ read'[x] = read[x] /\ got'[x] = got[x]
          /\ buf'[x] = buf[x] /\ log'[x] = log[x]
          /\ x \in overrun' => x \in overrun
      <4>1. /\ read' = [read EXCEPT ![y] = read[y] + n]
            /\ got' = [got EXCEPT ![y] = n]
            /\ \E b : buf' = [buf EXCEPT ![y] = b]
            /\ \E text : log' = [log EXCEPT ![y] = text]
            /\ overrun' = overrun \/ overrun' = overrun \cup {y}
        BY <1>3 DEF RecvAndPrint, RecvData
      <4> QED BY <1>1, <2>2, <4>1 DEF KernelInv, KernelTypeOK, IOInv, IOTypeOK
    <3> QED BY <1>1, <3>1, QuietKeepsPrints
  <2> QED BY <2>1, <2>2
<1> QED BY <1>2, <1>3, RecvOrQuiet

\* For any text that fits a buffer: the printout after a recv starts with the
\* bytes just received, and outside the C program holds nothing that was not
\* received and stays within its buffer, although no terminator is written.
THEOREM PrintsReceivedHolds == Spec => []PrintsReceived
<1> DEFINE Inv == TypeInv /\ ReplyInv /\ \A x \in Endpoints : Prints(x)
<1>1. Init => Inv
  <2> SUFFICES ASSUME Init, NEW x \in Endpoints PROVE Prints(x)
    BY TypeInvInit, ReplyInvInit
  <2> QED BY BufferAssumption DEF Init, KernelInit, IOInit, EmptyBuffer, Prints
<1>2. Inv /\ [Next]_vars => Inv'
  BY TypeInvStep, ReplyInvStep, PrintsStep
<1>3. Inv => PrintsReceived
  <2> SUFFICES ASSUME Inv, NEW x \in Endpoints
               PROVE  /\ got[x] <= Len(log[x])
                      /\ \A i \in 1..got[x] : log[x][i] = sent[Peer(x)][read[x] - got[x] + i]
                      /\ ProgramAt(x) # "c" =>
                           /\ x \notin overrun
                           /\ \A i \in DOMAIN log[x] :
                                 \E j \in 1..read[x] : log[x][i] = sent[Peer(x)][j]
    BY DEF PrintsReceived
  <2>1. DOMAIN log[x] = 1..Len(log[x])
    BY DEF TypeInv, IOInv, IOTypeOK
  <2> QED BY <2>1 DEF Prints
<1> QED BY <1>1, <1>2, <1>3, PTL DEF Spec
-------------------------------------------------------------------------------
(* What is left open. *)

\* Where the server does not listen yet, and where it does not any more.
Unheard == {"idle", "start", "resolve", "socket", "bind", "listen"}
Deaf == {"recv", "echo", "shutdown", "close", "done"}

ServerSockets ==
  /\ spc \in Unheard => listener # "listening"
  /\ spc \in {"idle", "start", "resolve", "socket"} => listener = "none"
  /\ spc \in Deaf => listener \in {"none", "closed"}
  /\ sret = 1 => spc \in {"close", "done"} \/ (spc = "closeListen" /\ conn = NoClient)
  /\ \A c \in Clients : sock[Srv(c)] = "queued" => listener = "listening"
  /\ \A c \in Clients : sock[Srv(c)] = "open" => c = conn /\ spc # "done"

\* An end a program connects with is never in the backlog itself.
ClientSocket(c) == /\ sock[Cli(c)] # "queued"
                   /\ cpc[c] \in {"idle", "start", "resolve", "connect"} => sock[Cli(c)] = "none"
                   /\ cpc[c] = "done" => sock[Cli(c)] # "open"

SocketInv == ServerSockets /\ \A c \in Clients : ClientSocket(c)

LEMMA ServerKeepsSockets ==
  ASSUME TypeInv, SocketInv, ServerStep
  PROVE  ServerSockets' /\ \A c \in Clients : sock'[Cli(c)] = sock[Cli(c)]
<1> USE EndpointFacts
<1>0. /\ sock \in [Endpoints -> SockStates] /\ ServerSockets
      /\ conn \in Clients \cup {NoClient} /\ sret \in {0, 1}
      /\ spc \in Opening => conn = NoClient
      /\ \A c \in Clients : sock[Cli(c)] # "queued"
  BY DEF TypeInv, KernelInv, KernelTypeOK, ServerInv, ServerTypeOK, SocketInv, ClientSocket
<1>1. CASE ServerApplication \/ ServerResolve \/ ServerSocket \/ ServerBind \/ ServerListen
  <2>1. /\ UNCHANGED <<sock, conn>> /\ spc \in Unheard
        /\ sret' = sret \/ (sret' = 1 /\ spc' \in {"closeListen", "done"})
        /\ \/ spc' \in Unheard \ {"idle", "start"} /\ listener' = listener /\ spc \in {"start", "resolve", "socket"}
           \/ spc' = "bind" /\ listener' = "created"
           \/ spc' = "listen" /\ listener' = "bound"
           \/ spc' = "accept" /\ spc = "listen"
           \/ spc' = "closeListen" /\ listener' = listener
           \/ spc' = "done" /\ listener' = listener /\ spc \in {"start", "resolve", "socket"}
    BY <1>1
       DEF ServerApplication, ServerResolve, ServerSocket, ServerBind, ServerListen, ServerOpens,
           ListenerBecomes, CallFails, Goto, ReturnError, At, kernelVars, Unheard
  <2>2. \A c \in Clients : sock[Srv(c)] \notin {"queued", "open"}
    BY <1>0, <2>1, ServerAssumption DEF ServerSockets, Unheard, Opening
  <2>3. sret = 0 /\ conn = NoClient
    BY <1>0, <2>1 DEF ServerSockets, Unheard, Opening
  <2>4. spc' \in {"resolve", "socket"} => listener' = "none"
    BY <1>0, <2>1, <1>1
       DEF ServerSockets, ServerApplication, ServerResolve, ServerSocket, ServerBind, ServerListen,
           ServerOpens, Goto, ReturnError, At, kernelVars, ListenerBecomes, CallFails
  <2> QED BY <1>0, <2>1, <2>2, <2>3, <2>4 DEF ServerSockets, Unheard, Deaf
<1>2. CASE ServerAcceptFails \/ \E c \in Clients : ServerAccept(c)
  <2>1. spc = "accept" /\ sret = 0 /\ conn = NoClient /\ listener' = listener
    BY <1>0, <1>2
       DEF ServerAcceptFails, CallFails, ServerAccept, AcceptCall, At, Opening, ServerSockets
  <2>2. spc' = "closeListen" /\ (sret' = 1 => conn' = NoClient)
    BY <1>2, <2>1 DEF ServerAcceptFails, ServerAccept, Goto, ReturnError
  <2>3. \/ sock' = sock /\ conn' = conn
        \/ conn' \in Clients /\ sock' = [sock EXCEPT ![Srv(conn')] = "open"]
    BY <1>2 DEF ServerAcceptFails, CallFails, ServerAccept, AcceptCall, Goto, ReturnError
  <2>4. \A c \in Clients : sock[Srv(c)] # "open"
    BY <1>0, <2>1, ServerAssumption DEF ServerSockets
  <2> QED BY <1>0, <2>1, <2>2, <2>3, <2>4 DEF ServerSockets, Unheard, Deaf
<1>3. CASE ServerCloseListen
  <2>1. /\ spc = "closeListen" /\ conn' = conn /\ sret' = sret
        /\ spc' = IF sret = 1 THEN "done" ELSE "recv"
        /\ listener' \in {"none", "closed"}
    BY <1>3 DEF ServerCloseListen, CloseListenerCall, Goto, At
  <2>2. \A x \in Endpoints : sock'[x] = IF sock[x] = "queued" THEN "closed" ELSE sock[x]
    BY <1>0, <1>3 DEF ServerCloseListen, CloseListenerCall
  <2>3. sret = 1 => \A c \in Clients : sock[Srv(c)] # "open"
    BY <1>0, <2>1, ServerAssumption DEF ServerSockets
  <2> QED BY <1>0, <2>1, <2>2, <2>3 DEF ServerSockets, Deaf, Unheard
<1>4. CASE ServerClose
  <2>1. /\ spc = "close" /\ spc' = "done" /\ UNCHANGED <<conn, sret, listener>>
        /\ CloseCall(Srv(conn))
    BY <1>4 DEF ServerClose, Goto, At, CloseCall, CloseOpen, InvalidCall, kernelVars
  <2>2. \A x \in Endpoints : sock'[x] = IF x = Srv(conn) /\ sock[x] = "open" THEN "closed" ELSE sock[x]
    BY <1>0, <2>1 DEF CloseCall, CloseOpen, InvalidCall, Valid, kernelVars
  <2> QED BY <1>0, <2>1, <2>2 DEF ServerSockets, Deaf, Unheard
<1>5. CASE \/ \E n \in WholeBuffer : ServerRecv(n)
           \/ ServerEcho \/ ServerSigPipe \/ ServerEof \/ ServerRecvFails \/ ServerShutdown
  <2>1. UNCHANGED <<sock, listener>>
    BY <1>5
       DEF ServerRecv, RecvAndPrint, RecvData, ServerEcho, ServerSigPipe, ServerEof,
           ServerRecvFails, ServerShutdown, kernelVars, CallFails, InvalidCall, SendOk,
           SendFailsIn, SendFails, SendKills, ReportReset, RecvEof, RecvFails, ShutdownOk,
           ShutdownFails
  <2>2. /\ conn' = conn /\ spc \in {"recv", "echo", "shutdown"}
        /\ \/ spc' \in {"recv", "echo", "shutdown", "close"} /\ sret' = sret
           \/ spc' = "close" /\ sret' = 1
    BY <1>5
       DEF ServerRecv, ServerEcho, ServerSigPipe, ServerEof, AfterEof, ServerRecvFails,
           ServerShutdown, At, Goto, ReturnError, serverVars
  <2> QED BY <1>0, <2>1, <2>2 DEF ServerSockets, Deaf, Unheard
<1> QED BY <1>1, <1>2, <1>3, <1>4, <1>5 DEF ServerStep

LEMMA ClientKeepsSockets ==
  ASSUME TypeInv, SocketInv, NEW c \in Clients, ClientStep(c), UNCHANGED serverVars
  PROVE  SocketInv'
<1> USE EndpointFacts
<1>0. /\ sock \in [Endpoints -> SockStates] /\ cpc \in [Clients -> ClientPcs]
      /\ ServerSockets /\ \A d \in Clients : ClientSocket(d)
  BY DEF TypeInv, KernelInv, KernelTypeOK, ClientInv, ClientTypeOK, SocketInv
<1>1. CASE ClientConnect(c)
  <2>1. /\ listener = "listening" /\ listener' = listener
        /\ sock' = [sock EXCEPT ![Cli(c)] = "open", ![Srv(c)] = "queued"]
        /\ cpc' = [cpc EXCEPT ![c] = "send"]
    BY <1>1 DEF ClientConnect, ConnectCall, ClientGoto
  <2>2. ServerSockets'
    BY <1>0, <2>1 DEF ServerSockets, serverVars
  <2>3. \A d \in Clients : ClientSocket(d)'
    BY <1>0, <2>1 DEF ClientSocket
  <2> QED BY <2>2, <2>3 DEF SocketInv
<1>2. CASE ClientClose(c)
  <2>1. /\ listener' = listener
        /\ cpc' = [cpc EXCEPT ![c] = "done"]
        /\ \A x \in Endpoints : sock'[x] = IF x = Cli(c) /\ sock[x] = "open" THEN "closed" ELSE sock[x]
    BY <1>0, <1>2 DEF ClientClose, ClientGoto, CloseCall, CloseOpen, InvalidCall, Valid, kernelVars
  <2>2. ServerSockets'
    BY <1>0, <2>1 DEF ServerSockets, serverVars
  <2>3. \A d \in Clients : ClientSocket(d)'
    BY <1>0, <2>1 DEF ClientSocket
  <2> QED BY <2>2, <2>3 DEF SocketInv
<1>3. CASE \/ ClientApplication(c) \/ ClientResolve(c) \/ ClientSocketFails(c)
           \/ ClientRefused(c) \/ ClientSend(c) \/ ClientSigPipe(c) \/ ClientShutdown(c)
           \/ (\E n \in WholeBuffer : ClientRecv(c, n)) \/ ClientRecvEnds(c)
  <2>1. UNCHANGED <<sock, listener>>
    BY <1>3
       DEF ClientApplication, ClientResolve, ClientSocketFails, ClientRefused, ClientSend,
           ClientSigPipe, ClientShutdown, ClientRecv, ClientRecvEnds, RecvAndPrint, kernelVars,
           CallFails, InvalidCall, SendOk, SendFailsIn, SendFails, SendKills, ReportReset,
           RecvData, RecvEof, RecvFails, ShutdownOk, ShutdownFails
  <2>2. /\ \A d \in Clients \ {c} : cpc'[d] = cpc[d]
        /\ cpc'[c] \in {"idle", "start", "resolve", "connect", "done"} =>
              cpc[c] \in {"idle", "start", "resolve", "connect"}
    BY <1>0, <1>3
       DEF ClientApplication, ClientResolve, ClientSocketFails, ClientRefused, ClientSend,
           ClientSigPipe, ClientShutdown, ClientRecv, ClientRecvEnds, ClientGoto, ClientEnds,
           ClientAt, clientVars
  <2>3. ServerSockets'
    BY <1>0, <2>1 DEF ServerSockets, serverVars
  <2>4. \A d \in Clients : ClientSocket(d)'
    BY <1>0, <2>1, <2>2 DEF ClientSocket
  <2> QED BY <2>3, <2>4 DEF SocketInv
<1> QED BY <1>1, <1>2, <1>3 DEF ClientStep

LEMMA SocketInvStep == TypeInv /\ SocketInv /\ [Next]_vars => SocketInv'
<1> SUFFICES ASSUME TypeInv, SocketInv, [Next]_vars PROVE SocketInv'
  OBVIOUS
<1> USE DEF SocketInv
<1>0. sock \in [Endpoints -> SockStates] /\ cpc \in [Clients -> ClientPcs]
  BY DEF TypeInv, KernelInv, KernelTypeOK, ClientInv, ClientTypeOK
<1>1. ASSUME UNCHANGED <<sock, listener, conn, sret>>,
             spc' = spc \/ (spc = "idle" /\ spc' = "start"),
             \A d \in Clients : cpc'[d] = cpc[d] \/ (cpc[d] = "idle" /\ cpc'[d] \in {"start", "done"})
      PROVE  SocketInv'
  <2>1. ServerSockets'
    BY <1>1 DEF ServerSockets, Unheard, Deaf
  <2> QED BY <1>1, <2>1 DEF ClientSocket
<1>2. CASE UNCHANGED vars
  BY <1>1, <1>2 DEF vars, serverVars, clientVars, kernelVars
<1>3. CASE Main
  <2>1. UNCHANGED <<sock, listener, conn, sret>>
    BY <1>3 DEF Main, SpawnServer, SpawnClient, SpawnFails, JoinBoth, Goto, serverVars, kernelVars
  <2>2. \A d \in Clients : cpc'[d] = cpc[d] \/ (cpc[d] = "idle" /\ cpc'[d] \in {"start", "done"})
    BY <1>0, <1>3
       DEF Main, SpawnServer, SpawnClient, SpawnFails, JoinBoth, MainAt, ClientGoto, clientVars,
           TypeInv, MainInv
  <2>3. spc' = spc \/ (spc = "idle" /\ spc' = "start")
    BY <1>3
       DEF Main, SpawnServer, SpawnClient, SpawnFails, JoinBoth, MainAt, Goto, serverVars,
           TypeInv, MainInv
  <2> QED BY <1>1, <2>1, <2>2, <2>3
<1>4. CASE ServerThread
  BY <1>4, ServerKeepsSockets DEF ServerThread, ClientSocket, clientVars
<1>5. ASSUME NEW c \in Clients, ClientThread(c) PROVE SocketInv'
  BY <1>5, ClientKeepsSockets DEF ClientThread
<1>6. CASE Network
  BY <1>1, <1>6 DEF Network, DeliverRst, serverVars, clientVars
<1>7. ASSUME NEW c \in Clients, StartRemote(c) PROVE SocketInv'
  <2>1. \A d \in Clients : cpc'[d] = cpc[d] \/ (cpc[d] = "idle" /\ cpc'[d] = "start")
    BY <1>0, <1>7 DEF StartRemote, ClientGoto
  <2> QED BY <1>1, <1>7, <2>1 DEF StartRemote, serverVars, kernelVars
<1>8. ASSUME NEW c \in Clients, Reap(c) PROVE SocketInv'
  <2>0. UNCHANGED <<serverVars, clientVars>>
    BY <1>8 DEF Reap
  <2>1. CASE CloseListenerCall
    <3>1. listener' \in {"none", "closed"} /\ (listener = "none" => listener' = "none")
      BY <2>1 DEF CloseListenerCall
    <3>2. \A x \in Endpoints : sock'[x] = IF sock[x] = "queued" THEN "closed" ELSE sock[x]
      BY <1>0, <2>1 DEF CloseListenerCall
    <3> QED
      BY <1>0, <2>0, <3>1, <3>2, EndpointFacts
         DEF ServerSockets, ClientSocket, serverVars, clientVars
  <2>2. ASSUME NEW x, CloseCall(x) PROVE SocketInv'
    <3>1. /\ listener' = listener
          /\ \A y \in Endpoints : sock'[y] = sock[y] \/ (sock[y] = "open" /\ sock'[y] = "closed")
      BY <1>0, <2>2 DEF CloseCall, CloseOpen, InvalidCall, Valid, kernelVars
    <3>2. ServerSockets'
      BY <2>0, <3>1, EndpointFacts DEF ServerSockets, serverVars
    <3> QED BY <2>0, <3>1, <3>2, EndpointFacts DEF ClientSocket, clientVars
  <2> QED BY <1>8, <2>1, <2>2 DEF Reap
<1> QED BY <1>2, <1>3, <1>4, <1>5, <1>6, <1>7, <1>8 DEF Next

LEMMA SocketInvInit == Init => SocketInv
<1> SUFFICES ASSUME Init PROVE SocketInv
  OBVIOUS
<1>1. \A c \in Clients : sock[Srv(c)] = "none" /\ sock[Cli(c)] = "none" /\ cpc[c] = "idle"
  BY EndpointFacts DEF Init, KernelInit, ClientInit
<1> QED
  BY <1>1
     DEF Init, KernelInit, ServerInit, SocketInv, ServerSockets, ClientSocket, Unheard, Deaf

LEMMA SocketsCorrect == Spec => [](TypeInv /\ ReplyInv /\ SocketInv)
<1>1. Init => SocketInv
  BY SocketInvInit
<1>2. TypeInv /\ SocketInv /\ [Next]_vars => SocketInv'
  BY SocketInvStep
<1> QED BY <1>1, <1>2, OneshotInv, PTL DEF Spec

\* Whichever call of whichever program failed, a thread at its end has left no
\* socket open, and the server no client waiting in the backlog.
THEOREM SocketsClosedHolds == Spec => []SocketsClosed
<1>1. TypeInv /\ SocketInv => SocketsClosed
  <2> SUFFICES ASSUME TypeInv, SocketInv PROVE SocketsClosed
    OBVIOUS
  <2>1. \A c \in Clients : sock[Srv(c)] \in SockStates
    BY EndpointFacts DEF TypeInv, KernelInv, KernelTypeOK
  <2> QED
    BY <2>1 DEF SocketInv, ServerSockets, ClientSocket, SocketsClosed, Deaf, SockStates
<1> QED BY <1>1, SocketsCorrect, PTL
-------------------------------------------------------------------------------
(* How an exchange ends. *)

Ending == {"close", "done"}
Waiting == {"recv", "close", "done"}

\* The server has received everything up to the client's FIN, and sent it back.
Complete == /\ Unread(Srv(conn)) = 0 /\ fin[Cli(conn)]
            /\ Len(sent[Srv(conn)]) = read[Srv(conn)]

\* The server's FIN is the last thing it does.
FinLast == \A c \in Clients :
             fin[Srv(c)] => c = conn /\ (LocalClient \in killed \/ spc \in Ending)

\* A server that is told of a reset reports an error.
ResetIsError == \A c \in Clients : rst[Srv(c)] = "reported" => sret = 1

Drain == (/\ conn \in Clients /\ LocalClient \notin killed /\ sret = 0
          /\ spc \in {"shutdown", "close", "done"}) => Complete

\* A client sends nothing after its FIN, reports a reset as an error, and an
\* end of the stream only after the server's FIN and all bytes before it.
ClientEnd(c) ==
  /\ fin[Cli(c)] => c \in killed \/ cpc[c] \in Waiting
  /\ cpc[c] \in {"shutdown", "recv"} => sent[Cli(c)] = Text
  /\ rst[Cli(c)] = "reported" => verdict[c] = "error"
  /\ verdict[c] \in {"error", "eof"} => cpc[c] \in Ending
  /\ verdict[c] = "eof" => sent[Cli(c)] = Text /\ fin[Srv(c)] /\ Unread(Cli(c)) = 0

DrainInv == FinLast /\ ResetIsError /\ Drain /\ \A c \in Clients : ClientEnd(c)

\* What a step of the server does to the ends of the connections.
ServerTouches ==
  /\ killed \subseteq killed'
  /\ \A c \in Clients :
       /\ sent'[Cli(c)] = sent[Cli(c)] /\ read'[Cli(c)] = read[Cli(c)]
       /\ fin'[Cli(c)] = fin[Cli(c)]
       /\ rst'[Cli(c)] = "reported" => rst[Cli(c)] = "reported"
       /\ fin[Srv(c)] => fin'[Srv(c)]
       /\ fin'[Srv(c)] => fin[Srv(c)] \/ (c = conn /\ spc \in {"shutdown", "close"})
       /\ rst'[Srv(c)] = "reported" => rst[Srv(c)] = "reported" \/ sret' = 1
       /\ sent'[Srv(c)] = sent[Srv(c)] \/ (c = conn /\ spc = "echo")

LEMMA ServerTouchesOwn ==
  ASSUME TypeInv, ServerStep
  PROVE  ServerTouches
<1> USE EndpointFacts
<1>0. /\ sent \in [Endpoints -> Seq(Byte)] /\ fin \in [Endpoints -> BOOLEAN]
      /\ rst \in [Endpoints -> RstStates] /\ read \in [Endpoints -> Nat]
  BY DEF TypeInv, KernelInv, KernelTypeOK
<1>1. ASSUME UNCHANGED <<sent, read, fin, rst, killed>> PROVE ServerTouches
  BY <1>1 DEF ServerTouches
<1>2. ASSUME UNCHANGED <<sent, read, fin, killed>>, rst' = [rst EXCEPT ![Srv(conn)] = "reported"],
             sret' = 1
      PROVE  ServerTouches
  BY <1>0, <1>2 DEF ServerTouches
<1>3. /\ CallFails => UNCHANGED <<sent, read, fin, rst, killed>>
      /\ InvalidCall(Srv(conn)) => UNCHANGED <<sent, read, fin, rst, killed>>
      /\ \/ SendFailsIn(LocalClient, Srv(conn)) \/ RecvFails(Srv(conn)) \/ ShutdownFails(Srv(conn))
         => \/ UNCHANGED <<sent, read, fin, rst, killed>>
            \/ /\ UNCHANGED <<sent, read, fin, killed>>
               /\ rst' = [rst EXCEPT ![Srv(conn)] = "reported"]
  BY DEF CallFails, InvalidCall, SendFailsIn, SendFails, RecvFails, ShutdownFails, ReportReset,
         kernelVars
<1>4. CASE \/ ServerApplication \/ ServerResolve \/ ServerSocket \/ ServerBind \/ ServerListen
           \/ ServerAcceptFails \/ ServerEof
  BY <1>1, <1>4
     DEF ServerApplication, ServerResolve, ServerSocket, ServerBind, ServerListen, ServerOpens,
         ServerAcceptFails, ServerEof, RecvEof, ListenerBecomes, CallFails, kernelVars
<1>5. CASE \E c \in Clients : ServerAccept(c)
  BY <1>1, <1>5 DEF ServerAccept, AcceptCall
<1>6. CASE ServerCloseListen
  <2>1. /\ UNCHANGED <<sent, read, fin, killed>>
        /\ \A x \in Endpoints : rst'[x] \in {"flying", rst[x]}
    BY <1>0, <1>6 DEF ServerCloseListen, CloseListenerCall
  <2> QED BY <1>0, <2>1 DEF ServerTouches
<1>7. CASE \E n \in WholeBuffer : ServerRecv(n)
  <2>1. /\ UNCHANGED <<sent, fin, rst, killed>>
        /\ \A x \in Endpoints : x # Srv(conn) => read'[x] = read[x]
    BY <1>0, <1>7 DEF ServerRecv, RecvAndPrint, RecvData
  <2> QED BY <2>1 DEF ServerTouches
<1>8. CASE ServerEcho
  <2>1. CASE SendOk(Srv(conn), Front(Srv(conn)))
    <3>1. /\ UNCHANGED <<read, fin, killed>> /\ spc = "echo"
          /\ \A x \in Endpoints : x # Srv(conn) => sent'[x] = sent[x]
          /\ \A x \in Endpoints : rst'[x] \in {"flying", rst[x]}
      BY <1>0, <1>8, <2>1 DEF ServerEcho, SendOk, At
    <3> QED BY <1>0, <3>1 DEF ServerTouches
  <2>2. CASE SendFailsIn(LocalClient, Srv(conn)) /\ ReturnError("close")
    BY <1>1, <1>2, <1>3, <2>2 DEF ReturnError
  <2> QED BY <1>8, <2>1, <2>2 DEF ServerEcho
<1>9. CASE ServerSigPipe
  BY <1>9 DEF ServerSigPipe, SendKills, ServerTouches
<1>10. CASE ServerRecvFails
  BY <1>1, <1>2, <1>3, <1>10 DEF ServerRecvFails, ReturnError
<1>11. CASE ServerShutdown
  <2>1. CASE ShutdownOk(Srv(conn))
    <3>1. UNCHANGED <<sent, read, rst, killed>> /\ spc = "shutdown"
          /\ fin' = [fin EXCEPT ![Srv(conn)] = TRUE]
      BY <1>11, <2>1 DEF ServerShutdown, ShutdownOk, At
    <3> QED BY <1>0, <3>1 DEF ServerTouches
  <2>2. CASE ShutdownFails(Srv(conn)) /\ ReturnError("close")
    BY <1>1, <1>2, <1>3, <2>2 DEF ReturnError
  <2> QED BY <1>11, <2>1, <2>2 DEF ServerShutdown
<1>12. CASE ServerClose
  <2>1. CASE CloseOpen(Srv(conn))
    <3>1. /\ UNCHANGED <<sent, read, killed>> /\ spc = "close" /\ Srv(conn) \in Endpoints
          /\ \E b \in {fin[Srv(conn)], TRUE} : fin' = [fin EXCEPT ![Srv(conn)] = b]
      BY <1>12, <2>1 DEF ServerClose, CloseOpen, At, Valid
    <3>2. \A x \in Endpoints : rst'[x] \in {"flying", rst[x]}
      BY <1>0, <2>1 DEF CloseOpen
    <3> QED BY <1>0, <3>1, <3>2 DEF ServerTouches
  <2>2. CASE InvalidCall(Srv(conn))
    BY <1>1, <1>3, <2>2
  <2> QED BY <1>12, <2>1, <2>2 DEF ServerClose, CloseCall
<1> QED
  BY <1>4, <1>5, <1>6, <1>7, <1>8, <1>9, <1>10, <1>11, <1>12 DEF ServerStep

\* What a step of the client c does to them.
ClientTouches(c) ==
  /\ killed \subseteq killed'
  /\ \A d \in Clients :
       /\ fin'[Srv(d)] = fin[Srv(d)]
       /\ rst'[Srv(d)] = "reported" => rst[Srv(d)] = "reported"
       /\ fin[Cli(d)] => fin'[Cli(d)]
       /\ rst'[Cli(d)] = "reported" => rst[Cli(d)] = "reported" \/ (d = c /\ verdict'[c] = "error")
       /\ d # c => /\ sent'[Cli(d)] = sent[Cli(d)] /\ read'[Cli(d)] = read[Cli(d)]
                   /\ fin'[Cli(d)] = fin[Cli(d)]
                   /\ cpc'[d] = cpc[d] /\ verdict'[d] = verdict[d]
  /\ fin'[Cli(c)] => fin[Cli(c)] \/ cpc'[c] \in Waiting
  /\ sent'[Cli(c)] = sent[Cli(c)] \/ cpc[c] = "send"
  /\ read'[Cli(c)] = read[Cli(c)] \/ cpc[c] = "recv"

LEMMA ClientTouchesOwn ==
  ASSUME TypeInv, NEW c \in Clients, ClientStep(c)
  PROVE  ClientTouches(c)
<1> USE EndpointFacts
<1>0. /\ sent \in [Endpoints -> Seq(Byte)] /\ fin \in [Endpoints -> BOOLEAN]
      /\ rst \in [Endpoints -> RstStates] /\ read \in [Endpoints -> Nat]
      /\ cpc \in [Clients -> ClientPcs] /\ verdict \in [Clients -> Verdicts]
  BY DEF TypeInv, KernelInv, KernelTypeOK, ClientInv, ClientTypeOK
<1>1. \A d \in Clients : d # c => cpc'[d] = cpc[d] /\ verdict'[d] = verdict[d]
  BY <1>0
     DEF ClientStep, ClientApplication, ClientResolve, ClientSocketFails, ClientConnect,
         ClientRefused, ClientSend, ClientSigPipe, ClientShutdown, ClientRecv, ClientRecvEnds,
         ClientClose, ClientGoto, ClientEnds, clientVars
<1>2. ASSUME UNCHANGED <<sent, read, fin, rst>>, killed \subseteq killed' PROVE ClientTouches(c)
  BY <1>1, <1>2 DEF ClientTouches
<1>3. ASSUME UNCHANGED <<sent, read, fin, killed>>, rst' = [rst EXCEPT ![Cli(c)] = "reported"],
             verdict'[c] = "error"
      PROVE  ClientTouches(c)
  BY <1>0, <1>1, <1>3 DEF ClientTouches
<1>4. /\ CallFails => UNCHANGED <<sent, read, fin, rst, killed>>
      /\ InvalidCall(Cli(c)) => UNCHANGED <<sent, read, fin, rst, killed>>
      /\ \/ SendFailsIn(c, Cli(c)) \/ RecvFails(Cli(c)) \/ ShutdownFails(Cli(c))
         => \/ UNCHANGED <<sent, read, fin, rst, killed>>
            \/ /\ UNCHANGED <<sent, read, fin, killed>>
               /\ rst' = [rst EXCEPT ![Cli(c)] = "reported"]
  BY DEF CallFails, InvalidCall, SendFailsIn, SendFails, RecvFails, ShutdownFails, ReportReset,
         kernelVars
<1>5. ASSUME NEW pc, ClientEnds(c, pc, "error") PROVE verdict'[c] = "error"
  BY <1>0, <1>5 DEF ClientEnds
<1>6. CASE \/ ClientApplication(c) \/ ClientResolve(c) \/ ClientSocketFails(c)
           \/ ClientConnect(c) \/ ClientRefused(c) \/ ClientSigPipe(c)
  BY <1>2, <1>4, <1>6
     DEF ClientApplication, ClientResolve, ClientSocketFails, ClientConnect, ConnectCall,
         ClientRefused, ClientSigPipe, SendKills, kernelVars
<1>7. CASE ClientSend(c)
  <2>1. CASE SendOk(Cli(c), Text)
    <3>1. /\ UNCHANGED <<read, fin, killed>> /\ cpc[c] = "send"
          /\ \A x \in Endpoints : x # Cli(c) => sent'[x] = sent[x]
          /\ \A x \in Endpoints : rst'[x] \in {"flying", rst[x]}
      BY <1>0, <1>7, <2>1 DEF ClientSend, SendOk, ClientAt
    <3> QED BY <1>0, <1>1, <3>1 DEF ClientTouches
  <2>2. CASE SendFailsIn(c, Cli(c)) /\ ClientEnds(c, "close", "error")
    BY <1>2, <1>3, <1>4, <1>5, <2>2
  <2> QED BY <1>7, <2>1, <2>2 DEF ClientSend
<1>8. CASE ClientShutdown(c)
  <2>1. CASE ShutdownOk(Cli(c)) /\ ClientGoto(c, "recv")
    <3>1. /\ UNCHANGED <<sent, read, rst, killed>> /\ cpc'[c] = "recv"
          /\ fin' = [fin EXCEPT ![Cli(c)] = TRUE]
      BY <1>0, <2>1 DEF ShutdownOk, ClientGoto
    <3> QED BY <1>0, <1>1, <3>1 DEF ClientTouches, Waiting
  <2>2. CASE ShutdownFails(Cli(c)) /\ ClientEnds(c, "close", "error")
    BY <1>2, <1>3, <1>4, <1>5, <2>2
  <2> QED BY <1>8, <2>1, <2>2 DEF ClientShutdown
<1>9. CASE \E n \in WholeBuffer : ClientRecv(c, n)
  <2>1. /\ UNCHANGED <<sent, fin, rst, killed>> /\ cpc[c] = "recv"
        /\ \A x \in Endpoints : x # Cli(c) => read'[x] = read[x]
    BY <1>0, <1>9 DEF ClientRecv, RecvAndPrint, RecvData, ClientAt
  <2> QED BY <1>1, <2>1 DEF ClientTouches
<1>10. CASE ClientRecvEnds(c)
  <2>1. CASE RecvEof(Cli(c))
    BY <1>2, <2>1 DEF RecvEof, kernelVars
  <2>2. CASE RecvFails(Cli(c)) /\ ClientEnds(c, "close", "error")
    BY <1>2, <1>3, <1>4, <1>5, <2>2
  <2> QED BY <1>10, <2>1, <2>2 DEF ClientRecvEnds
<1>11. CASE ClientClose(c)
  <2>1. CASE CloseOpen(Cli(c))
    <3>1. /\ UNCHANGED <<sent, read, killed>> /\ cpc'[c] = "done"
          /\ \E b \in {fin[Cli(c)], TRUE} : fin' = [fin EXCEPT ![Cli(c)] = b]
      BY <1>0, <1>11, <2>1 DEF ClientClose, CloseOpen, ClientGoto
    <3>2. \A x \in Endpoints : rst'[x] \in {"flying", rst[x]}
      BY <1>0, <2>1 DEF CloseOpen
    <3>3. \A x \in Endpoints : /\ x # Cli(c) => fin'[x] = fin[x]
                               /\ fin[x] => fin'[x]
      BY <1>0, <3>1
    <3> QED BY <1>1, <3>1, <3>2, <3>3 DEF ClientTouches, Waiting
  <2>2. CASE InvalidCall(Cli(c))
    BY <1>2, <1>4, <2>2
  <2> QED BY <1>11, <2>1, <2>2 DEF ClientClose, CloseCall
<1> QED BY <1>6, <1>7, <1>8, <1>9, <1>10, <1>11 DEF ClientStep

LEMMA DrainInvInit == Init => DrainInv
<1> SUFFICES ASSUME Init PROVE DrainInv
  OBVIOUS
<1>1. \A c \in Clients : /\ fin[Srv(c)] = FALSE /\ rst[Srv(c)] = "none"
                         /\ fin[Cli(c)] = FALSE /\ rst[Cli(c)] = "none"
                         /\ cpc[c] = "idle" /\ verdict[c] = "none"
  BY EndpointFacts DEF Init, KernelInit, ClientInit
<1>2. spc = "idle"
  BY DEF Init, ServerInit
<1>3. FinLast /\ ResetIsError /\ Drain
  BY <1>1, <1>2 DEF FinLast, ResetIsError, Drain
<1>4. \A c \in Clients : ClientEnd(c)
  BY <1>1 DEF ClientEnd
<1> QED BY <1>3, <1>4 DEF DrainInv

\* What is left to the rest of the test bed: to start what is idle, to deliver
\* a reset and to close the sockets of a process that was killed.
LEMMA OthersKeepDrain ==
  ASSUME DrainInv, UNCHANGED <<sent, read, conn, sret, verdict>>, killed \subseteq killed',
         spc' = spc \/ (spc = "idle" /\ spc' = "start"),
         \A c \in Clients :
           /\ cpc'[c] = cpc[c] \/ (cpc[c] = "idle" /\ cpc'[c] \in {"start", "done"})
           /\ fin[Srv(c)] => fin'[Srv(c)]
           /\ fin[Cli(c)] => fin'[Cli(c)]
           /\ fin'[Srv(c)] => fin[Srv(c)] \/ (c = conn /\ LocalClient \in killed)
           /\ fin'[Cli(c)] => fin[Cli(c)] \/ c \in killed
           /\ rst'[Srv(c)] = "reported" => rst[Srv(c)] = "reported"
           /\ rst'[Cli(c)] = "reported" => rst[Cli(c)] = "reported"
  PROVE  DrainInv'
<1>1. FinLast'
  BY DEF DrainInv, FinLast, Ending
<1>2. ResetIsError'
  BY DEF DrainInv, ResetIsError
<1>3. Drain'
  <2> SUFFICES ASSUME conn \in Clients, LocalClient \notin killed, sret = 0,
                      spc \in {"shutdown", "close", "done"}
               PROVE  Complete'
    BY DEF Drain
  <2>1. Complete
    BY DEF DrainInv, Drain
  <2>2. Unread(Srv(conn))' = Unread(Srv(conn))
    BY DEF Unread, Peer, Srv, Cli
  <2> QED BY <2>1, <2>2 DEF Complete
<1>4. ASSUME NEW c \in Clients PROVE ClientEnd(c)'
  <2>1. ClientEnd(c)
    BY DEF DrainInv
  <2>2. Unread(Cli(c))' = Unread(Cli(c))
    BY DEF Unread, Peer, Srv, Cli
  <2> QED BY <2>1, <2>2 DEF ClientEnd, Ending, Waiting
<1> QED BY <1>1, <1>2, <1>3, <1>4 DEF DrainInv

\* Where a step of the server leads.
LEMMA ServerMoves ==
  ASSUME ServerStep
  PROVE  /\ LocalClient \notin killed
         /\ sret' = sret \/ sret' = 1
         /\ conn' = conn \/ spc = "accept"
         /\ spc \in {"shutdown", "close"} => spc' \in Ending
         /\ spc # "done"
<1>1. CASE \/ ServerApplication \/ ServerResolve \/ ServerSocket \/ ServerBind \/ ServerListen
           \/ ServerAcceptFails \/ ServerCloseListen \/ \E c \in Clients : ServerAccept(c)
  BY <1>1
     DEF ServerApplication, ServerResolve, ServerSocket, ServerBind, ServerListen, ServerOpens,
         ServerAcceptFails, ServerCloseListen, ServerAccept, At, Goto, ReturnError
<1>2. CASE \/ \E n \in WholeBuffer : ServerRecv(n)
           \/ ServerEcho \/ ServerSigPipe \/ ServerEof \/ ServerRecvFails
  BY <1>2
     DEF ServerRecv, ServerEcho, ServerSigPipe, ServerEof, ServerRecvFails, At, Goto, ReturnError,
         serverVars
<1>3. CASE ServerShutdown \/ ServerClose
  BY <1>3 DEF ServerShutdown, ServerClose, At, Goto, ReturnError, Ending
<1> QED BY <1>1, <1>2, <1>3 DEF ServerStep

\* Without an error the server comes to the end of the connection only by the
\* end of the client's stream.
LEMMA ServerArrives ==
  ASSUME TypeInv, ServerStep, sret' = 0, conn \in Clients,
         spc' \in {"shutdown", "close", "done"}, spc \notin {"shutdown", "close"}
  PROVE  \/ spc = "recv" /\ RecvEof(Srv(conn)) /\ sret = 0
         \/ LocalClient \in killed'
<1>0. conn # NoClient
  BY ServerAssumption
<1>1. CASE \/ ServerApplication \/ ServerResolve \/ ServerSocket \/ ServerBind \/ ServerListen
           \/ ServerAcceptFails \/ \E c \in Clients : ServerAccept(c)
  <2>1. spc \in Opening
    BY <1>1
       DEF ServerApplication, ServerResolve, ServerSocket, ServerBind, ServerListen, ServerOpens,
           ServerAcceptFails, ServerAccept, At, Opening
  <2> QED BY <1>0, <2>1 DEF TypeInv, ServerInv
<1>2. CASE ServerCloseListen
  BY <1>2 DEF ServerCloseListen, Goto
<1>3. CASE \/ \E n \in WholeBuffer : ServerRecv(n)
           \/ ServerEcho \/ ServerRecvFails
  BY <1>3 DEF ServerRecv, ServerEcho, ServerRecvFails, Goto, ReturnError
<1>4. CASE ServerSigPipe
  BY <1>4 DEF ServerSigPipe, SendKills
<1>5. CASE ServerEof
  BY <1>5 DEF ServerEof, Goto, At
<1>6. CASE ServerShutdown \/ ServerClose
  BY <1>6 DEF ServerShutdown, ServerClose, At
<1> QED BY <1>1, <1>2, <1>3, <1>4, <1>5, <1>6 DEF ServerStep

\* Past its loop the server receives nothing.
LEMMA ServerEndsReadNothing ==
  ServerStep /\ spc \in {"shutdown", "close"} => read' = read
<1> SUFFICES ASSUME ServerStep, spc \in {"shutdown", "close"} PROVE read' = read
  OBVIOUS
<1>1. ServerShutdown \/ ServerClose
  BY DEF ServerStep, ServerApplication, ServerResolve, ServerSocket, ServerBind, ServerListen,
         ServerOpens, ServerAccept, ServerAcceptFails, ServerCloseListen, ServerRecv, ServerEcho,
         ServerSigPipe, ServerEof, ServerRecvFails, At
<1> QED
  BY <1>1
     DEF ServerShutdown, ServerClose, ShutdownOk, ShutdownFails, CloseCall, CloseOpen,
         InvalidCall, CallFails, kernelVars

\* An accept, or its failure, is followed by the close of the listening socket.
LEMMA ServerAcceptStays == ServerStep /\ spc = "accept" => spc' = "closeListen"
BY DEF ServerStep, ServerApplication, ServerResolve, ServerSocket, ServerBind, ServerListen,
       ServerOpens, ServerAccept, ServerAcceptFails, ServerCloseListen, ServerRecv, ServerEcho,
       ServerSigPipe, ServerEof, ServerRecvFails, ServerShutdown, ServerClose, At, Goto,
       ReturnError

LEMMA EofMeansComplete ==
  ASSUME ReplyInv, DrainInv, conn \in Clients, spc = "recv", sret = 0, RecvEof(Srv(conn))
  PROVE  Complete
<1>1. rst[Srv(conn)] # "reported"
  BY DEF DrainInv, ResetIsError
<1>2. Unread(Srv(conn)) = 0 /\ fin[Cli(conn)]
  BY <1>1 DEF RecvEof, AtEnd, Peer, Srv, Cli
<1>3. Len(sent[Srv(conn)]) = read[Srv(conn)]
  BY DEF ReplyInv, Replying
<1> QED BY <1>2, <1>3 DEF Complete

LEMMA ServerKeepsDrain ==
  ASSUME TypeInv, ReplyInv, DrainInv, ServerStep, UNCHANGED clientVars
  PROVE  DrainInv'
<1>0. ServerTouches /\ LocalClient \notin killed /\ spc # "done"
  BY ServerTouchesOwn, ServerMoves
<1>1. FinLast'
  <2> SUFFICES ASSUME NEW c \in Clients, fin'[Srv(c)]
               PROVE  c = conn' /\ spc' \in Ending
    BY DEF FinLast
  <2>1. c = conn /\ spc \in {"shutdown", "close"}
    BY <1>0 DEF DrainInv, FinLast, ServerTouches, Ending
  <2> QED BY <2>1, ServerMoves
<1>2. ResetIsError'
  BY ServerMoves, <1>0 DEF DrainInv, ResetIsError, ServerTouches
<1>3. Drain'
  <2> SUFFICES ASSUME conn' \in Clients, LocalClient \notin killed', sret' = 0,
                      spc' \in {"shutdown", "close", "done"}
               PROVE  Complete'
    BY DEF Drain
  <2>1. CASE spc \in {"shutdown", "close"}
    <3>1. conn' = conn /\ sret = 0
      BY <2>1, ServerMoves DEF TypeInv, ServerInv, ServerTypeOK
    <3>2. Complete
      BY <1>0, <2>1, <3>1 DEF DrainInv, Drain
    <3>3. /\ sent'[Cli(conn)] = sent[Cli(conn)] /\ sent'[Srv(conn)] = sent[Srv(conn)]
          /\ fin'[Cli(conn)] = fin[Cli(conn)]
      BY <1>0, <2>1, <3>1 DEF ServerTouches
    <3>4. read' = read
      BY <2>1, ServerEndsReadNothing
    <3> QED BY <3>1, <3>2, <3>3, <3>4 DEF Complete, Unread, Peer, Srv, Cli
  <2>2. CASE spc \notin {"shutdown", "close"}
    <3>1. spc # "accept"
      BY ServerAcceptStays
    <3>2. conn' = conn
      BY <3>1, ServerMoves
    <3>3. spc = "recv" /\ RecvEof(Srv(conn)) /\ sret = 0
      BY <2>2, <3>2, ServerArrives
    <3>4. UNCHANGED <<sent, read, fin>>
      BY <3>3 DEF RecvEof, kernelVars
    <3>5. Complete
      BY <3>2, <3>3, EofMeansComplete
    <3> QED BY <3>2, <3>4, <3>5 DEF Complete, Unread
  <2> QED BY <2>1, <2>2
<1>4. ASSUME NEW c \in Clients PROVE ClientEnd(c)'
  <2>1. ClientEnd(c) /\ UNCHANGED <<cpc, verdict>>
    BY DEF DrainInv, clientVars
  <2>2. /\ killed \subseteq killed'
        /\ sent'[Cli(c)] = sent[Cli(c)] /\ read'[Cli(c)] = read[Cli(c)]
        /\ fin'[Cli(c)] = fin[Cli(c)]
        /\ rst'[Cli(c)] = "reported" => rst[Cli(c)] = "reported"
        /\ fin[Srv(c)] => fin'[Srv(c)]
    BY <1>0 DEF ServerTouches
  <2>3. fin[Srv(c)] => sent'[Srv(c)] = sent[Srv(c)]
    BY <1>0 DEF ServerTouches, DrainInv, FinLast, Ending
  <2>4. fin[Srv(c)] => Unread(Cli(c))' = Unread(Cli(c))
    BY <2>2, <2>3 DEF Unread, Peer, Srv, Cli
  <2> QED BY <2>1, <2>2, <2>4 DEF ClientEnd
<1> QED BY <1>1, <1>2, <1>3, <1>4 DEF DrainInv

\* Where a step of the client c leads.
LEMMA ClientMoves ==
  ASSUME TypeInv, NEW c \in Clients, ClientStep(c)
  PROVE  /\ c \notin killed /\ cpc[c] # "done"
         /\ cpc[c] \in Waiting => cpc'[c] \in Waiting
         /\ cpc[c] \in Ending => cpc'[c] \in Ending /\ verdict'[c] = verdict[c]
         /\ cpc'[c] \in {"shutdown", "recv"} =>
              cpc[c] \in {"shutdown", "recv"} \/ (cpc[c] = "send" /\ SendOk(Cli(c), Text))
         /\ verdict'[c] = verdict[c] \/ cpc'[c] \in Ending
         /\ verdict'[c] = "eof" => verdict[c] = "eof" \/ (cpc[c] = "recv" /\ RecvEof(Cli(c)))
<1>0. cpc \in [Clients -> ClientPcs] /\ verdict \in [Clients -> Verdicts]
  BY DEF TypeInv, ClientInv, ClientTypeOK
<1> USE DEF Waiting, Ending
<1>1. CASE ClientApplication(c) \/ ClientResolve(c) \/ ClientSocketFails(c) \/ ClientConnect(c)
  BY <1>0, <1>1
     DEF ClientApplication, ClientResolve, ClientSocketFails, ClientConnect, ClientAt, ClientGoto,
         ClientEnds
<1>2. CASE ClientRefused(c)
  BY <1>0, <1>2 DEF ClientRefused, ClientAt, ClientEnds
<1>3. CASE ClientSend(c) \/ ClientSigPipe(c)
  BY <1>0, <1>3 DEF ClientSend, ClientSigPipe, ClientAt, ClientGoto, ClientEnds, clientVars
<1>4. CASE ClientShutdown(c) \/ ClientClose(c)
  BY <1>0, <1>4 DEF ClientShutdown, ClientClose, ClientAt, ClientGoto, ClientEnds
<1>5. CASE (\E n \in WholeBuffer : ClientRecv(c, n)) \/ ClientRecvEnds(c)
  BY <1>0, <1>5 DEF ClientRecv, ClientRecvEnds, ClientAt, ClientGoto, ClientEnds, clientVars
<1> QED BY <1>1, <1>2, <1>3, <1>4, <1>5 DEF ClientStep

LEMMA SendsText ==
  ASSUME TypeInv, NEW c \in Clients, sent[Cli(c)] = <<>>, SendOk(Cli(c), Text)
  PROVE  sent'[Cli(c)] = Text
<1>1. sent'[Cli(c)] = sent[Cli(c)] \o Text
  BY EndpointFacts DEF SendOk, TypeInv, KernelInv, KernelTypeOK
<1>2. <<>> \o Text = Text
  BY ClientAssumption
<1> QED BY <1>1, <1>2

LEMMA ClientKeepsDrain ==
  ASSUME TypeInv, DrainInv, NEW c \in Clients, ClientStep(c), UNCHANGED serverVars
  PROVE  DrainInv'
<1>0. ClientTouches(c) /\ ServerEndsKept
  BY ClientTouchesOwn, ClientStepInv DEF TypeInv
<1>1. FinLast' /\ ResetIsError'
  BY <1>0 DEF DrainInv, FinLast, ResetIsError, ClientTouches, serverVars
<1>2. Drain'
  <2> SUFFICES ASSUME conn \in Clients, LocalClient \notin killed', sret = 0,
                      spc \in {"shutdown", "close", "done"}
               PROVE  Complete'
    BY DEF Drain, serverVars
  <2>1. Complete
    BY <1>0 DEF DrainInv, Drain, ClientTouches
  <2>2. conn = c => cpc[c] \in Waiting
    BY <2>1, ClientMoves DEF DrainInv, ClientEnd, Complete
  <2>3. sent'[Cli(conn)] = sent[Cli(conn)] /\ fin'[Cli(conn)]
    BY <1>0, <2>1, <2>2 DEF ClientTouches, Complete, Waiting
  <2>4. sent'[Srv(conn)] = sent[Srv(conn)] /\ read'[Srv(conn)] = read[Srv(conn)]
    BY <1>0 DEF ServerEndsKept
  <2> QED BY <2>1, <2>3, <2>4 DEF Complete, Unread, Peer, Srv, Cli, serverVars
<1>3. ASSUME NEW d \in Clients, d # c PROVE ClientEnd(d)'
  <2>1. ClientEnd(d)
    BY DEF DrainInv
  <2>2. /\ killed \subseteq killed'
        /\ fin'[Srv(d)] = fin[Srv(d)] /\ fin'[Cli(d)] = fin[Cli(d)]
        /\ rst'[Cli(d)] = "reported" => rst[Cli(d)] = "reported"
        /\ sent'[Cli(d)] = sent[Cli(d)] /\ cpc'[d] = cpc[d] /\ verdict'[d] = verdict[d]
    BY <1>0, <1>3 DEF ClientTouches
  <2>3. Unread(Cli(d))' = Unread(Cli(d))
    BY <1>0, <1>3 DEF ClientTouches, ServerEndsKept, Unread, Peer, Srv, Cli
  <2> QED BY <2>1, <2>2, <2>3 DEF ClientEnd
<1>4. ClientEnd(c)'
  <2>1. ClientEnd(c) /\ sent[Cli(c)] \in {<<>>, Text} /\ (cpc[c] = "send" => sent[Cli(c)] = <<>>)
    BY DEF DrainInv, TypeInv, ClientInv, ClientOpening
  <2>2. fin'[Cli(c)] => c \in killed' \/ cpc'[c] \in Waiting
    BY <1>0, <2>1, ClientMoves DEF ClientTouches, ClientEnd
  <2>3. cpc'[c] \in {"shutdown", "recv"} => sent'[Cli(c)] = Text
    BY <1>0, <2>1, ClientMoves, SendsText DEF ClientTouches, ClientEnd
  <2>4. rst'[Cli(c)] = "reported" => verdict'[c] = "error"
    BY <1>0, <2>1, ClientMoves DEF ClientTouches, ClientEnd
  <2>5. verdict'[c] \in {"error", "eof"} => cpc'[c] \in Ending
    BY <2>1, ClientMoves DEF ClientEnd
  <2>6. ASSUME verdict'[c] = "eof"
        PROVE  sent'[Cli(c)] = Text /\ fin'[Srv(c)] /\ Unread(Cli(c))' = 0
    <3>1. CASE verdict[c] = "eof"
      <4>1. cpc[c] \in Ending /\ sent[Cli(c)] = Text /\ fin[Srv(c)] /\ Unread(Cli(c)) = 0
        BY <2>1, <3>1 DEF ClientEnd
      <4>2. sent'[Cli(c)] = sent[Cli(c)] /\ read'[Cli(c)] = read[Cli(c)] /\ fin'[Srv(c)]
        BY <1>0, <4>1 DEF ClientTouches, Ending
      <4>3. sent'[Srv(c)] = sent[Srv(c)]
        BY <1>0 DEF ServerEndsKept
      <4> QED BY <4>1, <4>2, <4>3 DEF Unread, Peer, Srv, Cli
    <3>2. CASE cpc[c] = "recv" /\ RecvEof(Cli(c))
      <4>1. rst[Cli(c)] # "reported" /\ sent[Cli(c)] = Text
        BY <2>1, <3>2 DEF ClientEnd, Ending
      <4>2. Unread(Cli(c)) = 0 /\ fin[Srv(c)] /\ UNCHANGED <<sent, read, fin>>
        BY <3>2, <4>1 DEF RecvEof, AtEnd, kernelVars, Peer, Srv, Cli
      <4> QED BY <4>1, <4>2 DEF Unread
    <3> QED BY <2>6, <3>1, <3>2, ClientMoves
  <2> QED BY <2>2, <2>3, <2>4, <2>5, <2>6 DEF ClientEnd
<1> QED BY <1>1, <1>2, <1>3, <1>4 DEF DrainInv

LEMMA DrainInvStep == TypeInv /\ ReplyInv /\ DrainInv /\ [Next]_vars => DrainInv'
<1> SUFFICES ASSUME TypeInv, ReplyInv, DrainInv, [Next]_vars PROVE DrainInv'
  OBVIOUS
<1>0. /\ fin \in [Endpoints -> BOOLEAN] /\ rst \in [Endpoints -> RstStates]
      /\ cpc \in [Clients -> ClientPcs]
  BY DEF TypeInv, KernelInv, KernelTypeOK, ClientInv, ClientTypeOK
<1>1. CASE UNCHANGED vars
  BY <1>1, OthersKeepDrain DEF vars, serverVars, clientVars, kernelVars
<1>2. CASE Main
  <2>1. UNCHANGED <<sent, read, fin, rst, conn, sret, verdict>> /\ killed \subseteq killed'
    BY <1>2
       DEF Main, SpawnServer, SpawnClient, SpawnFails, JoinBoth, Goto, ClientGoto, serverVars,
           clientVars, kernelVars
  <2>2. \A d \in Clients : cpc'[d] = cpc[d] \/ (cpc[d] = "idle" /\ cpc'[d] \in {"start", "done"})
    BY <1>0, <1>2
       DEF Main, SpawnServer, SpawnClient, SpawnFails, JoinBoth, MainAt, ClientGoto, clientVars,
           TypeInv, MainInv
  <2>3. spc' = spc \/ (spc = "idle" /\ spc' = "start")
    BY <1>2
       DEF Main, SpawnServer, SpawnClient, SpawnFails, JoinBoth, MainAt, Goto, serverVars,
           TypeInv, MainInv
  <2> QED BY <2>1, <2>2, <2>3, OthersKeepDrain
<1>3. CASE ServerThread
  BY <1>3, ServerKeepsDrain DEF ServerThread
<1>4. ASSUME NEW c \in Clients, ClientThread(c) PROVE DrainInv'
  BY <1>4, ClientKeepsDrain DEF ClientThread
<1>5. CASE Network
  <2>1. UNCHANGED <<sent, read, fin, killed, serverVars, clientVars>>
    BY <1>5 DEF Network, DeliverRst
  <2>2. \A x \in Endpoints : rst'[x] = "reported" => rst[x] = "reported"
    BY <1>0, <1>5 DEF Network, DeliverRst
  <2>3. \A c \in Clients : /\ rst'[Srv(c)] = "reported" => rst[Srv(c)] = "reported"
                           /\ rst'[Cli(c)] = "reported" => rst[Cli(c)] = "reported"
    BY <2>2, EndpointFacts
  <2> QED BY <2>1, <2>3, OthersKeepDrain DEF serverVars, clientVars
<1>6. ASSUME NEW c \in Clients, StartRemote(c) PROVE DrainInv'
  <2>1. \A d \in Clients : cpc'[d] = cpc[d] \/ (cpc[d] = "idle" /\ cpc'[d] = "start")
    BY <1>0, <1>6 DEF StartRemote, ClientGoto
  <2> QED BY <1>6, <2>1, OthersKeepDrain DEF StartRemote, ClientGoto, serverVars, kernelVars
<1>7. ASSUME NEW c \in Clients, Reap(c) PROVE DrainInv'
  <2>0. c \in killed /\ UNCHANGED <<serverVars, clientVars>>
    BY <1>7 DEF Reap
  <2>1. CASE CloseListenerCall
    <3>1. /\ UNCHANGED <<sent, read, fin, killed>>
          /\ \A x \in Endpoints : rst'[x] = "reported" => rst[x] = "reported"
      BY <1>0, <2>1 DEF CloseListenerCall
    <3>2. \A d \in Clients : /\ rst'[Srv(d)] = "reported" => rst[Srv(d)] = "reported"
                             /\ rst'[Cli(d)] = "reported" => rst[Cli(d)] = "reported"
      BY <3>1, EndpointFacts
    <3> QED BY <2>0, <3>1, <3>2, OthersKeepDrain DEF serverVars, clientVars
  <2>2. ASSUME NEW x, CloseCall(x),
               x = Cli(c) \/ (x = Srv(conn) /\ c = LocalClient)
        PROVE  DrainInv'
    <3>1. /\ UNCHANGED <<sent, read, killed>>
          /\ \A y \in Endpoints : /\ fin[y] => fin'[y]
                                  /\ fin'[y] => fin[y] \/ y = x
                                  /\ rst'[y] = "reported" => rst[y] = "reported"
      BY <1>0, <2>2 DEF CloseCall, CloseOpen, InvalidCall, kernelVars
    <3>2. \A d \in Clients :
            /\ fin[Srv(d)] => fin'[Srv(d)]
            /\ fin[Cli(d)] => fin'[Cli(d)]
            /\ fin'[Srv(d)] => fin[Srv(d)] \/ (d = conn /\ LocalClient \in killed)
            /\ fin'[Cli(d)] => fin[Cli(d)] \/ d \in killed
            /\ rst'[Srv(d)] = "reported" => rst[Srv(d)] = "reported"
            /\ rst'[Cli(d)] = "reported" => rst[Cli(d)] = "reported"
      BY <2>0, <2>2, <3>1 DEF Endpoints, Srv, Cli
    <3> QED BY <2>0, <3>1, <3>2, OthersKeepDrain DEF serverVars, clientVars
  <2> QED BY <1>7, <2>1, <2>2 DEF Reap
<1> QED BY <1>1, <1>2, <1>3, <1>4, <1>5, <1>6, <1>7 DEF Next

LEMMA DrainCorrect == Spec => [](TypeInv /\ ReplyInv /\ DrainInv)
<1>1. Init => DrainInv
  BY DrainInvInit
<1>2. TypeInv /\ ReplyInv /\ DrainInv /\ [Next]_vars => DrainInv'
  BY DrainInvStep
<1> QED BY <1>1, <1>2, OneshotInv, PTL DEF Spec

LEMMA DrainImplies == TypeInv /\ ReplyInv /\ DrainInv => EofAfterWholeEcho
<1> SUFFICES ASSUME TypeInv, ReplyInv, DrainInv,
                    conn # NoClient, verdict[conn] = "eof", sret = 0, LocalClient \notin killed
             PROVE  read[Cli(conn)] = Len(Text) /\ sent[Srv(conn)] = Text
  BY DEF EofAfterWholeEcho
<1>1. conn \in Clients
  BY DEF TypeInv, ServerInv, ServerTypeOK
<1>2. sent[Cli(conn)] = Text /\ fin[Srv(conn)] /\ Unread(Cli(conn)) = 0
  BY <1>1 DEF DrainInv, ClientEnd
<1>3. spc \in Ending
  BY <1>1, <1>2 DEF DrainInv, FinLast
<1>4. Unread(Srv(conn)) = 0 /\ Len(sent[Srv(conn)]) = read[Srv(conn)]
  BY <1>1, <1>3 DEF DrainInv, Drain, Complete, Ending
<1>5. /\ sent[Srv(conn)] \in Seq(Byte) /\ Text \in Seq(Byte)
      /\ read[Srv(conn)] \in Nat /\ read[Cli(conn)] \in Nat
  BY <1>1, EndpointFacts, ClientAssumption DEF TypeInv, KernelInv, KernelTypeOK
<1>6. Len(sent[Srv(conn)]) = Len(Text) /\ read[Cli(conn)] = Len(Text)
  BY <1>2, <1>4, <1>5 DEF Unread, Peer, Srv, Cli
<1>7. \A i \in 1..Len(sent[Srv(conn)]) : sent[Srv(conn)][i] = Text[i]
  BY <1>1, <1>2 DEF ReplyInv, Replying
<1>8. sent[Srv(conn)] = Text
  BY <1>5, <1>6, <1>7
<1> QED BY <1>6, <1>8

\* A client that is told of the end of the stream has its whole text back,
\* unless the server reported an error or was killed: whatever the sizes of
\* the packets and whichever programs are paired.
THEOREM EofAfterWholeEchoHolds == Spec => []EofAfterWholeEcho
BY DrainCorrect, DrainImplies, PTL

-------------------------------------------------------------------------------
(* The programs without classes implement ServerContract, in mode 1. *)

Expecting == {"accept", "closeListen", "recv"}

LEMMA PhaseValues ==
  /\ LocalClient \in killed \/ spc \in Ending \/ sret = 1 => Phase = "over"
  /\ LocalClient \notin killed /\ sret = 0 /\ conn = NoClient /\ spc \in Expecting => Phase = "open"
  /\ LocalClient \notin killed /\ sret = 0 /\ conn = NoClient /\ spc \in Unheard => Phase = "closed"
  /\ LocalClient \notin killed /\ sret = 0 /\ conn \in Clients /\ spc \notin Ending =>
       Phase = "serving"
BY ServerAssumption DEF Phase, Ending, Expecting, Unheard

LEMMA PhaseValuesNext ==
  /\ LocalClient \in killed' \/ spc' \in Ending \/ sret' = 1 => Phase' = "over"
  /\ LocalClient \notin killed' /\ sret' = 0 /\ conn' = NoClient /\ spc' \in Expecting =>
       Phase' = "open"
  /\ LocalClient \notin killed' /\ sret' = 0 /\ conn' = NoClient /\ spc' \in Unheard =>
       Phase' = "closed"
  /\ LocalClient \notin killed' /\ sret' = 0 /\ conn' \in Clients /\ spc' \notin Ending =>
       Phase' = "serving"
BY ServerAssumption DEF Phase, Ending, Expecting, Unheard

\* What the server takes and gives, as the contract sees it.
Taken == IF conn = NoClient THEN 0 ELSE read[Srv(conn)]
Given == IF conn = NoClient THEN <<>> ELSE sent[Srv(conn)]
Failed == sret = 1 \/ LocalClient \in killed

\* A step of anybody but the server that does not kill it: clients act.
LEMMA OthersAct ==
  ASSUME TypeInv, TypeInv', StreamsGrow, ServerEndsKept, UNCHANGED <<conn, sret>>,
         spc' = spc \/ (spc = "idle" /\ spc' = "start"),
         LocalClient \in killed' <=> LocalClient \in killed,
         \A c \in Clients : fin[Cli(c)] => fin'[Cli(c)]
  PROVE  Contract!ClientActs
<1>1. Phase' = Phase
  <2>1. CASE spc' = spc
    BY <2>1 DEF Phase
  <2>2. CASE spc = "idle" /\ spc' = "start"
    BY <2>2 DEF Phase
  <2> QED BY <2>1, <2>2
<1>2. Taken' = Taken /\ Given' = Given
  BY DEF Taken, Given, ServerEndsKept, TypeInv, ServerInv, ServerTypeOK
<1>3. ASSUME NEW c \in Clients
      PROVE  /\ Len(sent[Cli(c)]) <= Len(sent'[Cli(c)])
             /\ SubSeq(sent'[Cli(c)], 1, Len(sent[Cli(c)])) = sent[Cli(c)]
  <2>1. Cli(c) \in Endpoints
    BY EndpointFacts
  <2>2. sent[Cli(c)] \in Seq(Byte) /\ sent'[Cli(c)] \in Seq(Byte)
    BY <2>1 DEF TypeInv, KernelInv, KernelTypeOK
  <2>3. Extends(sent[Cli(c)], sent'[Cli(c)])
    BY <2>1 DEF StreamsGrow
  <2> QED BY <2>2, <2>3, InitialPart DEF Extends
<1> QED
  BY <1>1, <1>2, <1>3 DEF Contract!ClientActs, Contract!exchange, Taken, Given

\* The frame of every step of the server: it does not act for the clients.
LEMMA ServerFrame ==
  ASSUME TypeInv, ServerStep
  PROVE  /\ [c \in Clients |-> sent[Cli(c)]]' = [c \in Clients |-> sent[Cli(c)]]
         /\ [c \in Clients |-> fin[Cli(c)]]' = [c \in Clients |-> fin[Cli(c)]]
BY ServerTouchesOwn DEF ServerTouches

LEMMA ServerStutters ==
  ASSUME TypeInv, UNCHANGED <<conn, sent, read, sret, killed>>, ServerStep, Phase' = Phase
  PROVE  UNCHANGED Contract!contractVars
BY ServerFrame DEF Contract!contractVars, Contract!clientSide, Contract!exchange

LEMMA ServerFails ==
  ASSUME TypeInv, UNCHANGED <<conn, sent, read>>, ServerStep, Failed'
  PROVE  Contract!Fail
<1>1. Phase' = "over"
  BY PhaseValuesNext DEF Failed
<1> QED BY <1>1, ServerFrame DEF Contract!Fail, Contract!clientSide, Contract!exchange, Failed

LEMMA ReceivingTakes ==
  ASSUME TypeInv, ReplyInv, SocketInv, ServerStep, NEW n \in WholeBuffer, ServerRecv(n)
  PROVE  Contract!Take
<1>1. /\ spc = "recv" /\ LocalClient \notin killed /\ spc' = "echo"
      /\ RecvData(Srv(conn), n) /\ UNCHANGED <<conn, sret>> /\ sret = 0
  BY DEF ServerRecv, RecvAndPrint, At, Goto, SocketInv, ServerSockets, TypeInv, ServerInv,
         ServerTypeOK
<1>2. /\ conn \in Clients /\ conn # NoClient /\ n \in Nat /\ n > 0
      /\ Srv(conn) \in Endpoints /\ Peer(Srv(conn)) = Cli(conn)
  BY <1>1, ValidServer, ServerAssumption, BufferAssumption, EndpointFacts
     DEF RecvData, WholeBuffer
<1>3. /\ UNCHANGED <<sent, killed>>
      /\ read'[Srv(conn)] = read[Srv(conn)] + n
      /\ read[Srv(conn)] \in Nat
      /\ n <= Len(sent[Cli(conn)]) - read[Srv(conn)]
  BY <1>1, <1>2 DEF RecvData, Unread, TypeInv, KernelInv, KernelTypeOK
<1>4. Phase = "serving" /\ Phase' = "serving"
  BY <1>1, <1>2, <1>3, PhaseValues, PhaseValuesNext DEF Ending
<1>5. Len(sent[Cli(conn)]) \in Nat
  BY <1>2, EndpointFacts DEF TypeInv, KernelInv, KernelTypeOK
<1>6. Len(sent[Srv(conn)]) = read[Srv(conn)]
  BY <1>1, <1>2 DEF ReplyInv, Replying
<1>7. read'[Srv(conn)] \in read[Srv(conn)] + 1..Len(sent[Cli(conn)])
  BY <1>2, <1>3, <1>5
<1> QED
  BY <1>1, <1>2, <1>3, <1>4, <1>6, <1>7, ServerFrame
     DEF Contract!Take, Contract!clientSide

LEMMA EchoReplies ==
  ASSUME TypeInv, TypeInv', ReplyInv, ReplyInv', SocketInv, ServerStep, At("echo"),
         SendOk(Srv(conn), Front(Srv(conn))), Goto("recv")
  PROVE  Contract!Reply
<1>1. /\ conn \in Clients /\ conn # NoClient /\ spc = "echo" /\ LocalClient \notin killed
      /\ UNCHANGED <<conn, sret, killed, read>> /\ spc' = "recv" /\ sret = 0
  BY ServerAssumption
     DEF At, Goto, SendOk, TypeInv, ServerInv, ServerTypeOK, SocketInv, ServerSockets
<1>2. Phase = "serving" /\ Phase' = "serving"
  BY <1>1, PhaseValues, PhaseValuesNext DEF Ending
<1>3. sent'[Cli(conn)] = sent[Cli(conn)]
  BY <1>1, ServerTouchesOwn DEF ServerTouches
<1>4. /\ Len(sent'[Srv(conn)]) = read[Srv(conn)]
      /\ \A i \in 1..Len(sent'[Srv(conn)]) : sent'[Srv(conn)][i] = sent[Cli(conn)][i]
  BY <1>1, <1>3 DEF ReplyInv, Replying
<1>5. /\ sent'[Srv(conn)] \in Seq(Byte) /\ sent[Cli(conn)] \in Seq(Byte)
      /\ read[Srv(conn)] <= Len(sent[Cli(conn)])
  BY <1>1, EndpointFacts DEF TypeInv, KernelInv, KernelTypeOK, ReadBound
<1>6. sent'[Srv(conn)] = SubSeq(sent[Cli(conn)], 1, read[Srv(conn)])
  BY <1>4, <1>5, InitialPart DEF Extends
<1> QED
  BY <1>1, <1>2, <1>6, ServerFrame DEF Contract!Reply, Contract!clientSide

\* The server is over in order once it has shut down, or in Python received
\* the end of the stream, and has then echoed all there was.
LEMMA EndFinishes ==
  ASSUME TypeInv, ReplyInv, ServerStep, conn \in Clients, Complete, sret = 0,
         LocalClient \notin killed, spc \notin Ending, spc' \in Ending,
         UNCHANGED <<conn, sret, killed, read, sent>>
  PROVE  Contract!Finish
<1>1. conn # NoClient
  BY ServerAssumption
<1>2. Phase = "serving" /\ Phase' = "over"
  BY PhaseValues, PhaseValuesNext
<1>3. read[Srv(conn)] \in Nat /\ Len(sent[Cli(conn)]) \in Nat
  BY EndpointFacts DEF TypeInv, KernelInv, KernelTypeOK
<1>4. /\ read[Srv(conn)] = Len(sent[Cli(conn)]) /\ fin[Cli(conn)]
      /\ Len(sent[Srv(conn)]) = read[Srv(conn)]
  BY <1>3 DEF Complete, Unread, Peer, Srv, Cli
<1> QED
  BY <1>1, <1>2, <1>4, ServerFrame
     DEF Contract!Finish, Contract!Complete, Contract!clientSide, Contract!exchange

LEMMA ServerStepContract ==
  ASSUME TypeInv, TypeInv', ReplyInv, ReplyInv', SocketInv, DrainInv, ServerStep
  PROVE  [Contract!Next]_Contract!contractVars
<1> USE DEF Contract!Next
<1>0. /\ sret \in {0, 1} /\ conn \in Clients \cup {NoClient} /\ LocalClient \notin killed
      /\ spc \in Opening => conn = NoClient /\ sret = 0
      /\ spc \in {"recv", "echo", "shutdown"} => sret = 0
      /\ sret = 1 /\ spc = "closeListen" => conn = NoClient
  BY ServerMoves DEF TypeInv, ServerInv, ServerTypeOK, SocketInv, ServerSockets, Opening
\* Giving up after a call that moved no bytes.
<1>1. ASSUME NEW pc, ReturnError(pc), UNCHANGED <<sent, read>> PROVE Contract!Fail
  BY <1>1, ServerFails DEF ReturnError, Failed
\* Going on after such a call.
<1>2. ASSUME UNCHANGED <<conn, sent, read, sret, killed>>, Phase' = Phase
      PROVE  UNCHANGED Contract!contractVars
  BY <1>2, ServerStutters
<1>3. /\ CallFails => UNCHANGED <<sent, read, killed>>
      /\ \A x : \/ SendFailsIn(LocalClient, x) \/ RecvFails(x) \/ RecvEof(x) \/ ShutdownFails(x)
                \/ InvalidCall(x) \/ CloseCall(x)
           => UNCHANGED <<sent, read, killed>>
  BY DEF CallFails, InvalidCall, SendFailsIn, SendFails, RecvFails, RecvEof, ShutdownFails,
         CloseCall, CloseOpen, ReportReset, kernelVars
<1>4. CASE ServerApplication
  <2>1. /\ conn = NoClient /\ sret = 0 /\ spc = "start"
        /\ UNCHANGED <<conn, sret, sent, read, killed>>
        /\ spc' = "resolve" \/ spc' = "done"
    BY <1>0, <1>4 DEF ServerApplication, At, Goto, Opening, kernelVars
  <2>2. Phase = "closed"
    BY <1>0, <2>1, PhaseValues DEF Unheard
  <2>3. CASE spc' = "resolve"
    <3>1. Phase' = "closed"
      BY <1>0, <2>1, <2>3, PhaseValuesNext DEF Unheard
    <3> QED BY <1>2, <2>1, <2>2, <3>1
  <2>4. CASE spc' = "done"
    <3>1. Phase' = "over"
      BY <2>4, PhaseValuesNext DEF Ending
    <3>2. Contract!Skip
      BY <2>1, <2>2, <3>1, ServerFrame
         DEF Contract!Skip, Contract!clientSide, Contract!exchange
    <3> QED BY <3>2
  <2> QED BY <2>1, <2>3, <2>4
<1>5. CASE ServerResolve \/ ServerSocket \/ ServerBind \/ ServerListen
  <2>1. /\ conn = NoClient /\ sret = 0 /\ spc \in Unheard
        /\ UNCHANGED <<conn, sent, read, killed>>
        /\ \/ \E pc : ReturnError(pc)
           \/ sret' = sret /\ spc' \in Unheard \cup {"accept"}
    BY <1>0, <1>3, <1>5
       DEF ServerResolve, ServerSocket, ServerBind, ServerListen, ServerOpens, ListenerBecomes,
           At, Goto, ReturnError, Opening, Unheard, kernelVars
  <2>2. Phase = "closed"
    BY <1>0, <2>1, PhaseValues
  <2>3. CASE sret' = sret /\ spc' \in Unheard
    <3>1. Phase' = "closed"
      BY <1>0, <2>1, <2>3, PhaseValuesNext
    <3> QED BY <1>2, <2>1, <2>2, <2>3, <3>1
  <2>4. CASE sret' = sret /\ spc' = "accept"
    <3>1. Phase' = "open"
      BY <1>0, <2>1, <2>4, PhaseValuesNext DEF Expecting
    <3>2. Contract!Open
      BY <2>1, <2>2, <2>4, <3>1, ServerFrame
         DEF Contract!Open, Contract!clientSide, Contract!exchange
    <3> QED BY <3>2
  <2> QED BY <1>1, <2>1, <2>3, <2>4
<1>6. ASSUME NEW c \in Clients, ServerAccept(c) PROVE Contract!Accept
  <2>1. /\ conn = NoClient /\ sret = 0 /\ conn' = c /\ conn' # NoClient /\ spc = "accept"
        /\ spc' = "closeListen"
        /\ UNCHANGED <<sent, read, killed, sret>>
    BY <1>0, <1>6, ServerAssumption DEF ServerAccept, AcceptCall, At, Opening
  <2>2. Phase = "open" /\ Phase' = "serving"
    BY <1>0, <2>1, PhaseValues, PhaseValuesNext DEF Expecting, Ending
  <2>3. read'[Srv(c)] = 0 /\ sent'[Srv(c)] = <<>>
    BY <2>1, ServerAssumption DEF ReplyInv, Untouched
  <2> QED
    BY <2>1, <2>2, <2>3, ServerFrame
       DEF Contract!Accept, Contract!clientSide, Contract!exchange
<1>7. CASE ServerAcceptFails
  <2>1. /\ conn = NoClient /\ sret = 0 /\ spc = "accept"
        /\ UNCHANGED <<conn, sent, read, killed>>
        /\ ReturnError("closeListen") \/ Goto("closeListen")
    BY <1>0, <1>3, <1>7 DEF ServerAcceptFails, At, Goto, ReturnError, Opening
  <2>2. CASE Goto("closeListen")
    <3>1. Phase = "open" /\ Phase' = "open" /\ sret' = sret
      BY <1>0, <2>1, <2>2, PhaseValues, PhaseValuesNext DEF Expecting, Goto
    <3> QED BY <1>2, <2>1, <3>1
  <2> QED BY <1>1, <2>1, <2>2
<1>8. CASE ServerCloseListen
  <2>1. /\ spc = "closeListen" /\ spc' = IF sret = 1 THEN "done" ELSE "recv"
        /\ UNCHANGED <<conn, sret, sent, read, killed>>
    BY <1>8 DEF ServerCloseListen, CloseListenerCall, At, Goto
  <2>2. Phase' = Phase
    <3>1. CASE sret = 1
      BY <2>1, <3>1, PhaseValues, PhaseValuesNext
    <3>2. CASE sret = 0 /\ conn = NoClient
      BY <1>0, <2>1, <3>2, PhaseValues, PhaseValuesNext DEF Expecting
    <3>3. CASE sret = 0 /\ conn \in Clients
      BY <1>0, <2>1, <3>3, PhaseValues, PhaseValuesNext DEF Ending
    <3> QED BY <1>0, <3>1, <3>2, <3>3
  <2> QED BY <1>2, <2>1, <2>2
<1>9. CASE \E n \in WholeBuffer : ServerRecv(n)
  BY <1>9, ReceivingTakes
<1>10. CASE ServerEcho
  <2>1. CASE SendOk(Srv(conn), Front(Srv(conn))) /\ Goto("recv")
    BY <1>10, <2>1, EchoReplies DEF ServerEcho
  <2>2. CASE SendFailsIn(LocalClient, Srv(conn)) /\ ReturnError("close")
    BY <1>1, <1>3, <2>2
  <2> QED BY <1>10, <2>1, <2>2 DEF ServerEcho
<1>11. CASE ServerSigPipe
  <2>1. LocalClient \in killed' /\ UNCHANGED <<conn, sent, read>>
    BY <1>11 DEF ServerSigPipe, SendKills, serverVars
  <2> QED BY <2>1, ServerFails DEF Failed
<1>12. CASE ServerEof
  <2>1. /\ spc = "recv" /\ sret = 0 /\ spc' \in {"close", "shutdown"}
        /\ UNCHANGED <<conn, sret, sent, read, fin, killed>> /\ RecvEof(Srv(conn))
    BY <1>0, <1>12 DEF ServerEof, AfterEof, RecvEof, At, Goto, kernelVars
  <2>2. conn \in Clients
    BY <2>1, ValidServer DEF RecvEof
  <2>3. CASE spc' = "shutdown"
    <3>1. Phase = "serving" /\ Phase' = "serving"
      BY <1>0, <2>1, <2>2, <2>3, PhaseValues, PhaseValuesNext DEF Ending
    <3> QED BY <1>2, <2>1, <3>1
  <2>4. CASE spc' = "close"
    <3>1. Complete
      BY <2>1, <2>2, EofMeansComplete
    <3>2. Contract!Finish
      BY <1>0, <2>1, <2>2, <2>4, <3>1, EndFinishes DEF Ending
    <3> QED BY <3>2
  <2> QED BY <2>1, <2>3, <2>4
<1>13. CASE ServerRecvFails
  BY <1>1, <1>3, <1>13 DEF ServerRecvFails
<1>14. CASE ServerShutdown
  <2>1. CASE ShutdownOk(Srv(conn)) /\ Goto("close")
    <3>1. /\ spc = "shutdown" /\ sret = 0 /\ spc' = "close"
          /\ UNCHANGED <<conn, sret, sent, read, killed>>
      BY <1>0, <1>14, <2>1 DEF ServerShutdown, ShutdownOk, At, Goto
    <3>2. conn \in Clients
      BY <2>1, ValidServer DEF ShutdownOk
    <3>3. Complete
      BY <1>0, <3>1, <3>2 DEF DrainInv, Drain
    <3>4. Contract!Finish
      BY <1>0, <3>1, <3>2, <3>3, EndFinishes DEF Ending
    <3> QED BY <3>4
  <2>2. CASE ShutdownFails(Srv(conn)) /\ ReturnError("close")
    BY <1>1, <1>3, <2>2
  <2> QED BY <1>14, <2>1, <2>2 DEF ServerShutdown
<1>15. CASE ServerClose
  <2>1. /\ spc = "close" /\ spc' = "done"
        /\ UNCHANGED <<conn, sent, read, sret, killed>>
    BY <1>3, <1>15 DEF ServerClose, At, Goto
  <2>2. Phase' = Phase
    BY <2>1, PhaseValues, PhaseValuesNext DEF Ending
  <2> QED BY <1>2, <2>1, <2>2
<1> QED
  BY <1>4, <1>5, <1>6, <1>7, <1>8, <1>9, <1>10, <1>11, <1>12, <1>13, <1>14, <1>15 DEF ServerStep

\* The process of the server ends with the one of its thread that is killed.
LEMMA LocalProgramDies ==
  ASSUME UNCHANGED <<sent, read, fin, conn, sret>>, LocalClient \in killed'
  PROVE  Contract!Fail
<1>1. Phase' = "over"
  BY PhaseValuesNext
<1> QED BY <1>1 DEF Contract!Fail, Contract!clientSide, Contract!exchange

LEMMA ClientStepContract ==
  ASSUME TypeInv, TypeInv', StreamsGrow, NEW c \in Clients, ClientStep(c), UNCHANGED serverVars
  PROVE  Contract!Next
<1>1. ServerEndsKept /\ ClientTouches(c)
  BY ClientStepInv, ClientTouchesOwn DEF TypeInv
<1>2. CASE LocalClient \in killed' <=> LocalClient \in killed
  <2>1. Contract!ClientActs
    BY <1>1, <1>2, OthersAct DEF ClientTouches, serverVars
  <2> QED BY <2>1 DEF Contract!Next
<1>3. CASE LocalClient \in killed' /\ LocalClient \notin killed
  <2>1. ClientSigPipe(c)
    BY <1>3
       DEF ClientStep, ClientApplication, ClientResolve, ClientSocketFails, ClientConnect,
           ClientRefused, ClientSend, ClientShutdown, ClientRecv, RecvAndPrint, ClientRecvEnds,
           ClientClose, kernelVars, CallFails, InvalidCall, ConnectCall, SendOk, SendFailsIn,
           SendFails, ReportReset, RecvData, ShutdownOk, ShutdownFails, RecvEof, RecvFails,
           CloseCall, CloseOpen
  <2>2. UNCHANGED <<sent, read, fin, conn, sret>>
    BY <2>1 DEF ClientSigPipe, SendKills, serverVars
  <2> QED BY <1>3, <2>2, LocalProgramDies DEF Contract!Next
<1>4. killed \subseteq killed'
  BY <1>1 DEF ClientTouches
<1> QED BY <1>2, <1>3, <1>4

LEMMA MainContract ==
  ASSUME TypeInv, TypeInv', StreamsGrow, Main
  PROVE  Contract!Next
<1>1. UNCHANGED <<sent, read, fin, conn, sret, ioVars>>
  BY DEF Main, SpawnServer, SpawnClient, SpawnFails, JoinBoth, Goto, serverVars, kernelVars
<1>2. spc' = spc \/ (spc = "idle" /\ spc' = "start")
  BY DEF Main, SpawnServer, SpawnClient, SpawnFails, JoinBoth, MainAt, Goto, serverVars,
         TypeInv, MainInv
<1>3. killed' = killed \/ LocalClient \in killed'
  BY DEF Main, SpawnServer, SpawnClient, SpawnFails, JoinBoth, kernelVars
<1>4. CASE killed' = killed
  BY <1>1, <1>2, <1>4, OthersAct DEF ServerEndsKept, Contract!Next, ioVars
<1>5. CASE LocalClient \in killed'
  BY <1>1, <1>5, LocalProgramDies DEF Contract!Next
<1> QED BY <1>3, <1>4, <1>5

LEMMA ContractInit == Init => Contract!Init
<1> SUFFICES ASSUME Init PROVE Contract!Init
  OBVIOUS
<1>1. /\ spc = "idle" /\ conn = NoClient /\ sret = 0 /\ killed = {}
      /\ \A x \in Endpoints : sent[x] = <<>> /\ fin[x] = FALSE
  BY DEF Init, ServerInit, KernelInit
<1>2. Phase = "closed"
  BY <1>1, PhaseValues DEF Unheard
<1>3. (sret = 1 \/ LocalClient \in killed) = FALSE
  BY <1>1
<1>4. /\ (IF conn = NoClient THEN 0 ELSE read[Srv(conn)]) = 0
      /\ (IF conn = NoClient THEN <<>> ELSE sent[Srv(conn)]) = <<>>
  BY <1>1
<1>5. /\ [c \in Clients |-> sent[Cli(c)]] = [c \in Clients |-> <<>>]
      /\ [c \in Clients |-> fin[Cli(c)]] = [c \in Clients |-> FALSE]
  BY <1>1, EndpointFacts
<1>6. 1 \in 1..5
  OBVIOUS
<1> QED BY <1>1, <1>2, <1>3, <1>4, <1>5, <1>6 DEF Contract!Init

LEMMA ContractStep ==
  TypeInv /\ ReplyInv /\ SocketInv /\ DrainInv /\ [Next]_vars =>
    [Contract!Next]_Contract!contractVars
<1> SUFFICES ASSUME TypeInv, ReplyInv, SocketInv, DrainInv, [Next]_vars
             PROVE  [Contract!Next]_Contract!contractVars
  OBVIOUS
<1>0. TypeInv' /\ StreamsGrow /\ ReplyInv' /\ fin \in [Endpoints -> BOOLEAN]
  BY TypeInvStep, ReplyInvStep DEF TypeInv, KernelInv, KernelTypeOK
<1>1. CASE UNCHANGED vars
  BY <1>1
     DEF vars, serverVars, kernelVars, Contract!contractVars, Contract!clientSide,
         Contract!exchange, Phase
<1>2. CASE Main
  BY <1>0, <1>2, MainContract
<1>3. CASE ServerThread
  BY <1>0, <1>3, ServerStepContract DEF ServerThread
<1>4. ASSUME NEW c \in Clients, ClientThread(c) PROVE Contract!Next
  BY <1>0, <1>4, ClientStepContract DEF ClientThread
<1>5. ASSUME UNCHANGED <<serverVars, ioVars, sent, read, killed>>,
             \A y \in Endpoints : fin[y] => fin'[y]
      PROVE  Contract!Next
  <2>1. Contract!ClientActs
    BY <1>0, <1>5, OthersAct, EndpointFacts DEF ServerEndsKept, serverVars, ioVars
  <2> QED BY <2>1 DEF Contract!Next
<1>6. CASE Network
  BY <1>5, <1>6 DEF Network, DeliverRst
<1>7. ASSUME NEW c \in Clients, StartRemote(c) PROVE Contract!Next
  BY <1>5, <1>7 DEF StartRemote, kernelVars
<1>8. ASSUME NEW c \in Clients, Reap(c) PROVE Contract!Next
  <2>1. CASE CloseListenerCall
    BY <1>5, <1>8, <2>1 DEF Reap, CloseListenerCall
  <2>2. ASSUME NEW x, CloseCall(x) PROVE Contract!Next
    <3>1. UNCHANGED <<sent, read, killed>> /\ \A y \in Endpoints : fin[y] => fin'[y]
      BY <1>0, <2>2 DEF CloseCall, CloseOpen, InvalidCall, kernelVars
    <3> QED BY <1>5, <1>8, <3>1 DEF Reap
  <2> QED BY <1>8, <2>1, <2>2 DEF Reap
<1> QED BY <1>1, <1>2, <1>3, <1>4, <1>6, <1>7, <1>8 DEF Next

\* The programs without classes, mixed at will, do nothing the abstract echo
\* server would not: it opens once, serves one client, gives it back what it
\* took in order and finishes with all of it, or fails.
THEOREM ContractKept == Spec => KeepsContract
<1>1. Init => Contract!Init
  BY ContractInit
<1>2. TypeInv /\ ReplyInv /\ SocketInv /\ DrainInv /\ [Next]_vars =>
        [Contract!Next]_Contract!contractVars
  BY ContractStep
<1> QED
  BY <1>1, <1>2, SocketsCorrect, DrainCorrect, PTL DEF Spec, KeepsContract, Contract!SafeSpec
-------------------------------------------------------------------------------
(* Who breaks a pipe. *)

\* While no call has failed by itself and the client served is not Python's.
Calm == faults = 0 /\ (conn \in Clients => Program(conn) # "python")

\* The clients the server has, or is yet to be done with.
Attached(c) == sock[Srv(c)] = "queued" \/ (c = conn /\ spc \notin Ending)

\* Such a client is in the middle of its exchange, and nothing has gone wrong.
Waits(c) == /\ cpc[c] \in {"send", "shutdown", "recv"}
            /\ sock[Cli(c)] = "open" /\ (c = conn => sock[Srv(c)] = "open")
            /\ rst[Cli(c)] = "none" /\ rst[Srv(c)] = "none" /\ ~fin[Srv(c)]

Quiet == /\ killed = {}
         /\ conn \in Clients => sret = 0
         /\ \A c \in Clients : Attached(c) => Waits(c)

Unused(c) == /\ sock[Cli(c)] = "none" /\ sock[Srv(c)] = "none"
             /\ rst[Cli(c)] = "none" /\ rst[Srv(c)] = "none" /\ ~fin[Srv(c)]

Unconnected == \A c \in Clients :
                 cpc[c] \in {"idle", "start", "resolve", "connect"} => Unused(c)

\* The clients in the backlog wait to be accepted, each of them once.
Queue == \A i \in 1..Len(backlog) :
           /\ sock[Srv(backlog[i])] = "queued"
           /\ \A j \in 1..Len(backlog) : backlog[i] = backlog[j] => i = j

PipeInv == (Calm => Quiet) /\ Unconnected /\ Queue

\* What a step leaves as it was at both ends of the connection of c.
SameEnds(c) == /\ sock'[Cli(c)] = sock[Cli(c)] /\ sock'[Srv(c)] = sock[Srv(c)]
               /\ rst'[Cli(c)] = rst[Cli(c)] /\ rst'[Srv(c)] = rst[Srv(c)]
               /\ fin'[Srv(c)] = fin[Srv(c)]

LEMMA PipeTypes ==
  TypeInv => /\ sock \in [Endpoints -> SockStates] /\ rst \in [Endpoints -> RstStates]
             /\ fin \in [Endpoints -> BOOLEAN] /\ faults \in Nat /\ backlog \in Seq(Clients)
             /\ cpc \in [Clients -> ClientPcs] /\ read \in [Endpoints -> Nat]
             /\ conn \in Clients \cup {NoClient} /\ sret \in {0, 1} /\ NoClient \notin Clients
             /\ spc \in Opening => conn = NoClient
BY ServerAssumption
   DEF TypeInv, KernelInv, KernelTypeOK, ClientInv, ClientTypeOK, ServerInv, ServerTypeOK

\* Failures are not taken back, and a client once accepted stays the one.
LEMMA CalmBefore ==
  ASSUME TypeInv, faults' \in Nat, faults' >= faults, UNCHANGED cfg,
         conn' = conn \/ conn \notin Clients, Calm'
  PROVE  Calm
BY PipeTypes DEF Calm, Program

LEMMA SameQueue ==
  ASSUME TypeInv, Queue, backlog' = backlog,
         \A c \in Clients : sock[Srv(c)] = "queued" => sock'[Srv(c)] = "queued"
  PROVE  Queue'
<1> SUFFICES ASSUME NEW i \in 1..Len(backlog)
             PROVE  /\ sock'[Srv(backlog[i])] = "queued"
                    /\ \A j \in 1..Len(backlog) : backlog[i] = backlog[j] => i = j
  BY DEF Queue
<1>1. backlog[i] \in Clients
  BY PipeTypes
<1> QED BY <1>1 DEF Queue

\* Between opening the socket and the end the server acts on one connection,
\* and only while its end of it is open.
LEMMA ServerActsOnConn ==
  ASSUME TypeInv, ServerStep, spc \notin {"accept", "closeListen"}
  PROVE  /\ backlog' = backlog /\ faults' \in {faults, faults + 1}
         /\ conn \in Clients \/ killed' = killed
         /\ \A c \in Clients : /\ sock'[Cli(c)] = sock[Cli(c)]
                               /\ sock'[Srv(c)] \in {sock[Srv(c)], "closed"}
                               /\ c # conn \/ sock[Srv(c)] # "open" => SameEnds(c)
<1> USE EndpointFacts
<1>0. /\ sock \in [Endpoints -> SockStates] /\ rst \in [Endpoints -> RstStates]
      /\ fin \in [Endpoints -> BOOLEAN]
  BY PipeTypes
<1> DEFINE Acts == /\ backlog' = backlog /\ faults' \in {faults, faults + 1}
                   /\ conn \in Clients \/ killed' = killed
                   /\ \A c \in Clients : /\ sock'[Cli(c)] = sock[Cli(c)]
                                         /\ sock'[Srv(c)] \in {sock[Srv(c)], "closed"}
                                         /\ c # conn \/ sock[Srv(c)] # "open" => SameEnds(c)
<1>1. CASE \/ ServerApplication \/ ServerResolve \/ ServerSocket \/ ServerBind \/ ServerListen
  BY <1>1
     DEF ServerApplication, ServerResolve, ServerSocket, ServerBind, ServerListen, ServerOpens,
         ListenerBecomes, CallFails, kernelVars, SameEnds
<1>2. CASE ServerAcceptFails \/ ServerCloseListen \/ \E c \in Clients : ServerAccept(c)
  BY <1>2 DEF ServerAcceptFails, ServerCloseListen, ServerAccept, At
<1>3. CASE \/ \E n \in WholeBuffer : ServerRecv(n)
           \/ ServerSigPipe \/ ServerEof
  <2>1. ServerSigPipe => conn \in Clients
    BY DEF ServerSigPipe, SendKills, BrokenPipe, Valid, Srv, Endpoints
  <2> QED
    BY <1>3, <2>1
       DEF ServerRecv, RecvAndPrint, RecvData, ServerSigPipe, SendKills, ServerEof, RecvEof,
           kernelVars, SameEnds
<1>4. ASSUME UNCHANGED <<backlog, sock, fin, killed>>, faults' \in {faults, faults + 1},
             \/ rst' = rst
             \/ Valid(Srv(conn)) /\ \E r : rst' = [rst EXCEPT ![Srv(conn)] = r]
      PROVE  Acts
  BY <1>0, <1>4 DEF Valid, SameEnds
<1>5. CASE ServerEcho \/ ServerRecvFails
  <2>1. CASE SendOk(Srv(conn), Front(Srv(conn)))
    <3>1. /\ UNCHANGED <<backlog, sock, fin, killed, faults>> /\ Valid(Srv(conn))
          /\ rst' = rst \/ rst' = [rst EXCEPT ![Srv(conn)] = "flying"]
      BY <2>1 DEF SendOk
    <3> QED BY <1>4, <3>1
  <2>2. CASE SendFailsIn(LocalClient, Srv(conn)) \/ RecvFails(Srv(conn))
    <3>1. /\ UNCHANGED <<backlog, sock, fin, killed>> /\ faults' \in {faults, faults + 1}
          /\ \/ rst' = rst
             \/ Valid(Srv(conn)) /\ rst' = [rst EXCEPT ![Srv(conn)] = "reported"]
      BY <2>2
         DEF SendFailsIn, SendFails, RecvFails, BrokenPipe, ReportReset, CallFails, InvalidCall,
             kernelVars
    <3> QED BY <1>4, <3>1
  <2> QED BY <1>5, <2>1, <2>2 DEF ServerEcho, ServerRecvFails
<1>6. CASE ServerShutdown
  BY <1>0, <1>6
     DEF ServerShutdown, ShutdownOk, ShutdownFails, Valid, CallFails, InvalidCall, kernelVars,
         SameEnds
<1>7. CASE ServerClose
  <2>1. CASE CloseOpen(Srv(conn))
    <3>1. /\ Srv(conn) \in Endpoints /\ sock[Srv(conn)] = "open"
          /\ UNCHANGED <<backlog, killed, faults>> /\ sock' = [sock EXCEPT ![Srv(conn)] = "closed"]
      BY <2>1 DEF CloseOpen, Valid
    <3>2. conn \in Clients
      BY <3>1 DEF Srv, Endpoints
    <3>3. \A x \in Endpoints : /\ x # Srv(conn) => sock'[x] = sock[x] /\ fin'[x] = fin[x]
                               /\ x # Cli(conn) => rst'[x] = rst[x]
      BY <1>0, <2>1, <3>2 DEF CloseOpen
    <3>4. ASSUME NEW c \in Clients
          PROVE  sock'[Cli(c)] = sock[Cli(c)] /\ sock'[Srv(c)] \in {sock[Srv(c)], "closed"}
      <4>1. \A x \in Endpoints : sock'[x] = IF x = Srv(conn) THEN "closed" ELSE sock[x]
        BY <1>0, <3>1
      <4> QED BY <4>1
    <3>5. ASSUME NEW c \in Clients, c # conn PROVE SameEnds(c)
      <4>1. Cli(c) # Srv(conn) /\ Srv(c) # Srv(conn) /\ Cli(c) # Cli(conn) /\ Srv(c) # Cli(conn)
        BY <3>2, <3>5
      <4>2. Cli(c) \in Endpoints /\ Srv(c) \in Endpoints
        OBVIOUS
      <4> QED BY <3>3, <4>1, <4>2 DEF SameEnds
    <3> QED BY <3>1, <3>4, <3>5
  <2>2. CASE InvalidCall(Srv(conn))
    BY <2>2 DEF InvalidCall, kernelVars, SameEnds
  <2> QED BY <1>7, <2>1, <2>2 DEF ServerClose, CloseCall
<1> QED BY <1>1, <1>2, <1>3, <1>5, <1>6, <1>7 DEF ServerStep

\* With a client that waits, and no call failing by itself, the server is never
\* told of a reset and no error is returned.
LEMMA ServerServesCalmly ==
  ASSUME TypeInv, ServerStep, spc \notin {"accept", "closeListen"}, faults' = 0,
         faults = 0, conn \in Clients, sret = 0, killed = {}, spc \notin Ending => Waits(conn)
  PROVE  /\ sret' = 0 /\ killed' = {} /\ conn' = conn
         /\ spc' \notin Ending => SameEnds(conn) /\ spc \notin Ending
<1> USE EndpointFacts
<1>0. /\ sock \in [Endpoints -> SockStates] /\ rst \in [Endpoints -> RstStates]
      /\ fin \in [Endpoints -> BOOLEAN] /\ spc \notin Opening /\ conn # NoClient
  BY PipeTypes
<1>1. spc \notin Ending => Valid(Srv(conn)) /\ rst[Srv(conn)] = "none"
  BY DEF Waits, Valid
<1>2. /\ ~CallFails
      /\ spc \notin Ending => ~InvalidCall(Srv(conn))
  BY <1>1 DEF CallFails, InvalidCall
<1>3. CASE ServerShutdown
  <2>1. spc = "shutdown"
    BY <1>3 DEF ServerShutdown, At
  <2>2. ~ShutdownFails(Srv(conn))
    BY <1>1, <1>2, <2>1 DEF ShutdownFails, Ending
  <2> QED BY <1>3, <2>2 DEF ServerShutdown, ShutdownOk, Goto, Ending
<1>4. CASE ServerClose
  BY <1>4
     DEF ServerClose, At, Goto, CloseCall, CloseOpen, InvalidCall, kernelVars, Ending
<1>5. CASE ServerEcho
  <2>1. spc = "echo"
    BY <1>5 DEF ServerEcho, At
  <2>2. ~SendFailsIn(LocalClient, Srv(conn))
    BY <1>1, <1>2, <2>1 DEF SendFailsIn, SendFails, BrokenPipe, Ending
  <2>3. SendOk(Srv(conn), Front(Srv(conn))) /\ Goto("recv")
    BY <1>5, <2>2 DEF ServerEcho
  <2>4. sock[Cli(conn)] = "open"
    BY <2>1 DEF Waits, Ending
  <2>5. UNCHANGED <<sock, rst, fin, killed>>
    BY <2>3, <2>4 DEF SendOk
  <2> QED BY <2>1, <2>3, <2>5 DEF Goto, SameEnds, Ending
<1>6. CASE ServerSigPipe
  BY <1>1, <1>6 DEF ServerSigPipe, SendKills, BrokenPipe, At, Ending
<1>7. CASE ServerRecvFails
  BY <1>1, <1>2, <1>7 DEF ServerRecvFails, RecvFails, At, Ending
<1>8. CASE ServerEof \/ \E n \in WholeBuffer : ServerRecv(n)
  BY <1>8
     DEF ServerRecv, RecvAndPrint, RecvData, ServerEof, RecvEof, At, Goto, kernelVars, SameEnds,
         Ending
<1>9. spc \notin {"start", "resolve", "socket", "bind", "listen"}
  BY <1>0 DEF Opening
<1> QED
  BY <1>3, <1>4, <1>5, <1>6, <1>7, <1>8, <1>9
     DEF ServerStep, ServerApplication, ServerResolve, ServerSocket, ServerBind, ServerListen,
         ServerOpens, ServerAcceptFails, ServerCloseListen, ServerAccept, At

LEMMA AcceptKeepsPipes ==
  ASSUME TypeInv, SocketInv, DrainInv, PipeInv, NEW c \in Clients, ServerAccept(c),
         UNCHANGED <<cfg, cpc>>
  PROVE  PipeInv'
<1> USE EndpointFacts
<1>0. /\ sock \in [Endpoints -> SockStates] /\ backlog \in Seq(Clients)
      /\ conn = NoClient /\ NoClient \notin Clients /\ sret = 0
  BY PipeTypes DEF ServerAccept, At, Opening, SocketInv, ServerSockets
<1>1. /\ backlog # <<>> /\ c = Head(backlog) /\ backlog' = Tail(backlog)
      /\ sock' = [sock EXCEPT ![Srv(c)] = "open"]
      /\ UNCHANGED <<rst, fin, killed, faults, sret>>
      /\ conn' = c /\ spc' = "closeListen"
  BY DEF ServerAccept, AcceptCall
<1>2. c = backlog[1] /\ 1 \in 1..Len(backlog)
  BY <1>0, <1>1
<1>3. sock[Srv(c)] = "queued" /\ \A j \in 1..Len(backlog) : backlog[j] = c => j = 1
  BY <1>2 DEF PipeInv, Queue
<1>4. Queue'
  <2> SUFFICES ASSUME NEW i \in 1..Len(backlog')
               PROVE  /\ sock'[Srv(backlog'[i])] = "queued"
                      /\ \A j \in 1..Len(backlog') : backlog'[i] = backlog'[j] => i = j
    BY DEF Queue
  <2>1. /\ Len(backlog') = Len(backlog) - 1
        /\ \A j \in 1..Len(backlog') : j + 1 \in 1..Len(backlog) /\ backlog'[j] = backlog[j + 1]
    BY <1>0, <1>1
  <2>2. backlog[i + 1] \in Clients /\ backlog[i + 1] # c
    BY <1>0, <1>3, <2>1
  <2>3. \A j \in 1..Len(backlog) : backlog[i + 1] = backlog[j] => i + 1 = j
    BY <2>1 DEF PipeInv, Queue
  <2>4. sock[Srv(backlog[i + 1])] = "queued"
    BY <2>1 DEF PipeInv, Queue
  <2>5. sock'[Srv(backlog[i + 1])] = "queued"
    BY <1>0, <1>1, <2>2, <2>4
  <2>6. ASSUME NEW j \in 1..Len(backlog'), backlog'[i] = backlog'[j] PROVE i = j
    <3>1. i + 1 = j + 1
      BY <2>1, <2>3, <2>6
    <3> QED BY <1>0, <2>1, <3>1
  <2> QED BY <2>1, <2>5, <2>6
<1>5. Unconnected'
  BY <1>0, <1>1, <1>3 DEF PipeInv, Unconnected, Unused
<1>6. ASSUME Calm' PROVE Quiet'
  <2>1. Quiet
    BY <1>0, <1>1, <1>6 DEF PipeInv, Calm
  <2>2. ASSUME NEW d \in Clients, Attached(d)' PROVE Waits(d)'
    <3>1. Attached(d)
      BY <1>0, <1>1, <1>3, <2>2 DEF Attached
    <3> QED BY <1>0, <1>1, <2>1, <3>1 DEF Quiet, Waits
  <2> QED BY <1>0, <1>1, <2>1, <2>2 DEF Quiet
<1> QED BY <1>4, <1>5, <1>6 DEF PipeInv

LEMMA CloseListenKeepsPipes ==
  ASSUME TypeInv, SocketInv, PipeInv, CloseListenerCall, UNCHANGED <<cfg, cpc, conn, sret>>,
         spc' = spc \/ spc = "closeListen"
  PROVE  PipeInv'
<1> USE EndpointFacts
<1>0. /\ sock \in [Endpoints -> SockStates] /\ rst \in [Endpoints -> RstStates]
  BY PipeTypes
<1>1. /\ backlog' = <<>> /\ UNCHANGED <<fin, killed, faults>>
      /\ \A x \in Endpoints :
           /\ sock'[x] = IF sock[x] = "queued" THEN "closed" ELSE sock[x]
           /\ rst'[x] = IF sock[Peer(x)] = "queued" THEN "flying" ELSE rst[x]
  BY <1>0 DEF CloseListenerCall
<1>2. Queue'
  BY <1>1 DEF Queue
<1>3. Unconnected'
  <2>1. ASSUME NEW c \in Clients, Unused(c) PROVE Unused(c)'
    <3>1. sock[Cli(c)] # "queued"
      BY DEF SocketInv, ClientSocket
    <3> QED BY <1>1, <2>1, <3>1 DEF Unused
  <2> QED BY <2>1 DEF PipeInv, Unconnected
<1>4. ASSUME Calm' PROVE Quiet'
  <2>1. Quiet
    BY <1>1, <1>4 DEF PipeInv, Calm, Program
  <2>2. ASSUME NEW c \in Clients, Attached(c)' PROVE Waits(c)'
    <3>1. Attached(c) /\ c = conn
      BY <1>1, <2>2 DEF Attached, Ending
    <3> QED BY <1>1, <2>1, <3>1 DEF Quiet, Waits
  <2> QED BY <1>1, <2>1, <2>2 DEF Quiet
<1> QED BY <1>2, <1>3, <1>4 DEF PipeInv

LEMMA ServerKeepsPipes ==
  ASSUME TypeInv, TypeInv', SocketInv, DrainInv, PipeInv, ServerStep,
         UNCHANGED <<cfg, clientVars>>
  PROVE  PipeInv'
<1> USE EndpointFacts
<1>0. /\ sock \in [Endpoints -> SockStates] /\ NoClient \notin Clients /\ faults \in Nat
      /\ faults' \in Nat /\ conn \in Clients \cup {NoClient} /\ sret \in {0, 1}
      /\ spc \in Opening => conn = NoClient
  BY PipeTypes DEF TypeInv, KernelInv, KernelTypeOK
<1>1. CASE \E c \in Clients : ServerAccept(c)
  BY <1>1, AcceptKeepsPipes DEF clientVars
<1>2. CASE ServerAcceptFails
  <2>1. /\ UNCHANGED <<backlog, sock, rst, fin, conn>> /\ faults' = faults + 1
    BY <1>2 DEF ServerAcceptFails, CallFails, Goto, ReturnError
  <2>2. ~Calm'
    BY <1>0, <2>1 DEF Calm
  <2> QED
    BY <2>1, <2>2, SameQueue DEF PipeInv, Unconnected, Unused, clientVars
<1>3. CASE ServerCloseListen
  BY <1>3, CloseListenKeepsPipes DEF ServerCloseListen, Goto, At, clientVars
<1>4. CASE spc \notin {"accept", "closeListen"}
  <2>1. /\ backlog' = backlog /\ faults' \in {faults, faults + 1}
        /\ conn \in Clients \/ killed' = killed
        /\ \A c \in Clients : /\ sock'[Cli(c)] = sock[Cli(c)]
                              /\ sock'[Srv(c)] \in {sock[Srv(c)], "closed"}
                              /\ c # conn \/ sock[Srv(c)] # "open" => SameEnds(c)
    BY <1>4, ServerActsOnConn
  <2>2. Queue'
    BY <2>1, SameQueue DEF PipeInv, SameEnds
  <2>3. Unconnected'
    BY <2>1 DEF PipeInv, Unconnected, Unused, SameEnds, clientVars
  <2>4. conn' = conn /\ LocalClient \notin killed
    BY <1>4, ServerMoves
  <2>5. ASSUME Calm' PROVE Quiet'
    <3>1. faults' = 0 /\ faults = 0
      BY <1>0, <2>1, <2>5 DEF Calm
    <3>2. Quiet
      BY <2>4, <2>5, <3>1 DEF PipeInv, Calm, Program
    <3>3. ASSUME NEW c \in Clients, c # conn, Attached(c)' PROVE Waits(c)'
      <4>1. SameEnds(c) /\ Attached(c)
        BY <2>1, <2>4, <3>3 DEF Attached, SameEnds
      <4> QED BY <2>4, <3>2, <3>3, <4>1 DEF Quiet, Waits, SameEnds, clientVars
    <3>4. CASE conn \in Clients
      <4>1. /\ sret' = 0 /\ killed' = {}
            /\ spc' \notin Ending => SameEnds(conn) /\ spc \notin Ending
        BY <1>4, <3>1, <3>2, <3>4, ServerServesCalmly DEF Quiet, Attached
      <4>2. ASSUME Attached(conn)' PROVE Waits(conn)'
        <5>1. CASE spc' \notin Ending
          BY <2>4, <3>2, <3>4, <4>1, <5>1 DEF Quiet, Attached, Waits, SameEnds, clientVars
        <5>2. CASE spc' \in Ending
          <6>1. sock'[Srv(conn)] = "queued"
            BY <2>4, <4>2, <5>2 DEF Attached
          <6>2. sock[Srv(conn)] = "queued"
            BY <2>1, <3>4, <6>1
          <6>3. Waits(conn)
            BY <3>2, <3>4, <6>2 DEF Quiet, Attached
          <6> QED BY <3>4, <6>2, <6>3 DEF Waits
        <5> QED BY <5>1, <5>2
      <4> QED BY <2>4, <3>3, <4>1, <4>2 DEF Quiet
    <3>5. CASE conn \notin Clients
      <4>1. killed' = {}
        BY <2>1, <3>2, <3>5 DEF Quiet
      <4> QED BY <2>4, <3>3, <3>5, <4>1 DEF Quiet
    <3> QED BY <3>4, <3>5
  <2> QED BY <2>2, <2>3, <2>5 DEF PipeInv
<1>5. CASE spc \in {"accept", "closeListen"}
  <2>1. \/ \E c \in Clients : ServerAccept(c)
        \/ ServerAcceptFails \/ ServerCloseListen
    BY <1>5
       DEF ServerStep, ServerApplication, ServerResolve, ServerSocket, ServerBind, ServerListen,
           ServerOpens, ServerRecv, ServerEcho, ServerSigPipe, ServerEof, ServerRecvFails,
           ServerShutdown, ServerClose, At
  <2> QED BY <1>1, <1>2, <1>3, <2>1
<1> QED BY <1>4, <1>5

\* A client that goes on with a socket of its own.
LEMMA ClientActsOnOwn ==
  ASSUME TypeInv, NEW c \in Clients, ClientStep(c)
  PROVE  /\ faults' \in {faults, faults + 1}
         /\ \A d \in Clients : d # c => SameEnds(d) /\ cpc'[d] = cpc[d]
         /\ \/ /\ backlog' = backlog
               /\ sock'[Srv(c)] = sock[Srv(c)] /\ fin'[Srv(c)] = fin[Srv(c)]
               /\ SameEnds(c) \/ cpc[c] \in {"send", "shutdown", "recv", "close"}
            \/ ClientConnect(c)
         /\ cpc'[c] \in {"idle", "start", "resolve", "connect"} =>
              cpc[c] \in {"idle", "start", "resolve", "connect"}
<1> USE EndpointFacts
<1>0. /\ sock \in [Endpoints -> SockStates] /\ rst \in [Endpoints -> RstStates]
      /\ fin \in [Endpoints -> BOOLEAN] /\ cpc \in [Clients -> ClientPcs]
  BY PipeTypes
<1>1. /\ \A d \in Clients : d # c => cpc'[d] = cpc[d]
      /\ cpc'[c] \in {"idle", "start", "resolve", "connect"} =>
           cpc[c] \in {"idle", "start", "resolve", "connect"}
  BY <1>0
     DEF ClientStep, ClientApplication, ClientResolve, ClientSocketFails, ClientConnect,
         ClientRefused, ClientSend, ClientSigPipe, ClientShutdown, ClientRecv, ClientRecvEnds,
         ClientClose, ClientAt, ClientGoto, ClientEnds, clientVars
<1>2. ASSUME UNCHANGED <<backlog, sock, fin>>, faults' \in {faults, faults + 1},
             \/ rst' = rst
             \/ /\ cpc[c] \in {"send", "shutdown", "recv", "close"}
                /\ \E r : rst' = [rst EXCEPT ![Cli(c)] = r]
      PROVE  /\ faults' \in {faults, faults + 1}
             /\ \A d \in Clients : d # c => SameEnds(d)
             /\ backlog' = backlog
             /\ sock'[Srv(c)] = sock[Srv(c)] /\ fin'[Srv(c)] = fin[Srv(c)]
             /\ SameEnds(c) \/ cpc[c] \in {"send", "shutdown", "recv", "close"}
  BY <1>0, <1>2 DEF SameEnds
<1>3. CASE \/ ClientApplication(c) \/ ClientResolve(c) \/ ClientSocketFails(c) \/ ClientRefused(c)
           \/ (\E n \in WholeBuffer : ClientRecv(c, n)) \/ ClientSigPipe(c)
  <2>1. UNCHANGED <<backlog, sock, fin, rst>> /\ faults' \in {faults, faults + 1}
    BY <1>3
       DEF ClientApplication, ClientResolve, ClientSocketFails, ClientRefused, ClientRecv,
           RecvAndPrint, RecvData, ClientSigPipe, SendKills, CallFails, kernelVars
  <2> QED BY <1>1, <1>2, <2>1
<1>4. CASE ClientConnect(c)
  <2>1. /\ UNCHANGED <<rst, fin, faults>>
        /\ sock' = [sock EXCEPT ![Cli(c)] = "open", ![Srv(c)] = "queued"]
    BY <1>4 DEF ClientConnect, ConnectCall
  <2>2. \A d \in Clients : d # c => SameEnds(d)
    BY <1>0, <2>1 DEF SameEnds
  <2> QED BY <1>1, <1>4, <2>1, <2>2
<1>5. CASE ClientSend(c) \/ ClientRecvEnds(c)
  <2>1. UNCHANGED <<backlog, sock, fin>> /\ faults' \in {faults, faults + 1}
    BY <1>5
       DEF ClientSend, ClientRecvEnds, SendOk, SendFailsIn, SendFails, RecvEof, RecvFails,
           ReportReset, CallFails, InvalidCall, kernelVars
  <2>2. \/ rst' = rst
        \/ rst' = [rst EXCEPT ![Cli(c)] = "reported"]
        \/ rst' = [rst EXCEPT ![Cli(c)] = "flying"]
    BY <1>5
       DEF ClientSend, ClientRecvEnds, SendOk, SendFailsIn, SendFails, RecvEof, RecvFails,
           ReportReset, CallFails, InvalidCall, kernelVars
  <2>3. cpc[c] \in {"send", "recv"}
    BY <1>5 DEF ClientSend, ClientRecvEnds, ClientAt
  <2> QED BY <1>1, <1>2, <2>1, <2>2, <2>3
<1>6. CASE ClientShutdown(c)
  <2>1. /\ UNCHANGED <<backlog, sock, rst>> /\ faults' \in {faults, faults + 1}
        /\ fin' = fin \/ fin' = [fin EXCEPT ![Cli(c)] = TRUE]
    BY <1>6 DEF ClientShutdown, ShutdownOk, ShutdownFails, CallFails, InvalidCall, kernelVars
  <2>2. \A d \in Clients : SameEnds(d)
    BY <1>0, <2>1 DEF SameEnds
  <2> QED BY <1>1, <2>1, <2>2 DEF SameEnds
<1>7. CASE ClientClose(c)
  <2>0. cpc[c] = "close"
    BY <1>7 DEF ClientClose, ClientAt
  <2>1. CASE CloseOpen(Cli(c))
    <3>1. /\ UNCHANGED <<backlog, faults>>
          /\ \A x \in Endpoints : /\ x # Cli(c) => sock'[x] = sock[x] /\ fin'[x] = fin[x]
                                  /\ x # Srv(c) => rst'[x] = rst[x]
      BY <1>0, <2>1 DEF CloseOpen
    <3>2. ASSUME NEW d \in Clients, d # c PROVE SameEnds(d)
      BY <3>1, <3>2 DEF SameEnds
    <3> QED BY <1>1, <2>0, <3>1, <3>2
  <2>2. CASE InvalidCall(Cli(c))
    BY <1>1, <1>2, <2>2 DEF InvalidCall, kernelVars
  <2> QED BY <1>7, <2>1, <2>2 DEF ClientClose, CloseCall
<1> QED BY <1>3, <1>4, <1>5, <1>6, <1>7 DEF ClientStep

\* A client that is attached, while all is calm, sends its text, shuts its side
\* down and waits; no other client can raise a signal either.
LEMMA ClientWaitsCalmly ==
  ASSUME TypeInv, ReplyInv, DrainInv, PipeInv, Quiet, Calm, faults' = 0,
         NEW c \in Clients, ClientStep(c), ~ClientConnect(c)
  PROVE  /\ killed' = {}
         /\ Attached(c) => cpc'[c] \in {"send", "shutdown", "recv"} /\ SameEnds(c)
<1> USE EndpointFacts
<1>0. /\ sock \in [Endpoints -> SockStates] /\ rst \in [Endpoints -> RstStates]
      /\ fin \in [Endpoints -> BOOLEAN] /\ cpc \in [Clients -> ClientPcs]
      /\ sret \in {0, 1} /\ NoClient \notin Clients
  BY PipeTypes
<1>1. ~CallFails
  BY DEF CallFails, Calm
<1>2. ~ClientSigPipe(c)
  <2> SUFFICES ASSUME ClientSigPipe(c) PROVE FALSE
    OBVIOUS
  <2>1. cpc[c] = "send" /\ BrokenPipe(Cli(c))
    BY DEF ClientSigPipe, ClientAt, SendKills
  <2>2. ClientEnd(c) /\ FinLast /\ Drain
    BY DEF DrainInv
  <2>3. rst[Cli(c)] # "reported"
    BY <2>1, <2>2 DEF ClientEnd, Ending
  <2>4. fin[Srv(c)]
    BY <2>1, <2>3 DEF BrokenPipe
  <2>5. c = conn /\ spc \in Ending
    BY <2>2, <2>4 DEF FinLast, Quiet
  <2>6. fin[Cli(c)]
    BY <2>2, <2>5 DEF Drain, Complete, Quiet, Ending
  <2> QED BY <2>1, <2>2, <2>6 DEF ClientEnd, Quiet, Waiting
<1>3. killed' = {}
  BY <1>2
     DEF ClientStep, ClientApplication, ClientResolve, ClientSocketFails, ClientConnect,
         ClientRefused, ClientSend, ClientShutdown, ClientRecv, RecvAndPrint, ClientRecvEnds,
         ClientClose, ConnectCall, SendOk, SendFailsIn, SendFails, RecvData, RecvEof, RecvFails,
         ShutdownOk, ShutdownFails, CloseCall, CloseOpen, CallFails, InvalidCall, ReportReset,
         kernelVars, Quiet
<1>4. ASSUME Attached(c) PROVE cpc'[c] \in {"send", "shutdown", "recv"} /\ SameEnds(c)
  <2>0. Waits(c) /\ Valid(Cli(c)) /\ rst[Cli(c)] = "none" /\ ~fin[Srv(c)]
    BY <1>4 DEF Quiet, Waits, Valid
  <2>1. ~InvalidCall(Cli(c)) /\ ~BrokenPipe(Cli(c)) /\ ~AtEnd(Cli(c))
    BY <2>0 DEF InvalidCall, BrokenPipe, AtEnd
  <2>2. CASE ClientSend(c)
    <3>1. SendOk(Cli(c), Text) /\ ClientGoto(c, "shutdown")
      BY <1>1, <2>0, <2>1, <2>2 DEF ClientSend, SendFailsIn, SendFails
    <3>2. sock[Srv(c)] # "closed"
      BY <1>4, <2>0 DEF Attached, Waits
    <3> QED BY <1>0, <3>1, <3>2 DEF SendOk, ClientGoto, SameEnds
  <2>3. CASE ClientShutdown(c)
    <3>1. ShutdownOk(Cli(c)) /\ ClientGoto(c, "recv")
      BY <1>1, <2>0, <2>1, <2>3 DEF ClientShutdown, ShutdownFails
    <3> QED BY <1>0, <3>1 DEF ShutdownOk, ClientGoto, SameEnds
  <2>4. CASE \E n \in WholeBuffer : ClientRecv(c, n)
    <3>1. PICK n \in WholeBuffer : ClientRecv(c, n)
      BY <2>4
    <3>2. UNCHANGED <<sock, rst, fin>> /\ n <= Unread(Cli(c)) /\ cpc[c] = "recv"
      BY <3>1 DEF ClientRecv, RecvAndPrint, RecvData, ClientAt
    <3>3. c = conn
      <4>1. n \in Nat /\ n > 0 /\ read[Cli(c)] \in Nat
        BY PipeTypes, BufferAssumption DEF WholeBuffer
      <4>2. c # conn => Len(sent[Srv(c)]) = 0
        BY DEF ReplyInv, Untouched
      <4> QED BY <3>2, <4>1, <4>2 DEF Unread
    <3>4. Program(c) # "python"
      BY <3>3 DEF Calm
    <3> QED BY <3>1, <3>2, <3>4 DEF ClientRecv, clientVars, SameEnds
  <2>5. ~ClientRecvEnds(c)
    BY <1>1, <2>0, <2>1 DEF ClientRecvEnds, RecvEof, RecvFails
  <2> QED
    BY <1>2, <2>0, <2>2, <2>3, <2>4, <2>5
       DEF ClientStep, ClientApplication, ClientResolve, ClientSocketFails, ClientRefused,
           ClientClose, ClientAt, Waits
<1> QED BY <1>3, <1>4

\* Connecting puts a client, not seen before, at the end of the backlog.
LEMMA ConnectKeepsPipes ==
  ASSUME TypeInv, SocketInv, DrainInv, PipeInv, NEW c \in Clients, ClientConnect(c),
         UNCHANGED <<cfg, serverVars>>
  PROVE  PipeInv'
<1> USE EndpointFacts
<1>0. /\ sock \in [Endpoints -> SockStates] /\ backlog \in Seq(Clients)
      /\ cpc \in [Clients -> ClientPcs] /\ sret \in {0, 1} /\ NoClient \notin Clients
  BY PipeTypes
<1>1. /\ cpc[c] = "connect" /\ cpc' = [cpc EXCEPT ![c] = "send"]
      /\ backlog' = Append(backlog, c)
      /\ sock' = [sock EXCEPT ![Cli(c)] = "open", ![Srv(c)] = "queued"]
      /\ UNCHANGED <<fin, rst, killed, faults>>
  BY DEF ClientConnect, ClientAt, ConnectCall, ClientGoto
<1>2. Unused(c)
  BY <1>1 DEF PipeInv, Unconnected
<1>3. Queue'
  <2>1. ASSUME NEW i \in 1..Len(backlog) PROVE backlog[i] # c /\ sock[Srv(backlog[i])] = "queued"
    BY <1>2 DEF PipeInv, Queue, Unused
  <2>2. /\ Len(backlog') = Len(backlog) + 1 /\ Len(backlog) \in Nat
        /\ \A i \in 1..Len(backlog) : backlog'[i] = backlog[i] /\ backlog[i] \in Clients
        /\ backlog'[Len(backlog) + 1] = c
    BY <1>0, <1>1
  <2>3. ASSUME NEW i \in 1..Len(backlog') PROVE sock'[Srv(backlog'[i])] = "queued"
    <3>1. CASE i \in 1..Len(backlog)
      <4>1. backlog'[i] \in Clients /\ sock[Srv(backlog'[i])] = "queued" /\ backlog'[i] # c
        BY <2>1, <2>2, <3>1
      <4> QED BY <1>0, <1>1, <4>1
    <3>2. CASE i = Len(backlog) + 1
      BY <1>0, <1>1, <2>2, <3>2
    <3> QED BY <2>2, <3>1, <3>2
  <2>4. ASSUME NEW i \in 1..Len(backlog'), NEW j \in 1..Len(backlog'), backlog'[i] = backlog'[j]
        PROVE  i = j
    <3>1. CASE i \in 1..Len(backlog) /\ j \in 1..Len(backlog)
      BY <2>2, <2>4, <3>1 DEF PipeInv, Queue
    <3>2. CASE ~(i \in 1..Len(backlog) /\ j \in 1..Len(backlog))
      BY <2>1, <2>2, <2>4, <3>2
    <3> QED BY <3>1, <3>2
  <2> QED BY <2>3, <2>4 DEF Queue
<1>4. Unconnected'
  BY <1>0, <1>1 DEF PipeInv, Unconnected, Unused
<1>5. ASSUME Calm' PROVE Quiet'
  <2>1. Quiet
    BY <1>1, <1>5 DEF PipeInv, Calm, Program, serverVars
  <2>2. c # conn
    <3> SUFFICES ASSUME c = conn PROVE FALSE
      OBVIOUS
    <3>1. CASE spc \notin Ending
      BY <1>1, <2>1, <3>1 DEF Quiet, Attached, Waits
    <3>2. CASE spc \in Ending
      <4>1. fin[Cli(c)]
        BY <2>1, <3>2 DEF DrainInv, Drain, Complete, Quiet, Ending
      <4> QED BY <1>1, <2>1, <4>1 DEF DrainInv, ClientEnd, Quiet, Waiting
    <3> QED BY <3>1, <3>2
  <2>3. ASSUME NEW d \in Clients, Attached(d)' PROVE Waits(d)'
    <3>1. CASE d = c
      BY <1>0, <1>1, <1>2, <2>2, <3>1 DEF Waits, Unused, serverVars
    <3>2. CASE d # c
      <4>1. Attached(d)
        BY <1>0, <1>1, <2>3, <3>2 DEF Attached, serverVars
      <4> QED BY <1>0, <1>1, <2>1, <3>2, <4>1 DEF Quiet, Waits, serverVars
    <3> QED BY <3>1, <3>2
  <2> QED BY <1>1, <2>1, <2>3 DEF Quiet, serverVars
<1> QED BY <1>3, <1>4, <1>5 DEF PipeInv

LEMMA ClientKeepsPipes ==
  ASSUME TypeInv, TypeInv', ReplyInv, SocketInv, DrainInv, PipeInv,
         NEW c \in Clients, ClientStep(c), UNCHANGED <<cfg, serverVars>>
  PROVE  PipeInv'
<1> USE EndpointFacts
<1>1. CASE ClientConnect(c)
  BY <1>1, ConnectKeepsPipes
<1>2. CASE ~ClientConnect(c)
  <2>1. /\ faults' \in {faults, faults + 1} /\ faults \in Nat
        /\ \A d \in Clients : d # c => SameEnds(d) /\ cpc'[d] = cpc[d]
        /\ backlog' = backlog
        /\ sock'[Srv(c)] = sock[Srv(c)] /\ fin'[Srv(c)] = fin[Srv(c)]
        /\ SameEnds(c) \/ cpc[c] \in {"send", "shutdown", "recv", "close"}
        /\ cpc'[c] \in {"idle", "start", "resolve", "connect"} =>
             cpc[c] \in {"idle", "start", "resolve", "connect"}
    BY <1>2, ClientActsOnOwn, PipeTypes
  <2>2. Queue'
    <3>1. \A d \in Clients : sock'[Srv(d)] = sock[Srv(d)]
      BY <2>1 DEF SameEnds
    <3> QED BY <2>1, <3>1, SameQueue DEF PipeInv
  <2>3. Unconnected'
    <3> SUFFICES ASSUME NEW d \in Clients, cpc'[d] \in {"idle", "start", "resolve", "connect"}
                 PROVE  Unused(d)'
      BY DEF Unconnected
    <3>1. cpc[d] \in {"idle", "start", "resolve", "connect"} /\ SameEnds(d)
      BY <2>1
    <3> QED BY <3>1 DEF PipeInv, Unconnected, Unused, SameEnds
  <2>4. ASSUME Calm' PROVE Quiet'
    <3>1. faults' = 0 /\ Calm /\ Quiet
      BY <2>1, <2>4 DEF PipeInv, Calm, Program, serverVars
    <3>2. /\ killed' = {}
          /\ Attached(c) => cpc'[c] \in {"send", "shutdown", "recv"} /\ SameEnds(c)
      BY <1>2, <3>1, ClientWaitsCalmly
    <3>3. ASSUME NEW d \in Clients, Attached(d)' PROVE Waits(d)'
      <4>1. Attached(d)
        BY <2>1, <3>3 DEF Attached, SameEnds, serverVars
      <4>2. SameEnds(d) /\ cpc'[d] \in {"send", "shutdown", "recv"}
        BY <2>1, <3>1, <3>2, <4>1 DEF Quiet, Waits
      <4> QED BY <3>1, <4>1, <4>2 DEF Quiet, Waits, SameEnds, serverVars
    <3> QED BY <3>1, <3>2, <3>3 DEF Quiet, serverVars
  <2> QED BY <2>2, <2>3, <2>4 DEF PipeInv
<1> QED BY <1>1, <1>2

\* Everybody else: starting threads and programs, delivering a reset, and
\* clearing away what a killed process left, which there is not while all is calm.
LEMMA OthersKeepPipes ==
  ASSUME TypeInv, PipeInv, UNCHANGED <<cfg, conn, sret>>, backlog' = backlog,
         faults' \in {faults, faults + 1}, faults' = faults => killed' = killed,
         spc' = spc \/ (spc = "idle" /\ spc' = "start"),
         \A c \in Clients :
           /\ cpc'[c] = cpc[c] \/ (cpc[c] = "idle" /\ cpc'[c] \in {"start", "done"})
           /\ sock[Srv(c)] # "open" => sock'[Srv(c)] = sock[Srv(c)]
           /\ Unused(c) => Unused(c)'
           /\ killed = {} /\ Waits(c) => SameEnds(c)
           /\ killed = {} /\ Attached(c)' => Attached(c)
  PROVE  PipeInv'
<1>1. Queue'
  BY SameQueue DEF PipeInv
<1>2. Unconnected'
  BY DEF PipeInv, Unconnected
<1>3. ASSUME Calm' PROVE Quiet'
  <2>1. faults \in Nat
    BY PipeTypes
  <2>2. faults = 0 /\ faults' = faults /\ Calm
    BY <1>3, <2>1 DEF Calm, Program
  <2>3. Quiet
    BY <2>2 DEF PipeInv
  <2>4. ASSUME NEW c \in Clients, Attached(c)' PROVE Waits(c)'
    <3>1. Waits(c) /\ SameEnds(c)
      BY <2>3, <2>4 DEF Quiet
    <3> QED BY <3>1 DEF Waits, SameEnds
  <2> QED BY <2>2, <2>3, <2>4 DEF Quiet
<1> QED BY <1>1, <1>2, <1>3 DEF PipeInv

LEMMA PipeInvStep ==
  TypeInv /\ TypeInv' /\ ReplyInv /\ SocketInv /\ DrainInv /\ PipeInv /\ [Next]_vars => PipeInv'
<1> SUFFICES ASSUME TypeInv, TypeInv', ReplyInv, SocketInv, DrainInv, PipeInv, [Next]_vars
             PROVE  PipeInv'
  OBVIOUS
<1> USE EndpointFacts
<1>0. /\ sock \in [Endpoints -> SockStates] /\ rst \in [Endpoints -> RstStates]
      /\ fin \in [Endpoints -> BOOLEAN] /\ cpc \in [Clients -> ClientPcs]
      /\ \A d \in Clients : sock[Cli(d)] # "queued"
  BY PipeTypes DEF SocketInv, ClientSocket
<1>1. ASSUME UNCHANGED <<cfg, conn, sret, backlog, sock, rst, fin>>,
             faults' \in {faults, faults + 1}, faults' = faults => killed' = killed,
             spc' = spc \/ (spc = "idle" /\ spc' = "start"),
             \A d \in Clients : cpc'[d] = cpc[d] \/ (cpc[d] = "idle" /\ cpc'[d] \in {"start", "done"})
      PROVE  PipeInv'
  <2>1. \A c \in Clients : SameEnds(c) /\ (Unused(c) => Unused(c)') /\ (Attached(c)' => Attached(c))
    BY <1>1 DEF SameEnds, Unused, Attached, Ending
  <2> QED BY <1>1, <2>1, OthersKeepPipes DEF SameEnds
<1>2. CASE UNCHANGED vars
  BY <1>1, <1>2 DEF vars, serverVars, clientVars, kernelVars
<1>3. CASE Main
  <2>1. /\ UNCHANGED <<cfg, conn, sret, backlog, sock, rst, fin>>
        /\ faults' \in {faults, faults + 1}
    BY <1>3
       DEF Main, SpawnServer, SpawnClient, SpawnFails, JoinBoth, Goto, serverVars, kernelVars
  <2>2. faults' = faults => killed' = killed
    <3>1. faults \in Nat
      BY PipeTypes
    <3>2. SpawnFails => faults' # faults
      BY <3>1 DEF SpawnFails
    <3> QED BY <1>3, <3>2 DEF Main, SpawnServer, SpawnClient, JoinBoth, kernelVars
  <2>3. \A d \in Clients : cpc'[d] = cpc[d] \/ (cpc[d] = "idle" /\ cpc'[d] \in {"start", "done"})
    BY <1>0, <1>3
       DEF Main, SpawnServer, SpawnClient, SpawnFails, JoinBoth, MainAt, ClientGoto, clientVars,
           TypeInv, MainInv
  <2>4. spc' = spc \/ (spc = "idle" /\ spc' = "start")
    BY <1>3
       DEF Main, SpawnServer, SpawnClient, SpawnFails, JoinBoth, MainAt, Goto, serverVars,
           TypeInv, MainInv
  <2> QED BY <1>1, <2>1, <2>2, <2>3, <2>4
<1>4. CASE ServerThread
  BY <1>4, ServerKeepsPipes DEF ServerThread
<1>5. ASSUME NEW c \in Clients, ClientThread(c) PROVE PipeInv'
  BY <1>5, ClientKeepsPipes DEF ClientThread
<1>6. CASE Network
  <2>1. PICK x \in Endpoints : DeliverRst(x)
    BY <1>6 DEF Network
  <2>2. /\ UNCHANGED <<cfg, serverVars, clientVars, backlog, sock, fin, killed, faults>>
        /\ rst[x] = "flying" /\ rst' = [rst EXCEPT ![x] = "arrived"]
    BY <1>6, <2>1 DEF Network, DeliverRst
  <2>3. ASSUME NEW c \in Clients
        PROVE  /\ Unused(c) => Unused(c)'
               /\ Waits(c) => SameEnds(c)
               /\ Attached(c)' => Attached(c)
    <3>1. rst[Cli(c)] = "none" => rst'[Cli(c)] = "none"
      BY <1>0, <2>2
    <3>2. rst[Srv(c)] = "none" => rst'[Srv(c)] = "none"
      BY <1>0, <2>2
    <3> QED BY <2>2, <3>1, <3>2 DEF Unused, Waits, SameEnds, Attached, serverVars
  <2> QED BY <2>2, <2>3, OthersKeepPipes DEF serverVars, clientVars
<1>7. ASSUME NEW c \in Clients, StartRemote(c) PROVE PipeInv'
  <2>1. \A d \in Clients : cpc'[d] = cpc[d] \/ (cpc[d] = "idle" /\ cpc'[d] = "start")
    BY <1>0, <1>7 DEF StartRemote, ClientGoto
  <2> QED BY <1>1, <1>7, <2>1 DEF StartRemote, serverVars, kernelVars
<1>8. ASSUME NEW c \in Clients, Reap(c) PROVE PipeInv'
  <2>0. c \in killed /\ UNCHANGED <<cfg, serverVars, clientVars>>
    BY <1>8 DEF Reap
  <2>1. CASE CloseListenerCall
    BY <2>0, <2>1, CloseListenKeepsPipes DEF serverVars, clientVars
  <2>2. ASSUME NEW x \in Endpoints, sock[x] = "open", CloseCall(x) PROVE PipeInv'
    <3>1. CloseOpen(x)
      BY <2>2 DEF CloseCall, InvalidCall, Valid
    <3>2. /\ UNCHANGED <<backlog, killed, faults>>
          /\ sock' = [sock EXCEPT ![x] = "closed"]
          /\ \A y \in Endpoints : y # x => fin'[y] = fin[y]
          /\ \A y \in Endpoints : y # Peer(x) => rst'[y] = rst[y]
          /\ rst' = rst \/ Unread(x) > 0
      BY <1>0, <3>1 DEF CloseOpen
    <3>3. ASSUME NEW d \in Clients
          PROVE  /\ sock[Srv(d)] # "open" => sock'[Srv(d)] = sock[Srv(d)]
                 /\ Unused(d) => Unused(d)'
      <4>1. sock[Srv(d)] # "open" => sock'[Srv(d)] = sock[Srv(d)] /\ Srv(d) # x
        BY <1>0, <2>2, <3>2
      <4>2. ASSUME Unused(d) PROVE Unused(d)'
        <5>1. Cli(d) # x /\ Srv(d) # x
          BY <2>2, <4>2 DEF Unused
        <5>2. Cli(d) # Peer(x) /\ Srv(d) # Peer(x)
          BY <5>1
        <5> QED BY <1>0, <3>2, <4>2, <5>1, <5>2 DEF Unused
      <4> QED BY <4>1, <4>2
    <3> QED BY <2>0, <3>2, <3>3, OthersKeepPipes DEF serverVars, clientVars
  <2>3. conn # NoClient => Srv(conn) \in Endpoints
    BY PipeTypes
  <2> QED BY <1>8, <2>1, <2>2, <2>3 DEF Reap
<1> QED BY <1>2, <1>3, <1>4, <1>5, <1>6, <1>7, <1>8 DEF Next

LEMMA PipeInvInit == Init => PipeInv
<1> SUFFICES ASSUME Init PROVE PipeInv
  OBVIOUS
<1>1. \A c \in Clients : /\ sock[Cli(c)] = "none" /\ sock[Srv(c)] = "none"
                         /\ rst[Cli(c)] = "none" /\ rst[Srv(c)] = "none" /\ fin[Srv(c)] = FALSE
  BY EndpointFacts DEF Init, KernelInit
<1>2. backlog = <<>> /\ killed = {} /\ conn = NoClient /\ NoClient \notin Clients
  BY ServerAssumption DEF Init, KernelInit, ServerInit
<1> QED BY <1>1, <1>2 DEF PipeInv, Quiet, Attached, Unconnected, Unused, Queue

LEMMA PipesCorrect == Spec => [](TypeInv /\ PipeInv)
<1>1. Init => PipeInv
  BY PipeInvInit
<1>2. TypeInv /\ TypeInv' /\ ReplyInv /\ SocketInv /\ DrainInv /\ PipeInv /\ [Next]_vars => PipeInv'
  BY PipeInvStep
<1> QED BY <1>1, <1>2, DrainCorrect, SocketsCorrect, PTL DEF Spec

\* No process dies of SIGPIPE, whichever programs are paired and however their
\* steps interleave, unless a call fails on its own or Python's client is served.
THEOREM OnlyPythonBreaksPipesHolds == Spec => []OnlyPythonBreaksPipes
<1>1. TypeInv /\ PipeInv => OnlyPythonBreaksPipes
  <2> SUFFICES ASSUME TypeInv, PipeInv, ~(faults > 0), ~(conn # NoClient /\ Program(conn) = "python")
               PROVE  killed = {}
    BY DEF OnlyPythonBreaksPipes
  <2>1. faults = 0
    BY PipeTypes
  <2>2. Calm
    BY <2>1, PipeTypes DEF Calm
  <2> QED BY <2>2 DEF PipeInv, Quiet
<1> QED BY <1>1, PipesCorrect, PTL
===============================================================================
