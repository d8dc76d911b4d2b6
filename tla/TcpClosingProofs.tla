---------------------------- MODULE TcpClosingProofs ---------------------------
(* What the closes, resets and rejected clients of the TCP demo lead to:    *)
(* what is left open, what the clients are told, whom a broken pipe kills,   *)
(* whose socket is closed by a number that has been closed before.           *)
EXTENDS TcpDemoProofs, TcpDescriptors, FiniteSetTheorems

-------------------------------------------------------------------------------
(* What is left open. *)

\* Where the server no longer listens.
Deaf == {"recv", "echo", "reply", "select", "receive", "shutdown", "dtorClient", "done"}

ServerSockets ==
  /\ spc \in Unheard => listener # "listening"
  /\ spc \in {"idle", "start"} => listener = "none"
  /\ spc \in Deaf => listener \in {"none", "closed"}
  /\ \A c \in Clients : sock[Srv(c)] = "queued" => listener = "listening"
  /\ \A c \in Clients : sock[Srv(c)] = "open" => c = conn /\ spc # "done"

ClientSocket(c) == /\ cpc[c] \in Fresh => sock[Cli(c)] = "none"
                   /\ cpc[c] = "done" => sock[Cli(c)] # "open"

SocketInv == ServerSockets /\ \A c \in Clients : ClientSocket(c)

LEMMA ServerKeepsSockets ==
  ASSUME TypeInv, NoQueued, SocketInv, ServerStep
  PROVE  ServerSockets' /\ \A c \in Clients : sock'[Cli(c)] = sock[Cli(c)]
<1> USE EndpointFacts
<1>0. /\ sock \in [Endpoints -> SockStates] /\ ServerSockets
      /\ conn \in Clients \cup {NoClient}
      /\ spc \in Opening => conn = NoClient
  BY DEF TypeInv, KernelInv, KernelTypeOK, ServerInv, ServerTypeOK, SocketInv
<1>1. CASE ServerApplication \/ Setup
  <2>1. /\ UNCHANGED <<sock, conn>> /\ spc \in Unheard
        /\ \/ spc' \in Unheard \ {"idle", "start"} /\ listener' \in {listener, "created", "bound"}
           \/ spc' = "accept" /\ spc = "listen"
           \/ spc' = "dtorListen" /\ listener' = listener
           \/ spc' = "done" /\ spc = "start" /\ listener' = listener
    BY <1>1
       DEF ServerApplication, Setup, SetupStep, ListenerBecomes, CallFails, Goto, ReturnError,
           At, kernelVars, Unheard
  <2>2. \A c \in Clients : sock[Srv(c)] \notin {"queued", "open"}
    BY <1>0, <2>1, ServerAssumption DEF ServerSockets, Unheard, Opening
  <2> QED BY <1>0, <2>1, <2>2 DEF ServerSockets, Unheard, Deaf
<1>2. CASE AcceptFails \/ \E c \in Clients : Accept(c)
  BY <1>0, <1>2, ServerAssumption
     DEF AcceptFails, CallFails, Accept, AcceptCall, Goto, ReturnError, At, Opening,
         ServerSockets, Unheard, Deaf
<1>3. CASE CloseListen \/ DtorListen
  <2>1. spc' \in Deaf \ {"done"} /\ conn' = conn /\ CloseListenerCall
    BY <1>3 DEF CloseListen, DtorListen, ModeOperation, Goto, Deaf
  <2>2. listener' \in {"none", "closed"}
    BY <2>1 DEF CloseListenerCall
  <2>3. \A x \in Endpoints : sock'[x] = IF sock[x] = "queued" THEN "closed" ELSE sock[x]
    BY <1>0, <2>1 DEF CloseListenerCall
  <2> QED BY <1>0, <2>1, <2>2, <2>3 DEF ServerSockets, Deaf, Unheard, NoQueued
<1>4. CASE DtorClient
  <2>1. /\ spc = "dtorClient" /\ spc' = "done" /\ conn' = conn /\ listener' = listener
        /\ CloseCall(Srv(conn))
    BY <1>4 DEF DtorClient, Goto, At, CloseCall, CloseOpen, InvalidCall, kernelVars
  <2>2. \A x \in Endpoints : sock'[x] = IF x = Srv(conn) /\ sock[x] = "open" THEN "closed" ELSE sock[x]
    BY <1>0, <2>1 DEF CloseCall, CloseOpen, InvalidCall, Valid, kernelVars
  <2> QED BY <1>0, <2>1, <2>2 DEF ServerSockets, Deaf, Unheard
<1>5. CASE ~(ServerApplication \/ Setup \/ AcceptFails \/ (\E c \in Clients : Accept(c))
               \/ CloseListen \/ DtorListen \/ DtorClient)
  <2>1. UNCHANGED <<sock, listener>>
    BY <1>5
       DEF ServerStep, Mode1Recv, Mode2Recv, Mode3Receive, Mode5Receive, RecvData, Mode1Eof,
           RecvError, Mode1Echo, Mode2Eof, Mode2Reply, ServerSigPipe, Mode3Ends, SelectReady,
           SelectTimeout, SelectFails, Mode5Eof, Mode5Error, ServerShutdown, kernelVars,
           CallFails, InvalidCall, SendOk, SendFails, SendKills, ReportReset, RecvEof,
           RecvFails, ShutdownOk, ShutdownFails
  <2>2. conn' = conn /\ spc \in Deaf /\ spc' \in (Deaf \ {"done"}) \cup {"dtorListen"}
    BY <1>5
       DEF ServerStep, Mode1Recv, Mode2Recv, Mode3Receive, Mode5Receive, Mode1Eof,
           RecvError, Mode1Echo, Mode2Eof, Mode2Reply, ServerSigPipe, Mode3Ends, SelectReady,
           SelectTimeout, SelectFails, Mode5Eof, Mode5Error, ServerShutdown, At, Goto,
           ReturnError, serverVars, Deaf
  <2> QED BY <1>0, <2>1, <2>2 DEF ServerSockets, Deaf, Unheard
<1> QED BY <1>1, <1>2, <1>3, <1>4, <1>5

LEMMA ClientKeepsSockets ==
  ASSUME TypeInv, SocketInv, NEW c \in Clients, ClientStep(c), UNCHANGED <<spc, conn>>
  PROVE  ServerSockets' /\ \A d \in Clients : ClientSocket(d)'
<1> USE EndpointFacts
<1>0. /\ sock \in [Endpoints -> SockStates] /\ cpc \in [Clients -> ClientPcs]
      /\ ServerSockets /\ \A d \in Clients : ClientSocket(d)
  BY DEF TypeInv, KernelInv, KernelTypeOK, ClientInv, ClientTypeOK, SocketInv
<1>1. CASE SetupConnect(c)
  <2>1. /\ listener = "listening" /\ listener' = listener
        /\ sock' = [sock EXCEPT ![Cli(c)] = "open", ![Srv(c)] = "queued"]
        /\ cpc' = [cpc EXCEPT ![c] = FirstStep(c)]
        /\ FirstStep(c) \in {"send", "shutdown", "dtor"}
    BY <1>1 DEF SetupConnect, ConnectCall, ClientGoto, FirstStep
  <2>2. ServerSockets'
    BY <1>0, <2>1 DEF ServerSockets
  <2> QED BY <1>0, <2>1, <2>2 DEF ClientSocket, Fresh
<1>2. CASE ClientClose(c) \/ ClientDtor(c)
  <2>1. /\ listener' = listener
        /\ \A d \in Clients \ {c} : cpc'[d] = cpc[d]
        /\ cpc'[c] \in {"dtor", "done"}
        /\ \A x \in Endpoints : sock'[x] = IF x = Cli(c) /\ sock[x] = "open" THEN "closed" ELSE sock[x]
    BY <1>0, <1>2
       DEF ClientClose, ClientDtor, ClientGoto, CloseCall, CloseOpen, InvalidCall, Valid, kernelVars
  <2>2. ServerSockets'
    BY <1>0, <2>1 DEF ServerSockets
  <2> QED BY <1>0, <2>1, <2>2 DEF ClientSocket, Fresh
<1>3. CASE ~(SetupConnect(c) \/ ClientClose(c) \/ ClientDtor(c))
  <2>1. UNCHANGED <<sock, listener>>
    BY <1>3
       DEF ClientStep, ClientApplication, SetupResolve, SetupSocketFails,
           SetupRefused, ClientSend, ClientSendFails, ClientSigPipe, ClientShutdown, ClientRecv,
           ClientRecvEnds, kernelVars, CallFails, InvalidCall, SendOk, SendFails,
           SendKills, ReportReset, RecvData, RecvEof, RecvFails, ShutdownOk, ShutdownFails
  <2>2. /\ \A d \in Clients \ {c} : cpc'[d] = cpc[d]
        /\ cpc'[c] \in Fresh \cup {"done"} => cpc[c] \in Fresh
    BY <1>0, <1>3
       DEF ClientStep, ClientApplication, SetupResolve, SetupSocketFails,
           SetupRefused, ClientSend, ClientSendFails, ClientSigPipe, ClientShutdown, ClientRecv,
           ClientRecvEnds, NotConnected, FirstStep, ClientGoto, ClientReturn, ClientAt,
           clientVars, Fresh
  <2> QED BY <1>0, <2>1, <2>2 DEF ServerSockets, ClientSocket, Fresh
<1> QED BY <1>1, <1>2, <1>3

LEMMA SocketInvStep == TypeInv /\ NoQueued /\ SocketInv /\ [Next]_vars => SocketInv'
<1> SUFFICES ASSUME TypeInv, NoQueued, SocketInv, [Next]_vars PROVE SocketInv'
  OBVIOUS
<1> USE DEF SocketInv
<1>1. ASSUME UNCHANGED <<sock, listener, conn>>,
             spc' = spc \/ (spc = "idle" /\ spc' = "start"),
             \A d \in Clients : cpc'[d] = cpc[d] \/ (cpc[d] = "idle" /\ cpc'[d] = "start")
      PROVE  SocketInv'
  <2>1. ServerSockets'
    BY <1>1 DEF ServerSockets, Unheard, Deaf
  <2> QED BY <1>1, <2>1 DEF ClientSocket, Fresh
<1>2. CASE UNCHANGED vars
  BY <1>1, <1>2 DEF vars, serverVars, clientVars, kernelVars
<1>3. CASE Main
  <2>1. cpc \in [Clients -> ClientPcs]
    BY DEF TypeInv, ClientInv, ClientTypeOK
  <2>2. \A d \in Clients : cpc'[d] = cpc[d] \/ (cpc[d] = "idle" /\ cpc'[d] = "start")
    BY <1>3, <2>1 DEF Main, SpawnServer, SpawnClient, JoinServer, JoinClient, MainAt, ClientGoto,
                  clientVars, TypeInv
  <2>3. spc' = spc \/ (spc = "idle" /\ spc' = "start")
    BY <1>3 DEF Main, SpawnServer, SpawnClient, JoinServer, JoinClient, MainAt, Goto,
                serverVars, TypeInv
  <2> QED
    BY <1>1, <1>3, <2>2, <2>3
       DEF Main, SpawnServer, SpawnClient, JoinServer, JoinClient, Goto, serverVars, kernelVars
<1>4. CASE ServerThread
  BY <1>4, ServerKeepsSockets DEF ServerThread, ClientSocket, clientVars
<1>5. ASSUME NEW c \in Clients, ClientThread(c) PROVE SocketInv'
  BY <1>5, ClientKeepsSockets DEF ClientThread, serverVars
<1>6. CASE Network
  BY <1>1, <1>6 DEF Network, DeliverRst, serverVars, clientVars
<1>7. ASSUME NEW c \in Clients, StartRemote(c) PROVE SocketInv'
  <2>1. \A d \in Clients : cpc'[d] = cpc[d] \/ (cpc[d] = "idle" /\ cpc'[d] = "start")
    BY <1>7 DEF StartRemote, ClientGoto, TypeInv, ClientInv, ClientTypeOK
  <2> QED BY <1>1, <1>7, <2>1 DEF StartRemote, serverVars, kernelVars
<1>8. ASSUME NEW c \in Clients, Reap(c) PROVE SocketInv'
  <2>0. /\ sock \in [Endpoints -> SockStates] /\ UNCHANGED <<serverVars, clientVars>>
    BY <1>8 DEF Reap, TypeInv, KernelInv, KernelTypeOK
  <2>1. CASE CloseListenerCall
    <3>1. listener' \in {"none", "closed"} /\ (listener = "none" => listener' = "none")
      BY <2>1 DEF CloseListenerCall
    <3>2. \A x \in Endpoints : sock'[x] = IF sock[x] = "queued" THEN "closed" ELSE sock[x]
      BY <2>0, <2>1 DEF CloseListenerCall
    <3> QED
      BY <2>0, <3>1, <3>2, EndpointFacts
         DEF ServerSockets, ClientSocket, serverVars, clientVars, NoQueued
  <2>2. ASSUME NEW x, CloseCall(x) PROVE SocketInv'
    <3>1. /\ listener' = listener
          /\ \A y \in Endpoints : sock'[y] = sock[y] \/ (sock[y] = "open" /\ sock'[y] = "closed")
      BY <2>0, <2>2 DEF CloseCall, CloseOpen, InvalidCall, Valid, kernelVars
    <3> QED
      BY <2>0, <3>1, EndpointFacts DEF ServerSockets, ClientSocket, serverVars, clientVars
  <2> QED BY <1>8, <2>1, <2>2 DEF Reap
<1> QED BY <1>2, <1>3, <1>4, <1>5, <1>6, <1>7, <1>8 DEF Next

LEMMA SocketInvInit == Init => SocketInv
<1> SUFFICES ASSUME Init PROVE SocketInv
  OBVIOUS
<1>1. \A c \in Clients : sock[Srv(c)] = "none" /\ sock[Cli(c)] = "none" /\ cpc[c] = "idle"
  BY EndpointFacts DEF Init, KernelInit, ClientInit
<1> QED
  BY <1>1
     DEF Init, KernelInit, ServerInit, SocketInv, ServerSockets, ClientSocket, Unheard, Deaf

LEMMA SocketsCorrect == Spec => [](TypeInv /\ SocketInv)
<1>1. Init => TypeInv /\ ReplyInv /\ DrainInv /\ SocketInv
  BY TypeInvInit, ReplyInvInit, DrainInvInit, SocketInvInit
<1>2. (TypeInv /\ DrainInv) /\ SocketInv /\ [Next]_vars => SocketInv'
  BY SocketInvStep DEF DrainInv
<1> QED BY <1>1, <1>2, DrainCorrect, PTL DEF Spec

LEMMA SocketInvImplies == TypeInv /\ SocketInv => ConnectionsClosed
<1> SUFFICES ASSUME TypeInv, SocketInv PROVE ConnectionsClosed
  OBVIOUS
<1>1. \A c \in Clients : sock[Srv(c)] \in SockStates
  BY EndpointFacts DEF TypeInv, KernelInv, KernelTypeOK
<1> QED BY <1>1 DEF SocketInv, ServerSockets, ClientSocket, ConnectionsClosed, Deaf, SockStates

\* Whichever call failed, a thread at its end has left no socket open, and
\* the server no client waiting in the backlog.
THEOREM ConnectionsClosedHolds == Spec => []ConnectionsClosed
BY SocketsCorrect, SocketInvImplies, PTL

-------------------------------------------------------------------------------
(* Clients that wait in the backlog, or were never accepted. *)

\* Nothing has happened on the server's end of a connection.
Clean(c) == rst[Cli(c)] = "none" /\ ~fin[Srv(c)] /\ verdict[c] # "eof"

QueueInv ==
  /\ spc \in Opening => \A i \in 1..Len(backlog) : sock[Srv(backlog[i])] = "queued"
  /\ \A c \in Clients : cpc[c] \in Fresh => sock[Srv(c)] = "none"
  /\ \A c \in Clients : cpc[c] \in Fresh \/ sock[Srv(c)] = "queued" => Clean(c)

\* What a step of the server does to the connection of a client d.
ServerTouches(d) ==
  /\ sock'[Srv(d)] = "queued" => sock[Srv(d)] = "queued"
  /\ sock[Srv(d)] = "none" => sock'[Srv(d)] = "none"
  /\ fin'[Srv(d)] = fin[Srv(d)] \/ (d = conn /\ sock[Srv(d)] = "open")
  /\ \/ rst'[Cli(d)] = rst[Cli(d)]
     \/ rst'[Cli(d)] = "flying" /\ sock[Srv(d)] = "queued" /\ sock'[Srv(d)] = "closed"
     \/ /\ rst'[Cli(d)] \in {"flying", rst[Cli(d)]}
        /\ d = conn /\ sock[Srv(d)] = "open" /\ spc = "dtorClient" /\ Unread(Srv(d)) > 0

LEMMA ServerTouchesOwn ==
  ASSUME TypeInv, NoQueued, ServerStep, ~(\E c \in Clients : Accept(c)), NEW d \in Clients
  PROVE  ServerTouches(d)
<1> USE EndpointFacts
<1>0. /\ sock \in [Endpoints -> SockStates] /\ rst \in [Endpoints -> RstStates]
      /\ fin \in [Endpoints -> BOOLEAN] /\ Srv(d) \in Endpoints /\ Cli(d) \in Endpoints
  BY DEF TypeInv, KernelInv, KernelTypeOK
<1>1. CASE CloseListen \/ DtorListen
  BY <1>0, <1>1 DEF CloseListen, DtorListen, CloseListenerCall, ServerTouches
<1>2. CASE DtorClient
  <2>1. CASE CloseOpen(Srv(conn))
    <3>1. Srv(conn) \in Endpoints /\ conn \in Clients /\ sock[Srv(conn)] = "open"
      BY <2>1, ValidServer DEF CloseOpen, Valid
    <3>2. /\ sock' = [sock EXCEPT ![Srv(conn)] = "closed"] /\ spc = "dtorClient"
          /\ \A x \in Endpoints \ {Srv(conn)} : fin'[x] = fin[x]
          /\ \/ rst' = rst
             \/ /\ Unread(Srv(conn)) > 0
                /\ rst' = [rst EXCEPT ![Cli(conn)] = IF rst[Cli(conn)] = "none" THEN "flying" ELSE rst[Cli(conn)]]
      BY <1>0, <1>2, <2>1, <3>1 DEF CloseOpen, DtorClient, At
    <3>3. CASE d = conn
      BY <1>0, <3>1, <3>2, <3>3 DEF ServerTouches
    <3>4. CASE d # conn
      <4>1. Srv(d) # Srv(conn) /\ Cli(d) # Cli(conn)
        BY <3>4
      <4> QED BY <1>0, <3>2, <4>1 DEF ServerTouches
    <3> QED BY <3>3, <3>4
  <2>2. CASE InvalidCall(Srv(conn))
    BY <2>2 DEF InvalidCall, kernelVars, ServerTouches
  <2> QED BY <1>2, <2>1, <2>2 DEF DtorClient, CloseCall
<1>3. CASE ~(CloseListen \/ DtorListen \/ DtorClient)
  <2>1. sock' = sock
    BY <1>3
       DEF ServerStep, ServerApplication, Setup, SetupStep, ListenerBecomes, AcceptFails,
           Mode1Recv, Mode2Recv, Mode3Receive, Mode5Receive, RecvData, Mode1Eof,
           RecvError, Mode1Echo, Mode2Eof, Mode2Reply, ServerSigPipe, Mode3Ends, SelectReady,
           SelectTimeout, SelectFails, Mode5Eof, Mode5Error, ServerShutdown, kernelVars,
           CallFails, InvalidCall, SendOk, SendFails, SendKills, ReportReset, RecvEof,
           RecvFails, ShutdownOk, ShutdownFails
  <2>2. fin'[Srv(d)] = fin[Srv(d)] \/ (d = conn /\ sock[Srv(d)] = "open")
    <3>1. CASE ServerShutdown
      BY <1>0, <3>1 DEF ServerShutdown, ShutdownOk, ShutdownFails, CallFails, InvalidCall, Valid, kernelVars
    <3>2. CASE ~ServerShutdown
      <4>1. fin' = fin
        BY <1>3, <3>2
           DEF ServerStep, ServerApplication, Setup, SetupStep, ListenerBecomes, AcceptFails,
               Mode1Recv, Mode2Recv, Mode3Receive, Mode5Receive, RecvData, Mode1Eof,
               RecvError, Mode1Echo, Mode2Eof, Mode2Reply, ServerSigPipe, Mode3Ends, SelectReady,
               SelectTimeout, SelectFails, Mode5Eof, Mode5Error, kernelVars,
               CallFails, InvalidCall, SendOk, SendFails, SendKills, ReportReset, RecvEof,
               RecvFails
      <4> QED BY <4>1
    <3> QED BY <3>1, <3>2
  <2>3. rst'[Cli(d)] = rst[Cli(d)]
    <3>1. \/ rst' = rst
          \/ \E r : rst' = [rst EXCEPT ![Srv(conn)] = r]
      BY <1>3
         DEF ServerStep, ServerApplication, Setup, SetupStep, ListenerBecomes, AcceptFails,
             Mode1Recv, Mode2Recv, Mode3Receive, Mode5Receive, RecvData, Mode1Eof,
             RecvError, Mode1Echo, Mode2Eof, Mode2Reply, ServerSigPipe, Mode3Ends, SelectReady,
             SelectTimeout, SelectFails, Mode5Eof, Mode5Error, ServerShutdown, kernelVars,
             CallFails, InvalidCall, SendOk, SendFails, SendKills, ReportReset, RecvEof,
             RecvFails, ShutdownOk, ShutdownFails
    <3> QED BY <1>0, <3>1
  <2> QED BY <2>1, <2>2, <2>3 DEF ServerTouches
<1> QED BY <1>1, <1>2, <1>3

LEMMA ServerKeepsQueue ==
  ASSUME TypeInv, NoQueued, QueueInv, ServerStep, UNCHANGED clientVars
  PROVE  QueueInv'
<1> USE EndpointFacts
<1>0. /\ sock \in [Endpoints -> SockStates] /\ backlog \in Seq(Clients)
      /\ \A c \in Clients : Srv(c) \in Endpoints
  BY DEF TypeInv, KernelInv, KernelTypeOK
<1>1. CASE \E c \in Clients : Accept(c)
  <2>1. PICK c \in Clients : Accept(c)
    BY <1>1
  <2>2. sock[Srv(c)] = "queued"
    <3>1. backlog # <<>> /\ c = Head(backlog) /\ spc = "accept"
      BY <2>1 DEF Accept, AcceptCall, At
    <3>2. 1 \in 1..Len(backlog) /\ c = backlog[1]
      BY <1>0, <3>1
    <3> QED BY <3>1, <3>2 DEF QueueInv, Opening
  <2>3. /\ sock' = [sock EXCEPT ![Srv(c)] = "open"] /\ UNCHANGED <<rst, fin>>
        /\ spc' \notin Opening
    BY <2>1 DEF Accept, AcceptCall, Opening
  <2>4. \A d \in Clients : sock'[Srv(d)] = IF d = c THEN "open" ELSE sock[Srv(d)]
    BY <1>0, <2>3
  <2> QED BY <2>2, <2>3, <2>4 DEF QueueInv, Clean, clientVars, Fresh
<1>2. CASE ~(\E c \in Clients : Accept(c))
  <2>1. \A d \in Clients : ServerTouches(d)
    BY <1>2, ServerTouchesOwn
  <2>2. spc' \in Opening => spc \in Opening /\ UNCHANGED <<backlog, sock>>
    BY DEF ServerStep, ServerApplication, Setup, SetupStep, ListenerBecomes, AcceptFails,
           CloseListen, ModeOperation, Accept,
           Mode1Recv, Mode2Recv, Mode3Receive, Mode5Receive, Mode1Eof,
           RecvError, Mode1Echo, Mode2Eof, Mode2Reply, ServerSigPipe, Mode3Ends, SelectReady,
           SelectTimeout, SelectFails, Mode5Eof, Mode5Error, ServerShutdown, DtorListen,
           DtorClient, At, Goto, ReturnError, serverVars, kernelVars, CallFails, Opening
  <2>3. \A c \in Clients : cpc'[c] \in Fresh => sock'[Srv(c)] = "none"
    BY <2>1 DEF QueueInv, ServerTouches, clientVars
  <2>4. \A c \in Clients : cpc'[c] \in Fresh \/ sock'[Srv(c)] = "queued" => Clean(c)'
    BY <2>1 DEF QueueInv, ServerTouches, clientVars, Clean
  <2> QED BY <2>2, <2>3, <2>4 DEF QueueInv
<1> QED BY <1>1, <1>2

\* What a step of a client c does to its own connection.
ClientTouches(c) ==
  /\ fin'[Srv(c)] = fin[Srv(c)]
  /\ \/ sock'[Srv(c)] = sock[Srv(c)]
     \/ cpc[c] \in Fresh /\ sock'[Srv(c)] = "queued" /\ rst' = rst /\ listener = "listening"
  /\ \/ rst'[Cli(c)] = rst[Cli(c)]
     \/ rst'[Cli(c)] = "flying" /\ sock[Srv(c)] = "closed" /\ ClientSend(c)
     \/ /\ rst'[Cli(c)] = "reported" /\ rst[Cli(c)] \in {"arrived", "reported"}
        /\ ClientSendFails(c) \/ (ClientRecvEnds(c) /\ (Mode(c) = 5 \/ cpc'[c] = "dtor"))
  /\ \/ verdict'[c] = verdict[c]
     \/ verdict'[c] # "eof"
     \/ cpc[c] = "recv" /\ Mode(c) # 5 /\ RecvEof(Cli(c)) /\ cpc'[c] = "dtor"
  /\ cpc'[c] \in Fresh => cpc[c] \in Fresh /\ sock' = sock
  /\ c \notin killed

ClientFrame(c) ==
  \A d \in Clients \ {c} :
     /\ cpc'[d] = cpc[d] /\ verdict'[d] = verdict[d]
     /\ sock'[Srv(d)] = sock[Srv(d)] /\ fin'[Srv(d)] = fin[Srv(d)]
     /\ rst'[Cli(d)] = rst[Cli(d)]

LEMMA ClientTouchesOwn ==
  ASSUME TypeInv, NEW c \in Clients, ClientStep(c)
  PROVE  ClientTouches(c) /\ ClientFrame(c)
<1> USE EndpointFacts
<1>0. /\ sock \in [Endpoints -> SockStates] /\ rst \in [Endpoints -> RstStates]
      /\ fin \in [Endpoints -> BOOLEAN] /\ cpc \in [Clients -> ClientPcs]
      /\ verdict \in [Clients -> Verdicts] /\ Cli(c) \in Endpoints
      /\ \A d \in Clients : Srv(d) \in Endpoints /\ Cli(d) \in Endpoints
  BY DEF TypeInv, KernelInv, KernelTypeOK, ClientInv, ClientTypeOK
<1> DEFINE Quiet == UNCHANGED <<sock, rst, fin>>
           Moves == \E pc : ClientGoto(c, pc) /\ (pc \in Fresh => cpc[c] \in Fresh)
           Returns == \E code, v : ClientReturn(c, code, v) /\ v # "eof"
<1>1. ASSUME Quiet, Moves \/ Returns \/ UNCHANGED <<cpc, verdict>>, c \notin killed
      PROVE  ClientTouches(c) /\ ClientFrame(c)
  <2>1. \A d \in Clients \ {c} : cpc'[d] = cpc[d] /\ verdict'[d] = verdict[d]
    BY <1>0, <1>1 DEF ClientGoto, ClientReturn
  <2>2. /\ verdict'[c] = verdict[c] \/ verdict'[c] # "eof"
        /\ cpc'[c] \in Fresh => cpc[c] \in Fresh
    BY <1>0, <1>1 DEF ClientGoto, ClientReturn, Fresh
  <2> QED BY <1>1, <2>1, <2>2 DEF ClientTouches, ClientFrame
<1>2. CASE ClientApplication(c) \/ SetupResolve(c) \/ SetupSocketFails(c) \/ SetupRefused(c)
  <2>1. Quiet /\ c \notin killed
    BY <1>2 DEF ClientApplication, SetupResolve, SetupSocketFails, SetupRefused, ClientAt,
                CallFails, kernelVars
  <2>2. cpc[c] \in Fresh
    BY <1>2 DEF ClientApplication, SetupResolve, SetupSocketFails, SetupRefused, ClientAt, Fresh
  <2>3. NotConnected(c) => Moves \/ Returns
    BY <2>2 DEF NotConnected
  <2>4. Moves \/ Returns \/ UNCHANGED <<cpc, verdict>>
    BY <1>2, <2>2, <2>3 DEF ClientApplication, SetupResolve, SetupSocketFails, SetupRefused
  <2> QED BY <1>1, <2>1, <2>4
<1>3. CASE SetupConnect(c)
  <2>1. /\ listener = "listening" /\ UNCHANGED <<rst, fin, verdict>> /\ cpc[c] \in Fresh /\ c \notin killed
        /\ sock' = [sock EXCEPT ![Cli(c)] = "open", ![Srv(c)] = "queued"]
        /\ cpc' = [cpc EXCEPT ![c] = FirstStep(c)] /\ FirstStep(c) \notin Fresh
    BY <1>3 DEF SetupConnect, ConnectCall, ClientGoto, ClientAt, FirstStep, Fresh
  <2>2. \A d \in Clients : sock'[Srv(d)] = IF d = c THEN "queued" ELSE sock[Srv(d)]
    BY <1>0, <2>1
  <2> QED BY <1>0, <2>1, <2>2 DEF ClientTouches, ClientFrame
<1>4. CASE ClientSend(c)
  <2>1. /\ UNCHANGED <<sock, fin, verdict>> /\ c \notin killed /\ cpc[c] = "send"
        /\ \/ rst' = rst
           \/ sock[Srv(c)] = "closed" /\ rst' = [rst EXCEPT ![Cli(c)] = "flying"]
        /\ \E pc \in {"send", "shutdown"} : cpc' = [cpc EXCEPT ![c] = pc]
    BY <1>4 DEF ClientSend, SendOk, ClientAt
  <2>2. \A d \in Clients \ {c} : cpc'[d] = cpc[d] /\ rst'[Cli(d)] = rst[Cli(d)]
    BY <1>0, <2>1
  <2>3. cpc'[c] \notin Fresh
    BY <1>0, <2>1 DEF Fresh
  <2> QED BY <1>0, <1>4, <2>1, <2>2, <2>3 DEF ClientTouches, ClientFrame
<1>5. ASSUME SendFails(Cli(c), SigPipe) \/ RecvFails(Cli(c))
      PROVE  \/ Quiet
             \/ /\ UNCHANGED <<sock, fin>>
                /\ rst[Cli(c)] \in {"arrived", "reported"}
                /\ rst' = [rst EXCEPT ![Cli(c)] = "reported"]
  BY <1>5 DEF SendFails, RecvFails, CallFails, InvalidCall, BrokenPipe, ReportReset, kernelVars
<1>6. CASE ClientSendFails(c)
  <2>1. Moves \/ Returns
    BY <1>6 DEF ClientSendFails, Fresh
  <2>2. c \notin killed /\ SendFails(Cli(c), SigPipe)
    BY <1>6 DEF ClientSendFails, ClientAt
  <2>3. CASE Quiet
    BY <1>1, <2>1, <2>2, <2>3
  <2>4. CASE ~Quiet
    <3>1. /\ UNCHANGED <<sock, fin>>
          /\ rst[Cli(c)] \in {"arrived", "reported"}
          /\ rst' = [rst EXCEPT ![Cli(c)] = "reported"]
      BY <1>5, <2>2, <2>4
    <3>2. /\ \A d \in Clients \ {c} : cpc'[d] = cpc[d] /\ verdict'[d] = verdict[d]
          /\ verdict'[c] = verdict[c] \/ verdict'[c] # "eof"
          /\ cpc'[c] \in Fresh => cpc[c] \in Fresh
      BY <1>0, <2>1 DEF ClientGoto, ClientReturn, Fresh
    <3>3. rst'[Cli(c)] = "reported" /\ \A d \in Clients \ {c} : rst'[Cli(d)] = rst[Cli(d)]
      BY <1>0, <3>1
    <3> QED BY <1>6, <2>2, <3>1, <3>2, <3>3 DEF ClientTouches, ClientFrame
  <2> QED BY <2>3, <2>4
<1>7. CASE ClientSigPipe(c)
  BY <1>1, <1>7 DEF ClientSigPipe, SendKills, clientVars, ClientAt
<1>8. CASE ClientShutdown(c)
  <2>1. Moves \/ Returns
    BY <1>8 DEF ClientShutdown, Fresh
  <2>2. /\ UNCHANGED <<sock, rst>> /\ c \notin killed
        /\ \A d \in Clients : fin'[Srv(d)] = fin[Srv(d)]
    BY <1>0, <1>8 DEF ClientShutdown, ShutdownOk, ShutdownFails, CallFails, InvalidCall, ClientAt,
                      kernelVars
  <2>3. /\ \A d \in Clients \ {c} : cpc'[d] = cpc[d] /\ verdict'[d] = verdict[d]
        /\ verdict'[c] = verdict[c] \/ verdict'[c] # "eof"
        /\ cpc'[c] \in Fresh => cpc[c] \in Fresh
    BY <1>0, <2>1 DEF ClientGoto, ClientReturn, Fresh
  <2> QED BY <2>2, <2>3 DEF ClientTouches, ClientFrame
<1>9. CASE \E n \in RecvSizes : ClientRecv(c, n)
  BY <1>1, <1>9 DEF ClientRecv, RecvData, ClientAt
<1>10. CASE ClientRecvEnds(c)
  <2>1. /\ c \notin killed /\ cpc[c] = "recv"
        /\ \/ RecvEof(Cli(c)) /\ Mode(c) # 5 /\ ClientReturn(c, 0, "eof")
           \/ /\ RecvFails(Cli(c)) \/ Quiet
              /\ \/ Mode(c) = 5 /\ ClientGoto(c, "close")
                 \/ ClientReturn(c, 0, "error")
    BY <1>10 DEF ClientRecvEnds, ClientAt, RecvEof, kernelVars
  <2>2. CASE RecvEof(Cli(c)) /\ Mode(c) # 5 /\ ClientReturn(c, 0, "eof")
    <3>1. Quiet
      BY <2>2 DEF RecvEof, kernelVars
    <3>2. cpc'[c] = "dtor" /\ \A d \in Clients \ {c} : cpc'[d] = cpc[d] /\ verdict'[d] = verdict[d]
      BY <1>0, <2>2 DEF ClientReturn
    <3> QED BY <2>1, <2>2, <3>1, <3>2 DEF ClientTouches, ClientFrame, Fresh
  <2>3. ASSUME RecvFails(Cli(c)) \/ Quiet,
               (Mode(c) = 5 /\ ClientGoto(c, "close")) \/ ClientReturn(c, 0, "error")
        PROVE  ClientTouches(c) /\ ClientFrame(c)
    <3>1. Moves \/ Returns
      BY <2>3 DEF Fresh
    <3>2. CASE Quiet
      BY <1>1, <2>1, <3>1, <3>2
    <3>3. CASE ~Quiet
      <4>1. /\ UNCHANGED <<sock, fin>>
            /\ rst[Cli(c)] \in {"arrived", "reported"}
            /\ rst' = [rst EXCEPT ![Cli(c)] = "reported"]
        BY <1>5, <2>3, <3>3
      <4>2. /\ \A d \in Clients \ {c} : cpc'[d] = cpc[d] /\ verdict'[d] = verdict[d]
            /\ verdict'[c] = verdict[c] \/ verdict'[c] # "eof"
            /\ cpc'[c] \notin Fresh /\ (Mode(c) = 5 \/ cpc'[c] = "dtor")
        BY <1>0, <2>3 DEF ClientGoto, ClientReturn, Fresh
      <4>3. rst'[Cli(c)] = "reported" /\ \A d \in Clients \ {c} : rst'[Cli(d)] = rst[Cli(d)]
        BY <1>0, <4>1
      <4> QED BY <1>10, <2>1, <4>1, <4>2, <4>3 DEF ClientTouches, ClientFrame
    <3> QED BY <3>2, <3>3
  <2> QED BY <2>1, <2>2, <2>3
<1>11. CASE ClientClose(c) \/ ClientDtor(c)
  <2>1. /\ \A d \in Clients : /\ sock'[Srv(d)] = sock[Srv(d)] /\ fin'[Srv(d)] = fin[Srv(d)]
                              /\ rst'[Cli(d)] = rst[Cli(d)]
        /\ c \notin killed
    BY <1>0, <1>11 DEF ClientClose, ClientDtor, CloseCall, CloseOpen, InvalidCall, ClientAt, kernelVars
  <2>2. /\ \A d \in Clients \ {c} : cpc'[d] = cpc[d] /\ cpc'[c] \notin Fresh
        /\ verdict' = verdict
    BY <1>0, <1>11 DEF ClientClose, ClientDtor, ClientGoto, Fresh
  <2>3. cpc'[c] \notin Fresh
    BY <1>0, <1>11 DEF ClientClose, ClientDtor, ClientGoto, Fresh
  <2> QED BY <2>1, <2>2, <2>3 DEF ClientTouches, ClientFrame
<1> QED
  BY <1>2, <1>3, <1>4, <1>6, <1>7, <1>8, <1>9, <1>10, <1>11 DEF ClientStep

\* What main, the network and the system do to the connection of a client.
EnvTouches(d) ==
  /\ fin'[Srv(d)] = fin[Srv(d)] \/ (d = conn /\ sock[Srv(d)] = "open" /\ LocalClient \in killed)
  /\ \/ sock'[Srv(d)] = sock[Srv(d)]
     \/ sock'[Srv(d)] = "closed" /\ sock[Srv(d)] \in {"queued", "open"} /\ LocalClient \in killed
  /\ \/ rst'[Cli(d)] = rst[Cli(d)]
     \/ rst[Cli(d)] = "flying" /\ rst'[Cli(d)] = "arrived"
     \/ /\ rst'[Cli(d)] \in {"flying", rst[Cli(d)]} /\ LocalClient \in killed
        /\ \/ sock[Srv(d)] = "queued" /\ sock'[Srv(d)] = "closed"
           \/ sock[Srv(d)] = "open"
  /\ cpc'[d] = cpc[d] \/ (cpc[d] = "idle" /\ cpc'[d] = "start")

EnvStep == Main \/ Network \/ \E c \in Clients : StartRemote(c) \/ Reap(c)

LEMMA EnvKeeps ==
  ASSUME TypeInv, EnvStep
  PROVE  /\ UNCHANGED <<cfg, conn, sret, sent, read, killed, verdict>>
         /\ spc' = spc \/ (spc = "idle" /\ spc' = "start")
         /\ UNCHANGED backlog \/ backlog' = <<>>
BY DEF EnvStep, Main, SpawnServer, SpawnClient, JoinServer, JoinClient, MainAt, Goto, ClientGoto,
       Network, DeliverRst, StartRemote, Reap, CloseCall, CloseOpen, InvalidCall,
       CloseListenerCall, serverVars, clientVars, kernelVars, TypeInv

LEMMA EnvTouchesAll ==
  ASSUME TypeInv, NoQueued, EnvStep, NEW d \in Clients
  PROVE  EnvTouches(d)
<1> USE EndpointFacts
<1>0. /\ sock \in [Endpoints -> SockStates] /\ rst \in [Endpoints -> RstStates]
      /\ fin \in [Endpoints -> BOOLEAN] /\ Srv(d) \in Endpoints /\ Cli(d) \in Endpoints
      /\ cpc \in [Clients -> ClientPcs]
  BY DEF TypeInv, KernelInv, KernelTypeOK, ClientInv, ClientTypeOK
<1>1. CASE Main
  <2>1. UNCHANGED kernelVars
    BY <1>1 DEF Main, SpawnServer, SpawnClient, JoinServer, JoinClient
  <2>2. cpc'[d] = cpc[d] \/ (cpc[d] = "idle" /\ cpc'[d] = "start")
    BY <1>0, <1>1 DEF Main, SpawnServer, SpawnClient, JoinServer, JoinClient, MainAt, ClientGoto,
                clientVars, TypeInv
  <2> QED BY <2>1, <2>2 DEF EnvTouches, kernelVars
<1>2. CASE Network
  <2>1. PICK x \in Endpoints : rst[x] = "flying" /\ rst' = [rst EXCEPT ![x] = "arrived"]
    BY <1>2 DEF Network, DeliverRst
  <2>2. UNCHANGED <<sock, fin, cpc>>
    BY <1>2 DEF Network, DeliverRst, clientVars
  <2> QED BY <1>0, <2>1, <2>2 DEF EnvTouches
<1>3. ASSUME NEW c \in Clients, StartRemote(c) PROVE EnvTouches(d)
  BY <1>0, <1>3 DEF StartRemote, ClientGoto, kernelVars, EnvTouches
<1>4. ASSUME NEW c \in Clients, Reap(c) PROVE EnvTouches(d)
  <2>0. cpc' = cpc
    BY <1>4 DEF Reap, clientVars
  <2>1. CASE CloseCall(Cli(c))
    <3>1. /\ sock'[Srv(d)] = sock[Srv(d)] /\ fin'[Srv(d)] = fin[Srv(d)]
          /\ rst'[Cli(d)] = rst[Cli(d)]
      BY <1>0, <2>1 DEF CloseCall, CloseOpen, InvalidCall, kernelVars
    <3> QED BY <2>0, <3>1 DEF EnvTouches
  <2>2. CASE c = LocalClient /\ CloseListenerCall
    BY <1>0, <1>4, <2>0, <2>2 DEF Reap, CloseListenerCall, EnvTouches
  <2>3. CASE c = LocalClient /\ sock[Srv(conn)] = "open" /\ conn # NoClient /\ CloseCall(Srv(conn))
    <3>1. conn \in Clients /\ LocalClient \in killed
      BY <1>4, <2>3 DEF Reap, TypeInv, ServerInv, ServerTypeOK
    <3>2. CloseOpen(Srv(conn))
      BY <2>3, <3>1 DEF CloseCall, InvalidCall, Valid
    <3>3. /\ sock' = [sock EXCEPT ![Srv(conn)] = "closed"]
          /\ \A x \in Endpoints \ {Srv(conn)} : fin'[x] = fin[x]
          /\ \/ rst' = rst
             \/ rst' = [rst EXCEPT ![Cli(conn)] = IF rst[Cli(conn)] = "none" THEN "flying" ELSE rst[Cli(conn)]]
      BY <1>0, <3>1, <3>2 DEF CloseOpen
    <3>4. CASE d = conn
      BY <1>0, <2>0, <2>3, <3>1, <3>3, <3>4 DEF EnvTouches
    <3>5. CASE d # conn
      BY <1>0, <2>0, <3>1, <3>3, <3>5 DEF EnvTouches
    <3> QED BY <3>4, <3>5
  <2> QED BY <1>4, <2>1, <2>2, <2>3 DEF Reap
<1> QED BY <1>1, <1>2, <1>3, <1>4 DEF EnvStep

LEMMA NextParts ==
  ASSUME Next
  PROVE  ServerThread \/ EnvStep \/ \E c \in Clients : ClientThread(c)
BY DEF Next, EnvStep

LEMMA ClientKeepsQueue ==
  ASSUME TypeInv, QueueInv, NEW c \in Clients, ClientStep(c), UNCHANGED spc
  PROVE  QueueInv'
<1>0. ClientTouches(c) /\ ClientFrame(c) /\ backlog \in Seq(Clients)
  BY ClientTouchesOwn DEF TypeInv, KernelInv, KernelTypeOK
<1>1. ASSUME spc \in Opening, NEW i \in 1..Len(backlog') PROVE sock'[Srv(backlog'[i])] = "queued"
  <2>1. backlog' = backlog \/ (backlog' = Append(backlog, c) /\ SetupConnect(c))
    BY DEF ClientStep, ClientApplication, SetupResolve, SetupSocketFails, SetupConnect,
         SetupRefused, ClientSend, ClientSendFails, ClientSigPipe, ClientShutdown,
         ClientRecv, ClientRecvEnds, ClientClose, ClientDtor,
         kernelVars, CallFails, InvalidCall, ConnectCall, SendOk, SendFails,
         SendKills, ReportReset, RecvData, ShutdownOk, ShutdownFails, RecvEof, RecvFails,
         CloseCall, CloseOpen
  <2>2. \A j \in 1..Len(backlog) : sock'[Srv(backlog[j])] = "queued"
    BY <1>0, <1>1 DEF QueueInv, ClientTouches, ClientFrame
  <2>3. CASE backlog' = backlog
    BY <1>1, <2>2, <2>3
  <2>4. CASE backlog' = Append(backlog, c) /\ SetupConnect(c)
    <3>1. sock'[Srv(c)] = "queued"
      BY <2>4, EndpointFacts DEF SetupConnect, ConnectCall, TypeInv, KernelInv, KernelTypeOK
    <3>2. i \in 1..Len(backlog) \/ i = Len(backlog) + 1
      BY <1>0, <1>1, <2>4
    <3> QED BY <1>0, <2>2, <2>4, <3>1, <3>2
  <2> QED BY <2>1, <2>3, <2>4
<1>2. ASSUME NEW d \in Clients, cpc'[d] \in Fresh PROVE sock'[Srv(d)] = "none"
  BY <1>0, <1>2 DEF QueueInv, ClientTouches, ClientFrame
<1>3. ASSUME NEW d \in Clients, cpc'[d] \in Fresh \/ sock'[Srv(d)] = "queued" PROVE Clean(d)'
  <2>1. CASE d # c
    BY <1>0, <1>3, <2>1 DEF QueueInv, ClientFrame, Clean
  <2>2. CASE d = c
    <3>1. /\ cpc[c] \in Fresh \/ sock[Srv(c)] = "queued"
          /\ cpc[c] \in Fresh => sock[Srv(c)] = "none"
          /\ Clean(c)
      BY <1>0, <1>3, <2>2 DEF QueueInv, ClientTouches
    <3>2. rst'[Cli(c)] = rst[Cli(c)] /\ fin'[Srv(c)] = fin[Srv(c)]
      BY <1>0, <3>1 DEF ClientTouches, Clean
    <3>3. ~RecvEof(Cli(c))
      BY <3>1, EndpointFacts DEF RecvEof, AtEnd, Clean
    <3> QED BY <1>0, <2>2, <3>1, <3>2, <3>3 DEF ClientTouches, Clean
  <2> QED BY <2>1, <2>2
<1> QED BY <1>1, <1>2, <1>3 DEF QueueInv

LEMMA EnvKeepsQueue ==
  ASSUME TypeInv, NoQueued, QueueInv, EnvStep
  PROVE  QueueInv'
<1>0. /\ \A d \in Clients : EnvTouches(d)
      /\ UNCHANGED <<conn, verdict, killed>>
      /\ spc' = spc \/ (spc = "idle" /\ spc' = "start")
      /\ UNCHANGED backlog \/ backlog' = <<>>
  BY EnvTouchesAll, EnvKeeps
<1>1. spc' \in Opening => spc \in Opening
  BY <1>0 DEF Opening
<1>2. ASSUME spc \in Opening, NEW i \in 1..Len(backlog') PROVE sock'[Srv(backlog'[i])] = "queued"
  <2>1. backlog' = backlog /\ i \in 1..Len(backlog)
    BY <1>0, <1>2
  <2>2. backlog[i] \in Clients /\ sock \in [Endpoints -> SockStates]
    BY <2>1 DEF TypeInv, KernelInv, KernelTypeOK
  <2>3. conn = NoClient
    BY <1>2 DEF TypeInv, ServerInv
  <2>4. \/ sock' = sock
        \/ CloseListenerCall
        \/ \E c \in Clients : CloseCall(Cli(c))
    BY <2>3 DEF EnvStep, Main, SpawnServer, SpawnClient, JoinServer, JoinClient, Network,
         DeliverRst, StartRemote, Reap, kernelVars
  <2>5. ~CloseListenerCall
    <3>1. backlog' = <<>> => 1..Len(backlog') = {}
      OBVIOUS
    <3> QED BY <1>2, <3>1 DEF CloseListenerCall
  <2>6. sock'[Srv(backlog[i])] = sock[Srv(backlog[i])]
    BY <2>2, <2>4, <2>5, EndpointFacts DEF CloseCall, CloseOpen, InvalidCall, kernelVars
  <2> QED BY <1>2, <2>1, <2>6 DEF QueueInv
<1>3. ASSUME NEW d \in Clients, cpc'[d] \in Fresh PROVE sock'[Srv(d)] = "none"
  BY <1>0, <1>3 DEF QueueInv, EnvTouches, Fresh
<1>4. ASSUME NEW d \in Clients, cpc'[d] \in Fresh \/ sock'[Srv(d)] = "queued" PROVE Clean(d)'
  <2>1. cpc[d] \in Fresh \/ sock[Srv(d)] = "queued"
    BY <1>0, <1>4 DEF EnvTouches, Fresh
  <2>2. Clean(d) /\ sock[Srv(d)] \in {"none", "queued"}
    BY <2>1 DEF QueueInv
  <2> QED BY <1>0, <1>3, <1>4, <2>2 DEF EnvTouches, Clean
<1> QED BY <1>1, <1>2, <1>3, <1>4 DEF QueueInv

LEMMA QueueInvStep ==
  TypeInv /\ NoQueued /\ QueueInv /\ [Next]_vars => QueueInv'
<1> SUFFICES ASSUME TypeInv, NoQueued, QueueInv, [Next]_vars PROVE QueueInv'
  OBVIOUS
<1>1. CASE UNCHANGED vars
  BY <1>1 DEF vars, serverVars, clientVars, kernelVars, QueueInv, Clean
<1>2. CASE ServerThread
  BY <1>2, ServerKeepsQueue DEF ServerThread
<1>3. ASSUME NEW c \in Clients, ClientThread(c) PROVE QueueInv'
  BY <1>3, ClientKeepsQueue DEF ClientThread, serverVars
<1>4. CASE EnvStep
  BY <1>4, EnvKeepsQueue
<1> QED BY <1>1, <1>2, <1>3, <1>4, NextParts

\* A client that is not served is never shown the end of a stream.
Told(c) == rst[Cli(c)] = "reported" => Mode(c) \in {3, 5} \/ cpc[c] \in {"dtor", "done"}

EofOnly(c) == verdict[c] = "eof" /\ Mode(c) # 3 => c = conn

FinServed == \A c \in Clients : fin[Srv(c)] => c = conn

TellInv == FinServed /\ \A c \in Clients : Told(c) /\ EofOnly(c)

LEMMA TellInvStep ==
  TypeInv /\ NoQueued /\ QueueInv /\ SocketInv /\ TellInv /\ [Next]_vars => TellInv'
<1> SUFFICES ASSUME TypeInv, NoQueued, QueueInv, SocketInv, TellInv, [Next]_vars PROVE TellInv'
  OBVIOUS
<1> USE DEF TellInv
<1>1. CASE UNCHANGED vars
  BY <1>1 DEF vars, serverVars, clientVars, kernelVars, Told, EofOnly, FinServed, Mode
<1>2. CASE ServerThread
  <2>1. UNCHANGED <<cfg, cpc, verdict>> /\ ServerStep
    BY <1>2 DEF ServerThread, clientVars
  <2>2. CASE \E c \in Clients : Accept(c)
    <3>1. UNCHANGED <<rst, fin>> /\ conn = NoClient
      BY <2>2 DEF Accept, AcceptCall, At, TypeInv, ServerInv, Opening
    <3> QED BY <2>1, <3>1, ServerAssumption DEF Told, EofOnly, FinServed, Mode
  <2>3. CASE ~(\E c \in Clients : Accept(c))
    <3>1. \A d \in Clients : ServerTouches(d)
      BY <2>1, <2>3, ServerTouchesOwn
    <3>2. conn' = conn
      BY <2>1, <2>3
         DEF ServerStep, ServerApplication, Setup, SetupStep, AcceptFails, CloseListen,
             Mode1Recv, Mode2Recv, Mode3Receive, Mode5Receive, Mode1Eof, RecvError, Mode1Echo,
             Mode2Eof, Mode2Reply, ServerSigPipe, Mode3Ends, SelectReady, SelectTimeout,
             SelectFails, Mode5Eof, Mode5Error, ServerShutdown, DtorListen, DtorClient, Goto,
             ReturnError, serverVars
    <3> QED BY <2>1, <3>1, <3>2 DEF ServerTouches, Told, EofOnly, FinServed, Mode
  <2> QED BY <2>2, <2>3
<1>3. ASSUME NEW c \in Clients, ClientThread(c) PROVE TellInv'
  <2>1. ClientTouches(c) /\ ClientFrame(c) /\ UNCHANGED <<cfg, conn>> /\ ClientStep(c)
    BY <1>3, ClientTouchesOwn DEF ClientThread, serverVars
  <2>2. FinServed'
    BY <2>1 DEF ClientTouches, ClientFrame, FinServed
  <2>3. \A d \in Clients \ {c} : (Told(d) /\ EofOnly(d))'
    BY <2>1 DEF ClientFrame, Told, EofOnly, Mode
  <2>4. /\ cpc[c] \in {"dtor", "done"} => cpc'[c] \in {"dtor", "done"}
        /\ ClientSendFails(c) => Mode(c) \in {3, 5} \/ cpc'[c] = "dtor"
    <3>1. cpc \in [Clients -> ClientPcs]
      BY DEF TypeInv, ClientInv, ClientTypeOK
    <3> QED
      BY <2>1, <3>1
         DEF ClientStep, ClientApplication, SetupResolve, SetupSocketFails, SetupConnect,
             SetupRefused, ClientSend, ClientSendFails, ClientSigPipe, ClientShutdown,
             ClientRecv, ClientRecvEnds, ClientClose, ClientDtor, ClientAt, ClientGoto,
             ClientReturn, clientVars
  <2>5. Told(c)'
    BY <2>1, <2>4 DEF ClientTouches, Told, Mode
  <2>6. EofOnly(c)'
    <3>1. CASE verdict'[c] = verdict[c] \/ verdict'[c] # "eof"
      BY <2>1, <3>1 DEF EofOnly, Mode
    <3>2. CASE cpc[c] = "recv" /\ Mode(c) # 5 /\ RecvEof(Cli(c))
      <4>1. fin[Srv(c)] \/ rst[Cli(c)] = "reported"
        BY <3>2, EndpointFacts DEF RecvEof, AtEnd
      <4>2. fin[Srv(c)] => c = conn
        BY DEF FinServed
      <4>3. rst[Cli(c)] = "reported" => Mode(c) = 3
        BY <3>2 DEF Told
      <4> QED BY <2>1, <4>1, <4>2, <4>3 DEF EofOnly, Mode
    <3> QED BY <2>1, <3>1, <3>2 DEF ClientTouches
  <2> QED BY <2>2, <2>3, <2>5, <2>6
<1>4. CASE EnvStep
  <2>1. UNCHANGED <<cfg, conn, verdict>> /\ \A d \in Clients : EnvTouches(d)
    BY <1>4, EnvKeeps, EnvTouchesAll
  <2> QED BY <2>1 DEF EnvTouches, Told, EofOnly, FinServed, Mode
<1> QED BY <1>1, <1>2, <1>3, <1>4, NextParts

LEMMA EndsInit == Init => QueueInv /\ TellInv
<1> SUFFICES ASSUME Init PROVE QueueInv /\ TellInv
  OBVIOUS
<1>1. \A c \in Clients : /\ sock[Srv(c)] = "none" /\ rst[Cli(c)] = "none"
                         /\ ~fin[Srv(c)] /\ verdict[c] = "none"
  BY EndpointFacts DEF Init, KernelInit, ClientInit
<1>2. backlog = <<>>
  BY DEF Init, KernelInit
<1> QED BY <1>1, <1>2 DEF QueueInv, TellInv, Clean, Told, EofOnly, FinServed

EndsInv == TypeInv /\ ReplyInv /\ DrainInv /\ SocketInv /\ QueueInv /\ TellInv

LEMMA EndsStep == EndsInv /\ [Next]_vars => EndsInv'
BY TypeInvStep, ReplyInvStep, DrainInvStep, SocketInvStep, QueueInvStep, TellInvStep
   DEF EndsInv, DrainInv

LEMMA EndsCorrect == Spec => []EndsInv
<1>1. Init => EndsInv
  BY TypeInvInit, ReplyInvInit, DrainInvInit, SocketInvInit, EndsInit DEF EndsInv
<1> QED BY <1>1, EndsStep, PTL DEF Spec

\* A client that connected and was not accepted prints no text, and its
\* stream does not seem to it to have ended in order, unless it is in mode 3.
THEOREM RejectedIsToldHolds == Spec => []RejectedIsTold
<1>1. EndsInv /\ LogShowsReceived => RejectedIsTold
  <2> SUFFICES ASSUME EndsInv, LogShowsReceived, NEW c \in Clients \ {conn}
               PROVE  shown[c] = <<>> /\ (verdict[c] = "eof" => Mode(c) = 3)
    BY DEF RejectedIsTold
  <2>1. shown[c] \in Seq(Byte) /\ Len(shown[c]) = read[Cli(c)]
    BY DEF LogShowsReceived, EndsInv, TypeInv, ClientInv, ClientTypeOK
  <2>2. read[Cli(c)] <= Len(sent[Srv(c)]) /\ sent[Srv(c)] = <<>> /\ read[Cli(c)] \in Nat
    BY EndpointFacts DEF EndsInv, TypeInv, KernelInv, KernelTypeOK, ReadBound, ReplyInv, Untouched
  <2>3. Len(shown[c]) = 0
    BY <2>1, <2>2
  <2> QED BY <2>1, <2>3 DEF EndsInv, TellInv, EofOnly
<1> QED BY <1>1, EndsCorrect, LogIsFaithful, PTL

-------------------------------------------------------------------------------
(* What "Server closed connection" means. *)

\* The client served is reset only by a server that failed; a server past
\* its shutdown has replied to all it received; a client that saw the end of
\* the stream has all of it.
Orderly ==
  (conn \in Clients /\ LocalClient \notin killed /\ sret = 0 /\ ServerMode \in {1, 2, 5}) =>
     /\ rst[Cli(conn)] = "none"
     /\ sock[Srv(conn)] = "open" \/ spc = "done"
     /\ spc \in Ending => /\ ServerMode = 1 => Len(sent[Srv(conn)]) = read[Srv(conn)]
                          /\ ServerMode = 2 => sent[Srv(conn)] = Unrequested
     /\ verdict[conn] = "eof" => Unread(Cli(conn)) = 0 /\ fin[Srv(conn)]

LEMMA ClientReads ==
  ASSUME TypeInv, NEW c \in Clients, ClientStep(c), NEW d \in Clients,
         read'[Cli(d)] # read[Cli(d)]
  PROVE  d = c /\ Unread(Cli(c)) > 0
<1>1. PICK n \in RecvSizes : ClientRecv(c, n)
  BY DEF ClientStep, ClientApplication, SetupResolve, SetupSocketFails, SetupConnect,
         SetupRefused, ClientSend, ClientSendFails, ClientSigPipe, ClientShutdown,
         ClientRecvEnds, ClientClose, ClientDtor,
         kernelVars, CallFails, InvalidCall, ConnectCall, SendOk, SendFails,
         SendKills, ReportReset, ShutdownOk, ShutdownFails, RecvEof, RecvFails,
         CloseCall, CloseOpen
<1>2. n > 0 /\ n \in Nat /\ n <= Unread(Cli(c)) /\ read' = [read EXCEPT ![Cli(c)] = read[Cli(c)] + n]
  BY <1>1, BufferAssumption DEF ClientRecv, RecvData, RecvSizes
<1>3. d = c
  BY <1>2, EndpointFacts DEF TypeInv, KernelInv, KernelTypeOK
<1>4. Unread(Cli(c)) \in Int
  <2>1. read[Cli(c)] \in Nat /\ Len(sent[Srv(c)]) \in Nat
    BY EndpointFacts DEF TypeInv, KernelInv, KernelTypeOK
  <2> QED BY <2>1, EndpointFacts DEF Unread
<1> QED BY <1>2, <1>3, <1>4

LEMMA ClientKeepsOrderly ==
  ASSUME EndsInv, Orderly, NEW c \in Clients, ClientThread(c), Lasting
  PROVE  Orderly'
<1>1. /\ ClientStep(c) /\ UNCHANGED <<cfg, conn, sret, spc>> /\ ServerEndsKept
      /\ ClientTouches(c) /\ ClientFrame(c)
  BY ClientTouchesOwn, ClientKeepsServerEnds DEF ClientThread, serverVars, EndsInv
<1>2. SUFFICES ASSUME conn \in Clients, LocalClient \notin killed', sret = 0,
                      ServerMode \in {1, 2, 5}
               PROVE  Orderly'
  BY <1>1 DEF Orderly, ServerMode, Mode
<1>3. /\ rst[Cli(conn)] = "none"
      /\ sock[Srv(conn)] = "open" \/ spc = "done"
      /\ spc \in Ending => /\ ServerMode = 1 => Len(sent[Srv(conn)]) = read[Srv(conn)]
                           /\ ServerMode = 2 => sent[Srv(conn)] = Unrequested
      /\ verdict[conn] = "eof" => Unread(Cli(conn)) = 0 /\ fin[Srv(conn)]
      /\ LocalClient \notin killed
  BY <1>2 DEF Orderly, Lasting
<1>4. /\ sent'[Srv(conn)] = sent[Srv(conn)] /\ read'[Srv(conn)] = read[Srv(conn)]
      /\ ServerMode' = ServerMode /\ conn' = conn
      /\ Peer(Cli(conn)) = Srv(conn) /\ Srv(conn) \in Endpoints /\ Cli(conn) \in Endpoints
  BY <1>1, <1>2, EndpointFacts DEF ServerEndsKept, ServerMode, Mode
<1>5. verdict[conn] = "eof" => Unread(Cli(conn))' = 0 /\ fin'[Srv(conn)]
  <2>1. ASSUME verdict[conn] = "eof" PROVE read'[Cli(conn)] = read[Cli(conn)]
    <3>1. Unread(Cli(conn)) = 0
      BY <1>3, <2>1
    <3>2. ~(Unread(Cli(conn)) > 0)
      BY <3>1
    <3> QED BY <1>1, <1>2, <3>2, ClientReads DEF EndsInv
  <2> QED BY <1>3, <1>4, <2>1 DEF Unread, Lasting
<1>6. CASE c # conn
  <2>1. /\ verdict'[conn] = verdict[conn] /\ sock'[Srv(conn)] = sock[Srv(conn)]
        /\ rst'[Cli(conn)] = rst[Cli(conn)]
    BY <1>1, <1>2, <1>6 DEF ClientFrame
  <2> QED BY <1>1, <1>3, <1>4, <1>5, <2>1 DEF Orderly
<1>7. CASE c = conn
  <2>1. sock'[Srv(conn)] = sock[Srv(conn)]
    <3>1. CASE cpc[c] \in Fresh /\ listener = "listening"
      <4>1. sock[Srv(conn)] = "none"
        BY <1>7, <3>1 DEF EndsInv, QueueInv
      <4>2. spc = "done"
        BY <1>3, <4>1
      <4> QED BY <3>1, <4>2 DEF EndsInv, SocketInv, ServerSockets, Deaf
    <3> QED BY <1>1, <1>7, <3>1 DEF ClientTouches
  <2>2. rst'[Cli(conn)] = "none"
    <3>1. CASE ClientSend(c) /\ sock[Srv(c)] = "closed"
      <4>1. spc = "done"
        BY <1>3, <1>7, <3>1
      <4>2. fin[Cli(conn)]
        BY <1>2, <1>3, <4>1 DEF EndsInv, DrainInv, Drain, Complete, Ending
      <4>3. c \in killed \/ cpc[c] \in Waiting
        BY <1>7, <4>2 DEF EndsInv, DrainInv, Silent
      <4> QED BY <3>1, <4>3 DEF ClientSend, ClientAt, Waiting
    <3> QED BY <1>1, <1>3, <1>7, <3>1 DEF ClientTouches
  <2>3. verdict'[conn] = "eof" => Unread(Cli(conn))' = 0 /\ fin'[Srv(conn)]
    <3>1. CASE RecvEof(Cli(c))
      <4>1. UNCHANGED kernelVars /\ Unread(Cli(conn)) = 0 /\ fin[Srv(conn)]
        BY <1>3, <1>4, <1>7, <3>1 DEF RecvEof, AtEnd
      <4> QED BY <1>4, <4>1 DEF Unread, kernelVars
    <3>2. CASE verdict'[c] = verdict[c]
      BY <1>5, <1>7, <3>2
    <3> QED BY <1>1, <1>7, <3>1, <3>2 DEF ClientTouches
  <2> QED BY <1>1, <1>3, <1>4, <2>1, <2>2, <2>3 DEF Orderly
<1> QED BY <1>6, <1>7

LEMMA ServerKeepsOrderly ==
  ASSUME EndsInv, EndsInv', Orderly, ServerThread, Lasting
  PROVE  Orderly'
<1>1. /\ ServerStep /\ UNCHANGED <<cfg, verdict>> /\ ServerMode' = ServerMode
      /\ \A x \in Endpoints : sock[x] \in SockStates
      /\ sock \in [Endpoints -> SockStates]
  BY DEF ServerThread, clientVars, ServerMode, Mode, EndsInv, TypeInv, KernelInv, KernelTypeOK
<1>2. SUFFICES ASSUME conn' \in Clients, LocalClient \notin killed', sret' = 0,
                      ServerMode \in {1, 2, 5}
               PROVE  Orderly'
  BY <1>1 DEF Orderly
<1>3. LocalClient \notin killed
  BY <1>2 DEF Lasting
<1>4. CASE \E c \in Clients : Accept(c)
  <2>1. PICK c \in Clients : Accept(c)
    BY <1>4
  <2>2. /\ conn' = c /\ spc' = "closeListen" /\ spc = "accept" /\ UNCHANGED <<rst, fin>>
        /\ sock' = [sock EXCEPT ![Srv(c)] = "open"]
        /\ backlog # <<>> /\ c = Head(backlog)
    BY <2>1 DEF Accept, AcceptCall, At
  <2>3. sock[Srv(c)] = "queued"
    <3>1. backlog \in Seq(Clients)
      BY DEF EndsInv, TypeInv, KernelInv, KernelTypeOK
    <3>2. 1 \in 1..Len(backlog) /\ c = backlog[1]
      BY <2>2, <3>1
    <3> QED BY <2>2, <3>2 DEF EndsInv, QueueInv, Opening
  <2>4. Clean(c)
    BY <2>3 DEF EndsInv, QueueInv
  <2>5. sock'[Srv(c)] = "open"
    BY <1>1, <2>2, EndpointFacts
  <2> QED BY <1>1, <2>2, <2>4, <2>5 DEF Orderly, Clean, Ending
<1>5. CASE ~(\E c \in Clients : Accept(c))
  <2>1. /\ conn' = conn
        /\ sret' \in {sret, 1}
        /\ spc # "done"
    BY <1>1, <1>5
       DEF ServerStep, ServerApplication, Setup, SetupStep, AcceptFails, CloseListen,
           Mode1Recv, Mode2Recv, Mode3Receive, Mode5Receive, Mode1Eof, RecvError, Mode1Echo,
           Mode2Eof, Mode2Reply, ServerSigPipe, Mode3Ends, SelectReady, SelectTimeout,
           SelectFails, Mode5Eof, Mode5Error, ServerShutdown, DtorListen, DtorClient, Goto, At,
           ReturnError, serverVars
  <2>2. /\ conn \in Clients /\ sret = 0 /\ rst[Cli(conn)] = "none" /\ sock[Srv(conn)] = "open"
        /\ spc \in Ending => /\ ServerMode = 1 => Len(sent[Srv(conn)]) = read[Srv(conn)]
                             /\ ServerMode = 2 => sent[Srv(conn)] = Unrequested
        /\ verdict[conn] = "eof" => Unread(Cli(conn)) = 0 /\ fin[Srv(conn)]
    BY <1>2, <1>3, <2>1 DEF Orderly
  <2>3. /\ Srv(conn) \in Endpoints /\ Cli(conn) \in Endpoints
        /\ Peer(Srv(conn)) = Cli(conn) /\ Peer(Cli(conn)) = Srv(conn)
    BY <2>2, EndpointFacts
  <2>4. rst'[Cli(conn)] = "none"
    <3>1. ServerTouches(conn)
      BY <1>1, <1>5, <2>2, ServerTouchesOwn DEF EndsInv, DrainInv
    <3>2. spc = "dtorClient" => Unread(Srv(conn)) = 0
      BY <1>2, <1>3, <2>2 DEF EndsInv, DrainInv, Drain, Complete, Ending
    <3>3. spc = "dtorClient" => ~(Unread(Srv(conn)) > 0)
      BY <3>2
    <3> QED BY <2>2, <3>1, <3>3 DEF ServerTouches
  <2>5. sock'[Srv(conn)] = "open" \/ spc' = "done"
    <3>1. CASE CloseListen \/ DtorListen
      BY <1>1, <2>2, <2>3, <3>1 DEF CloseListen, DtorListen, CloseListenerCall
    <3>2. CASE DtorClient
      BY <3>2 DEF DtorClient, Goto
    <3>3. CASE ~(CloseListen \/ DtorListen \/ DtorClient)
      <4>1. sock' = sock
        BY <1>1, <1>5, <3>3
           DEF ServerStep, ServerApplication, Setup, SetupStep, ListenerBecomes, AcceptFails,
               Mode1Recv, Mode2Recv, Mode3Receive, Mode5Receive, RecvData, Mode1Eof,
               RecvError, Mode1Echo, Mode2Eof, Mode2Reply, ServerSigPipe, Mode3Ends,
               SelectReady, SelectTimeout, SelectFails, Mode5Eof, Mode5Error, ServerShutdown,
               kernelVars, CallFails, InvalidCall, SendOk, SendFails, SendKills, ReportReset,
               RecvEof, RecvFails, ShutdownOk, ShutdownFails
      <4> QED BY <2>2, <4>1
    <3> QED BY <3>1, <3>2, <3>3
\* Only the last three steps of the server end in a place of Ending.
  <2>6. CASE DtorListen \/ DtorClient
    <3>1. UNCHANGED <<sent, read>> /\ spc \in Ending
      BY <2>6 DEF DtorListen, DtorClient, CloseListenerCall, CloseCall, CloseOpen, InvalidCall,
                  kernelVars, At, Ending
    <3>2. verdict'[conn] = "eof" => Unread(Cli(conn))' = 0 /\ fin'[Srv(conn)]
      BY <1>1, <2>1, <2>2, <2>3, <3>1 DEF Unread, Lasting
    <3> QED BY <1>1, <2>1, <2>2, <2>4, <2>5, <3>1, <3>2 DEF Orderly
  <2>7. CASE ~(DtorListen \/ DtorClient)
    <3>1. spc \notin Ending
      BY <1>1, <2>7
         DEF ServerStep, ServerApplication, Setup, SetupStep, AcceptFails, CloseListen, Accept,
             Mode1Recv, Mode2Recv, Mode3Receive, Mode5Receive, Mode1Eof, RecvError, Mode1Echo,
             Mode2Eof, Mode2Reply, ServerSigPipe, Mode3Ends, SelectReady, SelectTimeout,
             SelectFails, Mode5Eof, Mode5Error, ServerShutdown, At, Ending
    <3>2. verdict'[conn] # "eof"
      BY <1>1, <1>3, <2>2, <3>1 DEF EndsInv, DrainInv, FinLast
    <3>3. spc' \in Ending => spc = "shutdown" /\ UNCHANGED <<sent, read>>
      BY <1>1, <1>2, <1>5, <2>2, <2>7, ServerAssumption
         DEF ServerStep, ServerApplication, Setup, SetupStep, AcceptFails, CloseListen,
             ModeOperation, Mode1Recv, Mode2Recv, Mode3Receive, Mode5Receive, Mode1Eof,
             RecvError, Mode1Echo, Mode2Eof, Mode2Reply, ServerSigPipe, Mode3Ends, SelectReady,
             SelectTimeout, SelectFails, Mode5Eof, Mode5Error, ServerShutdown, At, Goto,
             ReturnError, serverVars, Ending, ShutdownOk, ShutdownFails, CallFails, InvalidCall,
             kernelVars, EndsInv, TypeInv, ServerInv, Opening
    <3>4. spc = "shutdown" => /\ ServerMode = 1 => Len(sent[Srv(conn)]) = read[Srv(conn)]
                              /\ ServerMode = 2 => sent[Srv(conn)] = Unrequested
      BY <1>3, <2>2 DEF EndsInv, ReplyInv, Replying, DrainInv, Drain
    <3> QED BY <1>1, <2>1, <2>4, <2>5, <3>2, <3>3, <3>4 DEF Orderly
  <2> QED BY <2>6, <2>7
<1> QED BY <1>4, <1>5

LEMMA EnvKeepsOrderly ==
  ASSUME EndsInv, Orderly, EnvStep, Lasting
  PROVE  Orderly'
<1>1. /\ UNCHANGED <<cfg, conn, sret, sent, read, killed, verdict>>
      /\ spc' = spc \/ (spc = "idle" /\ spc' = "start")
      /\ ServerMode' = ServerMode
  BY EnvKeeps DEF EndsInv, ServerMode, Mode
<1>2. SUFFICES ASSUME conn \in Clients, LocalClient \notin killed, sret = 0,
                      ServerMode \in {1, 2, 5}
               PROVE  Orderly'
  BY <1>1 DEF Orderly
<1>3. EnvTouches(conn) /\ spc' = spc
  BY <1>1, <1>2, EnvTouchesAll, ServerAssumption
     DEF EndsInv, DrainInv, TypeInv, ServerInv, Opening
<1>4. rst'[Cli(conn)] = rst[Cli(conn)] \/ rst[Cli(conn)] = "flying"
  BY <1>2, <1>3 DEF EnvTouches
<1>5. sock'[Srv(conn)] = sock[Srv(conn)] /\ fin'[Srv(conn)] = fin[Srv(conn)]
  BY <1>2, <1>3 DEF EnvTouches
<1> QED BY <1>1, <1>2, <1>3, <1>4, <1>5 DEF Orderly, Unread

LEMMA OrderlyStep == EndsInv /\ Orderly /\ [Next]_vars => Orderly'
<1> SUFFICES ASSUME EndsInv, Orderly, [Next]_vars PROVE Orderly'
  OBVIOUS
<1>0. EndsInv'
  BY TypeInvStep, ReplyInvStep, DrainInvStep, SocketInvStep, QueueInvStep, TellInvStep
     DEF EndsInv, DrainInv
<1>1. CASE UNCHANGED vars
  BY <1>1 DEF vars, serverVars, clientVars, kernelVars, Orderly, Unread, ServerMode, Mode
<1>2. CASE Next
  <2>1. Lasting
    BY <1>2, NextCalls, CallsLast DEF EndsInv, TypeInv, DrainInv
  <2> QED
    BY <1>0, <1>2, <2>1, NextParts, ServerKeepsOrderly, ClientKeepsOrderly, EnvKeepsOrderly
<1> QED BY <1>1, <1>2

LEMMA SameSequence ==
  ASSUME NEW S, NEW s \in Seq(S), NEW t \in Seq(S), Len(s) = Len(t),
         \A i \in 1..Len(s) : s[i] = t[i]
  PROVE  s = t
OBVIOUS

LEMMA OrderlyImplies == EndsInv /\ Orderly /\ LogShowsReceived => EofMeansComplete
<1> SUFFICES ASSUME EndsInv, Orderly, LogShowsReceived,
                    conn # NoClient, verdict[conn] = "eof", sret = 0, LocalClient \notin killed
             PROVE  /\ ServerMode = 1 => shown[conn] = sent[Cli(conn)]
                    /\ ServerMode = 2 => shown[conn] = Unrequested
  BY DEF EofMeansComplete
<1>1. /\ conn \in Clients
      /\ Srv(conn) \in Endpoints /\ Cli(conn) \in Endpoints
      /\ Peer(Srv(conn)) = Cli(conn) /\ Peer(Cli(conn)) = Srv(conn)
  BY EndpointFacts DEF EndsInv, TypeInv, ServerInv, ServerTypeOK
<1>2. /\ shown[conn] \in Seq(Byte) /\ sent[Cli(conn)] \in Seq(Byte)
      /\ sent[Srv(conn)] \in Seq(Byte) /\ read[Cli(conn)] \in Nat /\ read[Srv(conn)] \in Nat
  BY <1>1 DEF EndsInv, TypeInv, KernelInv, KernelTypeOK, ClientInv, ClientTypeOK
<1>3. /\ Len(shown[conn]) = read[Cli(conn)]
      /\ \A i \in 1..Len(shown[conn]) : shown[conn][i] = sent[Srv(conn)][i]
  BY <1>1 DEF LogShowsReceived
<1>4. ASSUME ServerMode \in {1, 2}
      PROVE  /\ Unread(Cli(conn)) = 0 /\ spc \in Ending /\ Complete
             /\ ServerMode = 1 => Len(sent[Srv(conn)]) = read[Srv(conn)]
             /\ ServerMode = 2 => sent[Srv(conn)] = Unrequested
  <2>1. Unread(Cli(conn)) = 0 /\ fin[Srv(conn)]
    BY <1>1, <1>4 DEF Orderly
  <2>2. spc \in Ending
    BY <1>1, <2>1 DEF EndsInv, DrainInv, FinLast
  <2> QED BY <1>1, <1>4, <2>1, <2>2 DEF Orderly, EndsInv, DrainInv, Drain
<1>5. ServerMode \in {1, 2} => shown[conn] = sent[Srv(conn)]
  <2>1. ServerMode \in {1, 2} => Len(shown[conn]) = Len(sent[Srv(conn)])
    BY <1>1, <1>2, <1>3, <1>4 DEF Unread
  <2> QED BY <1>2, <1>3, <2>1, SameSequence
<1>6. ServerMode = 1 => sent[Srv(conn)] = sent[Cli(conn)]
  <2>1. SUFFICES ASSUME ServerMode = 1 PROVE sent[Srv(conn)] = sent[Cli(conn)]
    OBVIOUS
  <2>2. Len(sent[Srv(conn)]) = Len(sent[Cli(conn)])
    BY <1>1, <1>2, <1>4, <2>1 DEF Complete, Unread
  <2>3. \A i \in 1..Len(sent[Srv(conn)]) : sent[Srv(conn)][i] = sent[Cli(conn)][i]
    BY <1>1, <2>1 DEF EndsInv, ReplyInv, Replying
  <2> QED BY <1>2, <2>2, <2>3, SameSequence
<1> QED BY <1>4, <1>5, <1>6

\* A client that is served and says that the server closed the connection,
\* while the server reports no error, has printed the whole echo of what it
\* sent, or the whole canned reply, whatever the interleaving.
THEOREM EofMeansCompleteHolds == Spec => []EofMeansComplete
<1>1. Init => Orderly
  BY ServerAssumption DEF Init, ServerInit, Orderly
<1>2. EndsInv /\ Orderly /\ [Next]_vars => Orderly'
  BY OrderlyStep
<1> QED BY <1>1, <1>2, EndsCorrect, LogIsFaithful, OrderlyImplies, PTL DEF Spec

-------------------------------------------------------------------------------
(* Who may be killed by a broken pipe. *)

Parting == {"close", "dtor", "done"}

\* A server is reset only by a client that has closed its end, and that only
\* after the server has sent to it.
ServerReset(c) ==
  rst[Srv(c)] # "none" => /\ sock[Cli(c)] = "closed"
                          /\ sent[Srv(c)] # <<>> \/ (c = conn /\ spc \in Ending \cup {"shutdown"})

\* A client closes its end when it leaves, does not send again after an
\* error, and sends nothing at all in mode 4.
ClientPipe(c) ==
  /\ sock[Cli(c)] = "closed" => c \in killed \/ cpc[c] \in {"dtor", "done"}
  /\ sock[Srv(c)] # "none" => sock[Cli(c)] # "none"
  /\ rst[Cli(c)] = "reported" => cpc[c] # "send"
  /\ Mode(c) = 4 => cpc[c] \in Fresh \cup {"dtor", "done"} /\ sent[Cli(c)] = <<>>

ServerPipe ==
  /\ spc = "echo" => retval > 0
  /\ sret = 1 => spc \in Ending
  /\ conn \in Clients => sock[Srv(conn)] # "none"

\* Without failing calls the server gives up only on a client that is gone,
\* and until then the clients it has leave only after its FIN, or in mode 4.
Calm == faults = 0 /\ ServerMode \in {1, 2, 5}

CalmInv ==
  Calm => /\ killed = {}
          /\ sret = 1 /\ conn \in Clients => sock[Cli(conn)] = "closed"
          /\ sret = 0 => \A c \in Clients :
                (c = conn \/ sock[Srv(c)] = "queued") /\ cpc[c] \in Parting
                  => Mode(c) = 4 \/ fin[Srv(c)]

PipeInv == (\A c \in Clients : ServerReset(c) /\ ClientPipe(c)) /\ ServerPipe /\ CalmInv

LEMMA PipeInit == Init => PipeInv
<1> SUFFICES ASSUME Init PROVE PipeInv
  OBVIOUS
<1>1. \A c \in Clients : /\ sock[Srv(c)] = "none" /\ sock[Cli(c)] = "none"
                         /\ rst[Srv(c)] = "none" /\ rst[Cli(c)] = "none"
                         /\ sent[Cli(c)] = <<>> /\ cpc[c] = "idle"
  BY EndpointFacts DEF Init, KernelInit, ClientInit
<1>2. spc = "idle" /\ sret = 0 /\ conn = NoClient /\ killed = {}
  BY DEF Init, KernelInit, ServerInit
<1> QED
  BY <1>1, <1>2, ServerAssumption
     DEF PipeInv, ServerReset, ClientPipe, ServerPipe, CalmInv, Fresh, Parting

\* What a step of the server does to the connection of a client d.
ServerPipes(d) ==
  /\ sock'[Cli(d)] = sock[Cli(d)] /\ sent'[Cli(d)] = sent[Cli(d)]
  /\ sock'[Srv(d)] # "none" => sock[Srv(d)] # "none"
  /\ rst'[Cli(d)] = "reported" => rst[Cli(d)] = "reported"
  /\ sent[Srv(d)] # <<>> => sent'[Srv(d)] # <<>>
  /\ \/ rst'[Srv(d)] = rst[Srv(d)] \/ rst[Srv(d)] # "none"
     \/ /\ sock[Cli(d)] = "closed"
        /\ sent'[Srv(d)] # <<>> \/ (d = conn' /\ spc' = "shutdown")

\* Streams that only grow do not become empty.
LEMMA NotEmptied ==
  ASSUME KernelInv, KernelInv', StreamsGrow, NEW x \in Endpoints, sent[x] # <<>>
  PROVE  sent'[x] # <<>>
<1>1. sent[x] \in Seq(Byte) /\ sent'[x] \in Seq(Byte) /\ Len(sent[x]) <= Len(sent'[x])
  BY DEF KernelInv, KernelTypeOK, StreamsGrow, Extends
<1>2. Len(sent[x]) # 0
  BY <1>1
<1> QED BY <1>1, <1>2

LEMMA ServerPipesOwn ==
  ASSUME TypeInv, TypeInv', StreamsGrow, NoQueued, SocketInv, QueueInv, ServerPipe, ServerStep,
         NEW d \in Clients
  PROVE  ServerPipes(d)
<1> USE EndpointFacts
<1>0. /\ sock \in [Endpoints -> SockStates] /\ rst \in [Endpoints -> RstStates]
      /\ sent \in [Endpoints -> Seq(Byte)] /\ backlog \in Seq(Clients)
      /\ Srv(d) \in Endpoints /\ Cli(d) \in Endpoints
  BY DEF TypeInv, KernelInv, KernelTypeOK
<1>1. /\ sock'[Cli(d)] = sock[Cli(d)] /\ sent'[Cli(d)] = sent[Cli(d)]
      /\ sent[Srv(d)] # <<>> => sent'[Srv(d)] # <<>>
  BY <1>0, ServerKeepsSockets, ServerKeepsClientEnds, NotEmptied DEF ClientEndsKept, TypeInv
<1>2. CASE \E c \in Clients : Accept(c)
  <2>1. PICK c \in Clients : Accept(c)
    BY <1>2
  <2>2. /\ sock' = [sock EXCEPT ![Srv(c)] = "open"] /\ rst' = rst
        /\ backlog # <<>> /\ c = Head(backlog) /\ spc = "accept"
    BY <2>1 DEF Accept, AcceptCall, At
  <2>3. 1 \in 1..Len(backlog) /\ c = backlog[1]
    BY <1>0, <2>2
  <2>4. sock[Srv(c)] = "queued"
    BY <2>2, <2>3 DEF QueueInv, Opening
  <2> QED BY <1>0, <1>1, <2>2, <2>4 DEF ServerPipes
<1>3. CASE ~(\E c \in Clients : Accept(c))
  <2>1. ServerTouches(d)
    BY <1>3, ServerTouchesOwn
  <2>2. /\ sock'[Srv(d)] # "none" => sock[Srv(d)] # "none"
        /\ rst'[Cli(d)] = "reported" => rst[Cli(d)] = "reported"
    BY <2>1 DEF ServerTouches
  <2>3. \/ rst'[Srv(d)] = rst[Srv(d)] \/ rst[Srv(d)] # "none"
        \/ /\ sock[Cli(d)] = "closed"
           /\ sent'[Srv(d)] # <<>> \/ (d = conn' /\ spc' = "shutdown")
    <3>1. CASE CloseListen \/ DtorListen
      BY <1>0, <3>1 DEF CloseListen, DtorListen, CloseListenerCall, NoQueued
    <3>2. CASE DtorClient
      <4>1. CASE CloseOpen(Srv(conn))
        <5>1. conn \in Clients
          BY <4>1, ValidServer DEF CloseOpen, Valid
        <5>2. rst' = rst \/ \E r : rst' = [rst EXCEPT ![Cli(conn)] = r]
          BY <4>1, <5>1 DEF CloseOpen
        <5> QED BY <1>0, <5>1, <5>2
      <4> QED BY <3>2, <4>1 DEF DtorClient, CloseCall, InvalidCall, kernelVars
    <3>3. ASSUME NEW bytes \in Seq(Byte), SendOk(Srv(conn), bytes), conn' = conn,
                 bytes # <<>> \/ spc' = "shutdown"
          PROVE  \/ rst'[Srv(d)] = rst[Srv(d)]
                 \/ /\ sock[Cli(d)] = "closed"
                    /\ sent'[Srv(d)] # <<>> \/ (d = conn' /\ spc' = "shutdown")
      <4>1. conn \in Clients /\ Srv(conn) \in Endpoints
        BY <3>3, ValidServer DEF SendOk, Valid
      <4>2. CASE d = conn
        <5>1. sent'[Srv(d)] = sent[Srv(d)] \o bytes
          BY <1>0, <3>3, <4>2 DEF SendOk
        <5>2. sent[Srv(d)] \in Seq(Byte)
          BY <1>0
        <5>3. bytes # <<>> => sent'[Srv(d)] # <<>>
          <6>1. bytes # <<>> => Len(bytes) > 0
            BY <3>3
          <6>2. Len(sent[Srv(d)] \o bytes) = Len(sent[Srv(d)]) + Len(bytes)
            BY <3>3, <5>2
          <6>3. Len(sent[Srv(d)]) \in Nat /\ Len(bytes) \in Nat
            BY <3>3, <5>2
          <6>4. bytes # <<>> => Len(sent'[Srv(d)]) > 0
            BY <5>1, <6>1, <6>2, <6>3
          <6> QED BY <6>4
        <5>4. rst' = rst \/ sock[Cli(d)] = "closed"
          BY <1>0, <3>3, <4>2 DEF SendOk
        <5> QED BY <3>3, <4>2, <5>3, <5>4
      <4>3. CASE d # conn
        BY <1>0, <3>3, <4>1, <4>3 DEF SendOk
      <4> QED BY <4>2, <4>3
    <3>4. ASSUME NEW x, SendFails(x, SigPipe) \/ RecvFails(x)
          PROVE  rst'[Srv(d)] = rst[Srv(d)] \/ rst[Srv(d)] # "none"
      <4>1. \/ rst' = rst
            \/ x \in Endpoints /\ rst[x] # "none" /\ rst' = [rst EXCEPT ![x] = "reported"]
        BY <3>4 DEF SendFails, RecvFails, CallFails, InvalidCall, BrokenPipe, ReportReset, Valid,
                    kernelVars
      <4> QED BY <1>0, <4>1
    <3>5. CASE Mode1Echo
      <4>1. CASE SendOk(Srv(conn), EchoBytes) /\ Goto("recv")
        <5>1. spc = "echo" /\ retval > 0 /\ retval \in Nat /\ conn' = conn
          BY <3>5, <4>1, BufferAssumption
             DEF Mode1Echo, At, Goto, ServerPipe, TypeInv, ServerInv, ServerTypeOK
        <5>2. EchoBytes \in Seq(Byte) /\ EchoBytes # <<>>
          <6>1. \A i \in 1..retval : buffer[i] \in Byte
            BY <5>1 DEF TypeInv, ServerInv
          <6>2. EchoBytes \in [1..retval -> Byte]
            BY <6>1 DEF EchoBytes
          <6>3. EchoBytes \in Seq(Byte) /\ Len(EchoBytes) = retval
            BY <5>1, <6>2
          <6> QED BY <5>1, <6>3
        <5> QED BY <3>3, <4>1, <5>1, <5>2
      <4> QED BY <3>4, <3>5, <4>1 DEF Mode1Echo
    <3>6. CASE Mode2Reply
      <4>1. CASE SendOk(Srv(conn), Unrequested) /\ Goto("shutdown")
        BY <3>3, <4>1, ServerAssumption DEF Goto
      <4> QED BY <3>4, <3>6, <4>1 DEF Mode2Reply
    <3>7. CASE RecvError \/ Mode3Ends \/ Mode5Error
      <4>1. RecvFails(Srv(conn)) \/ RecvEof(Srv(conn))
        BY <3>7 DEF RecvError, Mode3Ends, Mode5Error
      <4> QED BY <3>4, <4>1 DEF RecvEof, kernelVars
    <3>8. CASE ~(CloseListen \/ DtorListen \/ DtorClient \/ Mode1Echo \/ Mode2Reply \/ RecvError
                   \/ Mode3Ends \/ Mode5Error)
      <4>1. rst' = rst
        BY <1>3, <3>8
           DEF ServerStep, ServerApplication, Setup, SetupStep, ListenerBecomes, AcceptFails,
               Mode1Recv, Mode2Recv, Mode3Receive, Mode5Receive, RecvData, Mode1Eof,
               Mode2Eof, ServerSigPipe, SelectReady, SelectTimeout, SelectFails, Mode5Eof,
               ServerShutdown, kernelVars, CallFails, InvalidCall, SendKills, RecvEof,
               ShutdownOk, ShutdownFails
      <4> QED BY <4>1
    <3> QED BY <3>1, <3>2, <3>5, <3>6, <3>7, <3>8
  <2> QED BY <1>1, <2>2, <2>3 DEF ServerPipes
<1> QED BY <1>2, <1>3

LEMMA ServerKeepsServerPipe ==
  ASSUME TypeInv, NoQueued, ServerPipe, ServerStep
  PROVE  ServerPipe'
<1>1. spc' = "echo" => retval' > 0
  <2>1. CASE \E n \in RecvSizes : Mode1Recv(n)
    BY <2>1, BufferAssumption DEF Mode1Recv, RecvSizes
  <2>2. CASE ~(\E n \in RecvSizes : Mode1Recv(n))
    <3>1. spc' = "echo" => spc = "echo" /\ retval' = retval
      BY <2>2
         DEF ServerStep, ServerApplication, Setup, SetupStep, AcceptFails, CloseListen, Accept,
             ModeOperation, Mode2Recv, Mode3Receive, Mode5Receive, Mode1Eof, RecvError,
             Mode1Echo, Mode2Eof, Mode2Reply, ServerSigPipe, Mode3Ends, SelectReady,
             SelectTimeout, SelectFails, Mode5Eof, Mode5Error, ServerShutdown, DtorListen,
             DtorClient, Goto, At, ReturnError, serverVars
    <3> QED BY <3>1 DEF ServerPipe
  <2> QED BY <2>1, <2>2
<1>2. sret' = 1 => spc' \in Ending
  BY DEF ServerStep, ServerApplication, Setup, SetupStep, AcceptFails, CloseListen, Accept,
         Mode1Recv, Mode2Recv, Mode3Receive, Mode5Receive, Mode1Eof, RecvError,
         Mode1Echo, Mode2Eof, Mode2Reply, ServerSigPipe, Mode3Ends, SelectReady,
         SelectTimeout, SelectFails, Mode5Eof, Mode5Error, ServerShutdown, DtorListen,
         DtorClient, Goto, At, ReturnError, serverVars, ServerPipe, Ending
<1>3. conn' \in Clients => sock'[Srv(conn')] # "none"
  <2>1. CASE \E c \in Clients : Accept(c)
    <3>1. PICK c \in Clients : Accept(c)
      BY <2>1
    <3>2. conn' = c /\ sock' = [sock EXCEPT ![Srv(c)] = "open"] /\ Srv(c) \in DOMAIN sock
      BY <3>1, EndpointFacts DEF Accept, AcceptCall, TypeInv, KernelInv, KernelTypeOK
    <3> QED BY <3>2
  <2>2. CASE ~(\E c \in Clients : Accept(c))
    <3>1. conn' = conn
      BY <2>2
         DEF ServerStep, ServerApplication, Setup, SetupStep, AcceptFails, CloseListen,
             Mode1Recv, Mode2Recv, Mode3Receive, Mode5Receive, Mode1Eof, RecvError, Mode1Echo,
             Mode2Eof, Mode2Reply, ServerSigPipe, Mode3Ends, SelectReady, SelectTimeout,
             SelectFails, Mode5Eof, Mode5Error, ServerShutdown, DtorListen, DtorClient, Goto,
             ReturnError, serverVars
    <3>2. conn \in Clients => sock[Srv(conn)] # "none" /\ sock[Srv(conn)] \in SockStates
      BY EndpointFacts DEF ServerPipe, TypeInv, KernelInv, KernelTypeOK
    <3>3. \/ sock' = sock
          \/ CloseListenerCall
          \/ CloseCall(Srv(conn))
      BY <2>2
         DEF ServerStep, ServerApplication, Setup, SetupStep, ListenerBecomes, AcceptFails,
             CloseListen, DtorListen, DtorClient,
             Mode1Recv, Mode2Recv, Mode3Receive, Mode5Receive, RecvData, Mode1Eof,
             RecvError, Mode1Echo, Mode2Eof, Mode2Reply, ServerSigPipe, Mode3Ends, SelectReady,
             SelectTimeout, SelectFails, Mode5Eof, Mode5Error, ServerShutdown, kernelVars,
             CallFails, InvalidCall, SendOk, SendFails, SendKills, ReportReset, RecvEof,
             RecvFails, ShutdownOk, ShutdownFails
    <3>4. conn \in Clients => sock'[Srv(conn)] # "none"
      <4>1. sock \in [Endpoints -> SockStates] /\ (conn \in Clients => Srv(conn) \in Endpoints)
        BY EndpointFacts DEF TypeInv, KernelInv, KernelTypeOK
      <4> QED
        BY <3>2, <3>3, <4>1 DEF CloseListenerCall, CloseCall, CloseOpen, InvalidCall, kernelVars
    <3> QED BY <3>1, <3>4
  <2> QED BY <2>1, <2>2
<1> QED BY <1>1, <1>2, <1>3 DEF ServerPipe

\* As long as no call fails by itself the server gives up only after a reset,
\* and does not send after it was told of one.
LEMMA ServerGivesUp ==
  ASSUME EndsInv, Orderly, PipeInv, ServerStep, Calm, faults' = 0
  PROVE  /\ killed' = {}
         /\ sret' = sret \/ (conn \in Clients => sock[Cli(conn)] = "closed")
<1> USE EndpointFacts
<1>0. /\ killed = {} /\ LocalClient \notin killed /\ ServerMode \in {1, 2, 5} /\ faults = 0
      /\ ~CallFails
  BY DEF PipeInv, CalmInv, Calm, CallFails
<1>1. ASSUME conn \in Clients, spc \notin Ending
      PROVE  /\ sret = 0 /\ Valid(Srv(conn))
             /\ rst[Srv(conn)] # "none" => sock[Cli(conn)] = "closed"
  <2>1. sret = 0
    BY <1>1 DEF PipeInv, ServerPipe, EndsInv, TypeInv, ServerInv, ServerTypeOK
  <2>2. sock[Srv(conn)] = "open"
    BY <1>0, <1>1, <2>1 DEF Orderly, Ending
  <2> QED BY <1>1, <2>1, <2>2 DEF Valid, PipeInv, ServerReset
<1>2. ~ServerSigPipe
  <2>1. SUFFICES ASSUME ServerSigPipe PROVE FALSE
    OBVIOUS
  <2>2. /\ spc \in {"echo", "reply"} /\ conn \in Clients /\ rst[Srv(conn)] # "none"
    BY <2>1, ValidServer DEF ServerSigPipe, SendKills, BrokenPipe, Valid, At
  <2>3. spc \notin Ending /\ Replying
    BY <2>2 DEF Ending, EndsInv, ReplyInv
  <2>4. sock[Cli(conn)] = "closed" /\ sret = 0
    BY <1>1, <2>2, <2>3
  <2>5. cpc[conn] \in {"dtor", "done"}
    BY <1>0, <2>2, <2>4 DEF PipeInv, ClientPipe
  <2>6. ~fin[Srv(conn)]
    BY <1>0, <2>2, <2>3 DEF EndsInv, DrainInv, FinLast
  <2>7. Mode(conn) = 4
    BY <2>2, <2>4, <2>5, <2>6 DEF PipeInv, CalmInv, Parting
  <2>8. sent[Cli(conn)] = <<>>
    BY <2>2, <2>7 DEF PipeInv, ClientPipe
  <2>9. CASE spc = "echo"
    <3>1. /\ retval > 0 /\ retval \in Nat /\ Len(sent[Srv(conn)]) + retval = read[Srv(conn)]
      BY <2>3, <2>9, BufferAssumption
         DEF Replying, PipeInv, ServerPipe, EndsInv, TypeInv, ServerInv, ServerTypeOK
    <3>2. sent[Srv(conn)] \in Seq(Byte) /\ read[Srv(conn)] <= Len(sent[Cli(conn)])
      BY <2>2 DEF EndsInv, TypeInv, KernelInv, KernelTypeOK, ReadBound
    <3>3. Len(sent[Srv(conn)]) \in Nat /\ Len(sent[Cli(conn)]) = 0
      BY <2>8, <3>2
    <3> QED BY <3>1, <3>2, <3>3
  <2>10. CASE spc = "reply"
    <3>1. sent[Srv(conn)] = <<>>
      BY <2>3, <2>10 DEF Replying
    <3>2. rst[Srv(conn)] = "none"
      BY <2>2, <2>3, <2>10, <3>1 DEF PipeInv, ServerReset
    <3> QED BY <2>2, <3>2
  <2> QED BY <2>2, <2>9, <2>10
<1>3. killed' = killed
  BY <1>2
     DEF ServerStep, ServerApplication, Setup, SetupStep, ListenerBecomes, AcceptFails,
         CloseListen, CloseListenerCall, Accept, AcceptCall,
         Mode1Recv, Mode2Recv, Mode3Receive, Mode5Receive, RecvData, Mode1Eof,
         RecvError, Mode1Echo, Mode2Eof, Mode2Reply, Mode3Ends, SelectReady,
         SelectTimeout, SelectFails, Mode5Eof, Mode5Error, ServerShutdown, DtorListen,
         DtorClient, CloseCall, CloseOpen, kernelVars, CallFails, InvalidCall, SendOk,
         SendFails, ReportReset, RecvEof, RecvFails, ShutdownOk, ShutdownFails
<1>4. sret' # sret => /\ spc \notin Ending
                      /\ \/ CallFails
                         \/ RecvFails(Srv(conn)) \/ SendFails(Srv(conn), SigPipe)
                         \/ ShutdownFails(Srv(conn))
  BY DEF ServerStep, ServerApplication, Setup, SetupStep, AcceptFails, CloseListen, Accept,
         Mode1Recv, Mode2Recv, Mode3Receive, Mode5Receive, Mode1Eof, RecvError,
         Mode1Echo, Mode2Eof, Mode2Reply, ServerSigPipe, Mode3Ends, SelectReady,
         SelectTimeout, SelectFails, Mode5Eof, Mode5Error, ServerShutdown, DtorListen,
         DtorClient, Goto, At, ReturnError, serverVars, Ending
<1>5. ASSUME RecvFails(Srv(conn)) \/ SendFails(Srv(conn), SigPipe) \/ ShutdownFails(Srv(conn)),
             Valid(Srv(conn))
      PROVE  rst[Srv(conn)] # "none"
  BY <1>0, <1>5 DEF RecvFails, SendFails, ShutdownFails, InvalidCall, BrokenPipe
<1> QED BY <1>0, <1>1, <1>3, <1>4, <1>5

LEMMA ServerKeepsPipe ==
  ASSUME EndsInv, TypeInv', StreamsGrow, Orderly, PipeInv, Lasting, ServerThread
  PROVE  PipeInv'
<1>1. /\ ServerStep /\ UNCHANGED <<cfg, cpc>> /\ ServerMode' = ServerMode
      /\ \A d \in Clients : Mode(d)' = Mode(d)
      /\ \A d \in Clients : ServerPipes(d)
      /\ ServerPipe'
  BY ServerPipesOwn, ServerKeepsServerPipe
     DEF ServerThread, clientVars, ServerMode, Mode, EndsInv, DrainInv, PipeInv
<1>2. /\ conn' = conn \/ (conn = NoClient /\ \E c \in Clients : Accept(c))
      /\ spc \in Ending => spc' \in Ending
      /\ spc = "shutdown" => spc' \in Ending
      /\ sret' = 0 => sret = 0
  BY <1>1
     DEF ServerStep, ServerApplication, Setup, SetupStep, AcceptFails, CloseListen, Accept,
         Mode1Recv, Mode2Recv, Mode3Receive, Mode5Receive, Mode1Eof, RecvError, Mode1Echo,
         Mode2Eof, Mode2Reply, ServerSigPipe, Mode3Ends, SelectReady, SelectTimeout,
         SelectFails, Mode5Eof, Mode5Error, ServerShutdown, DtorListen, DtorClient, Goto, At,
         ReturnError, serverVars, Ending, EndsInv, TypeInv, ServerInv, ServerTypeOK, Opening
<1>3. \A d \in Clients : ServerReset(d)'
  <2>1. TAKE d \in Clients
  <2>2. CASE rst[Srv(d)] # "none"
    <3>1. /\ sock[Cli(d)] = "closed"
          /\ sent[Srv(d)] # <<>> \/ (d = conn /\ spc \in Ending \cup {"shutdown"})
      BY <2>2 DEF PipeInv, ServerReset
    <3>2. d = conn => conn' = conn
      BY <1>2, ServerAssumption
    <3> QED BY <1>1, <1>2, <3>1, <3>2 DEF ServerPipes, ServerReset
  <2>3. CASE rst[Srv(d)] = "none"
    BY <1>1, <2>3 DEF ServerPipes, ServerReset
  <2> QED BY <2>2, <2>3
<1>4. \A d \in Clients : ClientPipe(d)'
  BY <1>1 DEF ServerPipes, ClientPipe, PipeInv, Lasting
<1>5. CalmInv'
  <2>1. SUFFICES ASSUME Calm'
                 PROVE  /\ killed' = {}
                        /\ sret' = 1 /\ conn' \in Clients => sock'[Cli(conn')] = "closed"
                        /\ sret' = 0 => \A c \in Clients :
                              (c = conn' \/ sock'[Srv(c)] = "queued") /\ cpc'[c] \in Parting
                                => Mode(c)' = 4 \/ fin'[Srv(c)]
    BY DEF CalmInv
  <2>2. faults' = faults \/ faults' = faults + 1
    BY <1>1
       DEF ServerStep, ServerApplication, Setup, SetupStep, ListenerBecomes, AcceptFails,
           CloseListen, CloseListenerCall, Accept, AcceptCall,
           Mode1Recv, Mode2Recv, Mode3Receive, Mode5Receive, RecvData, Mode1Eof,
           RecvError, Mode1Echo, Mode2Eof, Mode2Reply, ServerSigPipe, Mode3Ends, SelectReady,
           SelectTimeout, SelectFails, Mode5Eof, Mode5Error, ServerShutdown, DtorListen,
           DtorClient, CloseCall, CloseOpen, kernelVars, CallFails, InvalidCall, SendOk,
           SendFails, SendKills, ReportReset, RecvEof, RecvFails, ShutdownOk, ShutdownFails
  <2>3. Calm /\ faults' = 0
    BY <1>1, <2>1, <2>2 DEF Calm, EndsInv, TypeInv, KernelInv, KernelTypeOK
  <2>4. killed' = {} /\ (sret' = sret \/ (conn \in Clients => sock[Cli(conn)] = "closed"))
    BY <1>1, <2>3, ServerGivesUp
  <2>5. sret' = 1 /\ conn' \in Clients => sock'[Cli(conn')] = "closed"
    <3>1. CASE \E c \in Clients : Accept(c)
      <4>1. spc' = "closeListen"
        BY <3>1 DEF Accept
      <4> QED BY <1>1, <4>1 DEF ServerPipe, Ending
    <3>2. CASE conn' = conn
      BY <1>1, <2>3, <2>4, <3>2 DEF PipeInv, CalmInv, ServerPipes
    <3> QED BY <1>2, <3>1, <3>2
  <2>6. ASSUME sret' = 0, NEW c \in Clients, c = conn' \/ sock'[Srv(c)] = "queued",
               cpc'[c] \in Parting
        PROVE  Mode(c)' = 4 \/ fin'[Srv(c)]
    <3>1. c = conn \/ sock[Srv(c)] = "queued"
      <4>1. CASE \E d \in Clients : Accept(d)
        <5>1. PICK d \in Clients : Accept(d)
          BY <4>1
        <5>2. /\ conn' = d /\ sock' = [sock EXCEPT ![Srv(d)] = "open"]
              /\ backlog # <<>> /\ d = Head(backlog) /\ spc = "accept"
          BY <5>1 DEF Accept, AcceptCall, At
        <5>3. backlog \in Seq(Clients) /\ sock \in [Endpoints -> SockStates]
          BY DEF EndsInv, TypeInv, KernelInv, KernelTypeOK
        <5>4. 1 \in 1..Len(backlog) /\ d = backlog[1]
          BY <5>2, <5>3
        <5>5. sock[Srv(d)] = "queued"
          BY <5>2, <5>4 DEF EndsInv, QueueInv, Opening
        <5> QED BY <2>6, <5>2, <5>3, <5>5, EndpointFacts
      <4>2. CASE ~(\E d \in Clients : Accept(d))
        BY <1>1, <1>2, <2>6, <4>2, ServerTouchesOwn DEF ServerTouches, EndsInv, DrainInv
      <4> QED BY <4>1, <4>2
    <3>2. Mode(c) = 4 \/ fin[Srv(c)]
      BY <1>1, <1>2, <2>3, <2>6, <3>1 DEF PipeInv, CalmInv
    <3> QED BY <1>1, <3>2, EndpointFacts DEF Lasting
  <2> QED BY <2>1, <2>4, <2>5, <2>6
<1> QED BY <1>1, <1>3, <1>4, <1>5 DEF PipeInv

-------------------------------------------------------------------------------
\* What a step of a client c does, beyond ClientTouches, to its connection.
ClientPipes(c) ==
  /\ \/ sock'[Cli(c)] = sock[Cli(c)]
     \/ cpc[c] \in Fresh /\ sock'[Cli(c)] = "open"
     \/ sock[Cli(c)] = "open" /\ sock'[Cli(c)] = "closed" /\ cpc'[c] \in {"dtor", "done"}
  /\ sock'[Srv(c)] = sock[Srv(c)] \/ sock'[Cli(c)] = "open"
  /\ \/ rst'[Srv(c)] = rst[Srv(c)]
     \/ sock'[Cli(c)] = "closed" /\ (rst[Srv(c)] # "none" \/ sent'[Srv(c)] # <<>>)
  /\ rst'[Cli(c)] = "reported" => rst[Cli(c)] = "reported" \/ cpc'[c] # "send"
  /\ cpc'[c] = "send" => cpc[c] \in Fresh \cup {"send"}
  /\ cpc[c] \in {"dtor", "done"} => cpc'[c] \in {"dtor", "done"}
  /\ Mode(c) = 4 /\ cpc[c] \in Fresh => cpc'[c] \in Fresh \cup {"dtor", "done"}
  /\ sent'[Cli(c)] = sent[Cli(c)] \/ cpc[c] = "send"

PipesFrame(c) ==
  \A d \in Clients \ {c} :
     /\ sock'[Cli(d)] = sock[Cli(d)] /\ rst'[Srv(d)] = rst[Srv(d)]
     /\ sent'[Cli(d)] = sent[Cli(d)]

LEMMA ClientPipesOwn ==
  ASSUME TypeInv, NEW c \in Clients, ClientStep(c)
  PROVE  ClientPipes(c) /\ PipesFrame(c)
<1> USE EndpointFacts
<1>0. /\ sock \in [Endpoints -> SockStates] /\ rst \in [Endpoints -> RstStates]
      /\ sent \in [Endpoints -> Seq(Byte)] /\ cpc \in [Clients -> ClientPcs]
      /\ \A d \in Clients : Srv(d) \in Endpoints /\ Cli(d) \in Endpoints
  BY DEF TypeInv, KernelInv, KernelTypeOK, ClientInv, ClientTypeOK
\* Where it goes.
<1>1. /\ cpc'[c] = "send" => cpc[c] \in Fresh \cup {"send"}
      /\ cpc[c] \in {"dtor", "done"} => cpc'[c] \in {"dtor", "done"}
      /\ Mode(c) = 4 /\ cpc[c] \in Fresh => cpc'[c] \in Fresh \cup {"dtor", "done"}
  <2>1. CASE \/ ClientApplication(c) \/ SetupResolve(c) \/ SetupSocketFails(c) \/ SetupConnect(c)
             \/ SetupRefused(c)
    <3>1. cpc[c] \in Fresh
      BY <2>1 DEF ClientApplication, SetupResolve, SetupSocketFails, SetupConnect, SetupRefused,
                  ClientAt, Fresh
    <3>2. \/ cpc' = cpc
          \/ \E pc \in Fresh \cup {"dtor", "done"} : cpc' = [cpc EXCEPT ![c] = pc]
          \/ cpc' = [cpc EXCEPT ![c] = FirstStep(c)]
      BY <2>1 DEF ClientApplication, SetupResolve, SetupSocketFails, SetupConnect, SetupRefused,
                  NotConnected, ClientGoto, ClientReturn, Fresh
    <3>3. Mode(c) = 4 => FirstStep(c) = "dtor"
      BY DEF FirstStep
    <3> QED BY <1>0, <3>1, <3>2, <3>3 DEF Fresh
  <2>2. CASE \/ ClientSend(c) \/ ClientSendFails(c) \/ ClientSigPipe(c) \/ ClientShutdown(c)
             \/ \E n \in RecvSizes : ClientRecv(c, n)
             \/ ClientRecvEnds(c) \/ ClientClose(c) \/ ClientDtor(c)
    <3>1. /\ cpc[c] \in {"send", "shutdown", "recv", "close", "dtor"}
          /\ \/ cpc' = cpc
             \/ \E pc \in {"shutdown", "recv", "close", "dtor", "done"} : cpc' = [cpc EXCEPT ![c] = pc]
             \/ cpc[c] = "send" /\ cpc' = [cpc EXCEPT ![c] = "send"]
          /\ cpc[c] = "dtor" => cpc' = [cpc EXCEPT ![c] = "done"]
      BY <2>2
         DEF ClientSend, ClientSendFails, ClientSigPipe, ClientShutdown, ClientRecv,
             ClientRecvEnds, ClientClose, ClientDtor, ClientAt, ClientGoto, ClientReturn,
             clientVars
    <3> QED BY <1>0, <3>1 DEF Fresh
  <2> QED BY <2>1, <2>2 DEF ClientStep
<1>2. CASE SetupConnect(c)
  <2>1. /\ sock' = [sock EXCEPT ![Cli(c)] = "open", ![Srv(c)] = "queued"]
        /\ UNCHANGED <<rst, sent>> /\ cpc[c] \in Fresh
    BY <1>2 DEF SetupConnect, ConnectCall, ClientAt, Fresh
  <2> QED BY <1>0, <1>1, <2>1 DEF ClientPipes, PipesFrame
<1>3. CASE ClientSend(c)
  <2>1. /\ UNCHANGED sock /\ cpc[c] = "send" /\ rst[Cli(c)] \in {"none", "flying"}
        /\ rst' = rst \/ rst' = [rst EXCEPT ![Cli(c)] = "flying"]
        /\ \E s : sent' = [sent EXCEPT ![Cli(c)] = s]
    BY <1>3 DEF ClientSend, SendOk, ClientAt
  <2>2. /\ rst'[Cli(c)] # "reported"
        /\ \A d \in Clients : rst'[Srv(d)] = rst[Srv(d)]
        /\ \A d \in Clients \ {c} : sent'[Cli(d)] = sent[Cli(d)]
    BY <1>0, <2>1
  <2> QED BY <1>1, <2>1, <2>2 DEF ClientPipes, PipesFrame
<1>4. CASE ClientSendFails(c) \/ ClientRecvEnds(c)
  <2>1. /\ UNCHANGED <<sock, sent>>
        /\ rst' = rst \/ rst' = [rst EXCEPT ![Cli(c)] = "reported"]
    BY <1>4 DEF ClientSendFails, ClientRecvEnds, SendFails, RecvEof, RecvFails, CallFails,
                InvalidCall, ReportReset, kernelVars
  <2>2. cpc'[c] # "send"
    BY <1>0, <1>4 DEF ClientSendFails, ClientRecvEnds, ClientGoto, ClientReturn
  <2>3. \A d \in Clients : rst'[Srv(d)] = rst[Srv(d)]
    BY <1>0, <2>1
  <2> QED BY <1>1, <2>1, <2>2, <2>3 DEF ClientPipes, PipesFrame
<1>5. CASE ClientClose(c) \/ ClientDtor(c)
  <2>1. CloseCall(Cli(c)) /\ cpc'[c] \in {"dtor", "done"} /\ UNCHANGED sent
    BY <1>0, <1>5 DEF ClientClose, ClientDtor, ClientGoto, CloseCall, CloseOpen, InvalidCall,
                      kernelVars
  <2>2. CASE CloseOpen(Cli(c))
    <3>1. /\ sock[Cli(c)] = "open" /\ sock' = [sock EXCEPT ![Cli(c)] = "closed"]
          /\ \/ rst' = rst
             \/ /\ Unread(Cli(c)) > 0
                /\ \E r : rst' = [rst EXCEPT ![Srv(c)] = r]
      BY <2>2 DEF CloseOpen, Valid
    <3>2. Unread(Cli(c)) > 0 => sent[Srv(c)] # <<>>
      <4>1. read[Cli(c)] \in Nat /\ sent[Srv(c)] \in Seq(Byte)
        BY DEF TypeInv, KernelInv, KernelTypeOK
      <4>2. sent[Srv(c)] = <<>> => Len(sent[Srv(c)]) = 0
        OBVIOUS
      <4> QED BY <4>1, <4>2 DEF Unread
    <3>3. \A d \in Clients \ {c} : sock'[Cli(d)] = sock[Cli(d)] /\ rst'[Srv(d)] = rst[Srv(d)]
      BY <1>0, <3>1
    <3>4. rst'[Cli(c)] = rst[Cli(c)] /\ sock'[Cli(c)] = "closed" /\ sock'[Srv(c)] = sock[Srv(c)]
      BY <1>0, <3>1
    <3> QED BY <1>1, <2>1, <3>1, <3>2, <3>3, <3>4 DEF ClientPipes, PipesFrame
  <2>3. CASE InvalidCall(Cli(c))
    BY <1>1, <2>1, <2>3 DEF InvalidCall, kernelVars, ClientPipes, PipesFrame
  <2> QED BY <2>1, <2>2, <2>3 DEF CloseCall
<1>6. CASE ~(SetupConnect(c) \/ ClientSend(c) \/ ClientSendFails(c) \/ ClientRecvEnds(c)
               \/ ClientClose(c) \/ ClientDtor(c))
  <2>1. UNCHANGED <<sock, rst, sent>>
    BY <1>6
       DEF ClientStep, ClientApplication, SetupResolve, SetupSocketFails,
           SetupRefused, ClientSigPipe, ClientShutdown, ClientRecv,
           kernelVars, CallFails, InvalidCall,
           SendKills, RecvData, ShutdownOk, ShutdownFails
  <2> QED BY <1>1, <2>1 DEF ClientPipes, PipesFrame
<1> QED BY <1>2, <1>3, <1>4, <1>5, <1>6

\* Without failing calls a client leaves a working connection after the
\* server's FIN only, unless it is in mode 4 or was reset.
LEMMA ClientLeaves ==
  ASSUME TypeInv, NEW c \in Clients, ClientStep(c), faults = 0, faults' = 0,
         cpc[c] \notin Parting, cpc'[c] \in Parting
  PROVE  \/ cpc[c] \in Fresh /\ sock' = sock
         \/ Mode(c) = 4
         \/ cpc[c] \in {"send", "shutdown", "recv"} /\ sock' = sock
              /\ (~Valid(Cli(c)) \/ rst[Cli(c)] # "none" \/ fin[Srv(c)])
<1>0. ~CallFails /\ cpc \in [Clients -> ClientPcs]
  BY DEF CallFails, TypeInv, ClientInv, ClientTypeOK
<1>1. CASE ClientApplication(c) \/ SetupResolve(c) \/ SetupSocketFails(c) \/ SetupRefused(c)
  BY <1>1 DEF ClientApplication, SetupResolve, SetupSocketFails, SetupRefused, ClientAt, CallFails,
              kernelVars, Fresh
<1>2. CASE SetupConnect(c)
  BY <1>0, <1>2 DEF SetupConnect, ClientGoto, FirstStep, Parting
<1>3. CASE ClientSend(c) \/ ClientSigPipe(c) \/ (\E n \in RecvSizes : ClientRecv(c, n))
  <2>1. cpc'[c] \in {cpc[c], "send", "shutdown"}
    BY <1>0, <1>3 DEF ClientSend, ClientSigPipe, ClientRecv, clientVars
  <2> QED BY <2>1 DEF Parting
<1>4. CASE ClientSendFails(c)
  BY <1>0, <1>4 DEF ClientSendFails, ClientAt, SendFails, InvalidCall, BrokenPipe, ReportReset,
                    kernelVars
<1>5. CASE ClientShutdown(c)
  <2>1. CASE ShutdownFails(Cli(c))
    BY <1>0, <1>5, <2>1 DEF ClientShutdown, ClientAt, ShutdownFails, InvalidCall, kernelVars
  <2>2. CASE ~ShutdownFails(Cli(c))
    BY <1>0, <1>5, <2>2 DEF ClientShutdown, ClientGoto, Parting
  <2> QED BY <2>1, <2>2
<1>6. CASE ClientRecvEnds(c)
  <2>1. cpc[c] = "recv" /\ (RecvEof(Cli(c)) \/ RecvFails(Cli(c)))
    BY <1>6 DEF ClientRecvEnds, ClientAt
  <2>2. CASE RecvEof(Cli(c))
    BY <2>1, <2>2, EndpointFacts DEF RecvEof, AtEnd, kernelVars
  <2>3. CASE RecvFails(Cli(c))
    BY <1>0, <2>1, <2>3 DEF RecvFails, InvalidCall, ReportReset, kernelVars
  <2> QED BY <2>1, <2>2, <2>3
<1>7. CASE ClientClose(c) \/ ClientDtor(c)
  BY <1>7 DEF ClientClose, ClientDtor, ClientAt, Parting
<1> QED BY <1>1, <1>2, <1>3, <1>4, <1>5, <1>6, <1>7 DEF ClientStep

\* ... and is not killed by a broken pipe.
LEMMA ClientSurvives ==
  ASSUME EndsInv, Orderly, PipeInv, NEW c \in Clients, Calm
  PROVE  ~ClientSigPipe(c)
<1>1. SUFFICES ASSUME ClientSigPipe(c) PROVE FALSE
  OBVIOUS
<1>2. /\ cpc[c] = "send" /\ sock[Cli(c)] = "open"
      /\ rst[Cli(c)] = "reported" \/ (rst[Cli(c)] = "arrived" /\ fin[Srv(c)])
  BY <1>1, EndpointFacts DEF ClientSigPipe, SendKills, BrokenPipe, Valid, ClientAt
<1>3. rst[Cli(c)] = "arrived" /\ fin[Srv(c)]
  BY <1>2 DEF PipeInv, ClientPipe
<1>4. conn = c /\ LocalClient \notin killed
  BY <1>3 DEF EndsInv, TellInv, FinServed, PipeInv, CalmInv
<1>5. sret = 1
  BY <1>3, <1>4 DEF Orderly, Calm, EndsInv, TypeInv, ServerInv, ServerTypeOK
<1> QED BY <1>2, <1>4, <1>5 DEF PipeInv, CalmInv

LEMMA ClientKeepsPipe ==
  ASSUME EndsInv, EndsInv', StreamsGrow, Orderly, PipeInv, Lasting,
         NEW c \in Clients, ClientThread(c)
  PROVE  PipeInv'
<1> USE EndpointFacts
<1>1. /\ ClientStep(c) /\ UNCHANGED <<cfg, conn, spc, sret, retval>> /\ ServerMode' = ServerMode
      /\ \A d \in Clients : Mode(d)' = Mode(d)
      /\ ClientTouches(c) /\ ClientFrame(c) /\ ClientPipes(c) /\ PipesFrame(c)
      /\ \A d \in Clients : sent'[Srv(d)] = sent[Srv(d)]
  BY ClientTouchesOwn, ClientPipesOwn, ClientKeepsServerEnds
     DEF ClientThread, serverVars, ServerMode, Mode, EndsInv, ServerEndsKept
<1>2. \A d \in Clients : ServerReset(d)'
  <2>1. ASSUME NEW d \in Clients, d # c PROVE ServerReset(d)'
    BY <1>1, <2>1 DEF PipeInv, ServerReset, PipesFrame
  <2>2. ServerReset(c)'
    <3>1. ServerReset(c) /\ ClientSocket(c)
      BY DEF PipeInv, EndsInv, SocketInv
    <3>2. CASE rst'[Srv(c)] = rst[Srv(c)]
      <4>1. rst[Srv(c)] # "none" => sock'[Cli(c)] = "closed"
        BY <1>1, <3>1 DEF ServerReset, ClientSocket, ClientPipes
      <4> QED BY <1>1, <3>1, <3>2, <4>1 DEF ServerReset
    <3>3. CASE sock'[Cli(c)] = "closed" /\ (rst[Srv(c)] # "none" \/ sent'[Srv(c)] # <<>>)
      BY <1>1, <3>1, <3>3 DEF ServerReset
    <3> QED BY <1>1, <3>2, <3>3 DEF ClientPipes
  <2> QED BY <2>1, <2>2
<1>3. \A d \in Clients : ClientPipe(d)'
  <2>1. ASSUME NEW d \in Clients, d # c PROVE ClientPipe(d)'
    BY <1>1, <2>1 DEF PipeInv, ClientPipe, PipesFrame, ClientFrame, Lasting
  <2>2. /\ ClientPipe(c) /\ ClientSocket(c)
        /\ cpc[c] \in Fresh => rst[Cli(c)] = "none"
    BY DEF PipeInv, EndsInv, SocketInv, QueueInv, Clean
  <2>3. sock'[Cli(c)] = "closed" => c \in killed' \/ cpc'[c] \in {"dtor", "done"}
    BY <1>1, <2>2 DEF ClientPipe, ClientPipes, Lasting
  <2>4. sock'[Srv(c)] # "none" => sock'[Cli(c)] # "none"
    BY <1>1, <2>2 DEF ClientPipe, ClientPipes
  <2>5. rst'[Cli(c)] = "reported" => cpc'[c] # "send"
    BY <1>1, <2>2 DEF ClientPipe, ClientPipes
  <2>6. Mode(c)' = 4 => cpc'[c] \in Fresh \cup {"dtor", "done"} /\ sent'[Cli(c)] = <<>>
    BY <1>1, <2>2 DEF ClientPipe, ClientPipes, Fresh
  <2>7. ClientPipe(c)'
    BY <2>3, <2>4, <2>5, <2>6 DEF ClientPipe
  <2> QED BY <2>1, <2>7
<1>4. ServerPipe'
  <2>1. conn \in Clients => sock'[Srv(conn)] # "none"
    BY <1>1 DEF PipeInv, ServerPipe, ClientFrame, ClientTouches
  <2> QED BY <1>1, <2>1 DEF PipeInv, ServerPipe
<1>5. CalmInv'
  <2>1. SUFFICES ASSUME Calm'
                 PROVE  /\ killed' = {}
                        /\ sret = 1 /\ conn \in Clients => sock'[Cli(conn)] = "closed"
                        /\ sret = 0 => \A d \in Clients :
                              (d = conn \/ sock'[Srv(d)] = "queued") /\ cpc'[d] \in Parting
                                => Mode(d) = 4 \/ fin'[Srv(d)]
    BY <1>1 DEF CalmInv
  <2>2. faults' = faults \/ faults' = faults + 1
    BY <1>1
       DEF ClientStep, ClientApplication, SetupResolve, SetupSocketFails, SetupConnect,
           SetupRefused, ClientSend, ClientSendFails, ClientSigPipe, ClientShutdown,
           ClientRecv, ClientRecvEnds, ClientClose, ClientDtor,
           kernelVars, CallFails, InvalidCall, ConnectCall, SendOk, SendFails,
           SendKills, ReportReset, RecvData, ShutdownOk, ShutdownFails, RecvEof, RecvFails,
           CloseCall, CloseOpen
  <2>3. Calm /\ faults = 0 /\ faults' = 0 /\ killed = {}
    BY <1>1, <2>1, <2>2 DEF Calm, EndsInv, TypeInv, KernelInv, KernelTypeOK, PipeInv, CalmInv
  <2>4. killed' = {}
    <3>1. ~ClientSigPipe(c)
      BY <2>3, ClientSurvives
    <3>2. killed' = killed
      BY <1>1, <3>1
         DEF ClientStep, ClientApplication, SetupResolve, SetupSocketFails, SetupConnect,
             SetupRefused, ClientSend, ClientSendFails, ClientShutdown,
             ClientRecv, ClientRecvEnds, ClientClose, ClientDtor,
             kernelVars, CallFails, InvalidCall, ConnectCall, SendOk, SendFails,
             ReportReset, RecvData, ShutdownOk, ShutdownFails, RecvEof, RecvFails,
             CloseCall, CloseOpen
    <3> QED BY <2>3, <3>2
  <2>5. sret = 1 /\ conn \in Clients => sock'[Cli(conn)] = "closed"
    <3>1. sret = 1 /\ conn \in Clients => sock[Cli(conn)] = "closed"
      BY <2>3 DEF PipeInv, CalmInv
    <3>2. ClientSocket(c)
      BY DEF EndsInv, SocketInv
    <3> QED BY <1>1, <3>1, <3>2 DEF ClientPipes, PipesFrame, ClientSocket
  <2>6. ASSUME sret = 0, NEW d \in Clients, d = conn \/ sock'[Srv(d)] = "queued",
               cpc'[d] \in Parting
        PROVE  Mode(d) = 4 \/ fin'[Srv(d)]
    <3>0. fin[Srv(d)] => fin'[Srv(d)]
      BY DEF Lasting
    <3>1. ASSUME cpc[d] \in Parting, d = conn \/ sock[Srv(d)] = "queued" PROVE Mode(d) = 4 \/ fin'[Srv(d)]
      BY <2>3, <2>6, <3>0, <3>1 DEF PipeInv, CalmInv
    <3>2. CASE d # c
      BY <1>1, <2>6, <3>1, <3>2 DEF ClientFrame
    <3>3. CASE d = c /\ cpc[d] \in Parting
      BY <1>1, <2>6, <3>1, <3>3 DEF ClientTouches, Fresh, Parting
    <3>4. CASE d = c /\ cpc[d] \notin Parting
      <4>1. \/ cpc[c] \in Fresh /\ sock' = sock
            \/ Mode(c) = 4
            \/ cpc[c] \in {"send", "shutdown", "recv"} /\ sock' = sock
                 /\ (~Valid(Cli(c)) \/ rst[Cli(c)] # "none" \/ fin[Srv(c)])
        BY <1>1, <2>3, <2>6, <3>4, ClientLeaves DEF EndsInv
      <4>2. cpc[c] \in Fresh => sock[Srv(c)] = "none"
        BY DEF EndsInv, QueueInv
      <4>3. c = conn => sock[Srv(c)] # "none"
        BY DEF PipeInv, ServerPipe
      <4>4. ASSUME sock' = sock, cpc[c] \in {"send", "shutdown", "recv"}
            PROVE  Valid(Cli(c)) /\ rst[Cli(c)] = "none"
        <5>1. sock[Srv(c)] # "none" /\ (c = conn \/ sock[Srv(c)] = "queued")
          BY <2>6, <3>4, <4>3, <4>4
        <5>2. sock[Cli(c)] \in SockStates /\ sock[Cli(c)] \notin {"none", "queued", "closed"}
          BY <2>3, <4>4, <5>1
             DEF PipeInv, ClientPipe, EndsInv, DrainInv, NoQueued, TypeInv, KernelInv, KernelTypeOK
        <5>3. rst[Cli(c)] = "none"
          BY <2>3, <2>6, <5>1 DEF Orderly, Calm, EndsInv, QueueInv, Clean
        <5> QED BY <5>2, <5>3 DEF Valid, SockStates
      <4> QED BY <2>6, <3>0, <3>4, <4>1, <4>2, <4>3, <4>4
    <3> QED BY <3>2, <3>3, <3>4
  <2> QED BY <2>1, <2>4, <2>5, <2>6
<1> QED BY <1>2, <1>3, <1>4, <1>5 DEF PipeInv

-------------------------------------------------------------------------------
LEMMA EnvKeepsPipe ==
  ASSUME EndsInv, PipeInv, EnvStep, Lasting
  PROVE  PipeInv'
<1> USE EndpointFacts
<1>1. /\ UNCHANGED <<cfg, conn, sret, sent, read, killed, retval>>
      /\ spc' = spc \/ (spc = "idle" /\ spc' = "start")
      /\ ServerMode' = ServerMode /\ \A d \in Clients : Mode(d)' = Mode(d) /\ EnvTouches(d)
  <2>1. retval' = retval
    BY DEF EnvStep, Main, SpawnServer, SpawnClient, JoinServer, JoinClient, Goto,
           Network, StartRemote, Reap, serverVars
  <2> QED BY <2>1, EnvKeeps, EnvTouchesAll DEF EndsInv, DrainInv, ServerMode, Mode
<1>2. faults' = faults
  BY DEF EnvStep, Main, SpawnServer, SpawnClient, JoinServer, JoinClient,
         Network, DeliverRst, StartRemote, Reap, CloseCall, CloseOpen, InvalidCall,
         CloseListenerCall, kernelVars
<1>3. ASSUME NEW d \in Clients
      PROVE  /\ sock'[Cli(d)] = sock[Cli(d)]
                  \/ (sock[Cli(d)] = "open" /\ sock'[Cli(d)] = "closed" /\ d \in killed)
             /\ rst'[Cli(d)] = "reported" => rst[Cli(d)] = "reported"
             /\ \/ rst'[Srv(d)] = rst[Srv(d)] \/ rst[Srv(d)] # "none"
                \/ sock'[Cli(d)] = "closed" /\ sent'[Srv(d)] # <<>>
  <2>0. /\ sock \in [Endpoints -> SockStates] /\ rst \in [Endpoints -> RstStates]
        /\ Cli(d) \in Endpoints /\ Srv(d) \in Endpoints
        /\ sock[Cli(d)] # "queued"
    BY DEF EndsInv, TypeInv, KernelInv, KernelTypeOK, DrainInv, NoQueued
  <2>1. rst'[Cli(d)] = "reported" => rst[Cli(d)] = "reported"
    BY <1>1 DEF EnvTouches
  <2>2. CASE Main \/ (\E c \in Clients : StartRemote(c)) \/ Network
    BY <2>0, <2>1, <2>2
       DEF Main, SpawnServer, SpawnClient, JoinServer, JoinClient, StartRemote, Network,
           DeliverRst, kernelVars
  <2>3. ASSUME NEW c \in Clients, Reap(c)
        PROVE  /\ sock'[Cli(d)] = sock[Cli(d)]
                    \/ (sock[Cli(d)] = "open" /\ sock'[Cli(d)] = "closed" /\ d \in killed)
               /\ \/ rst'[Srv(d)] = rst[Srv(d)] \/ rst[Srv(d)] # "none"
                  \/ sock'[Cli(d)] = "closed" /\ sent'[Srv(d)] # <<>>
    <3>1. CASE CloseOpen(Cli(c))
      <4>1. /\ sock[Cli(c)] = "open" /\ sock' = [sock EXCEPT ![Cli(c)] = "closed"] /\ c \in killed
            /\ sent' = sent
            /\ \/ rst' = rst
               \/ /\ Unread(Cli(c)) > 0
                  /\ \E r : rst' = [rst EXCEPT ![Srv(c)] = r]
        BY <2>3, <3>1 DEF CloseOpen, Valid, Reap
      <4>2. Unread(Cli(c)) > 0 => sent[Srv(c)] # <<>>
        <5>1. read[Cli(c)] \in Nat /\ sent[Srv(c)] \in Seq(Byte)
          BY DEF EndsInv, TypeInv, KernelInv, KernelTypeOK
        <5>2. sent[Srv(c)] = <<>> => Len(sent[Srv(c)]) = 0
          OBVIOUS
        <5> QED BY <5>1, <5>2 DEF Unread
      <4>3. CASE d = c
        BY <2>0, <4>1, <4>2, <4>3
      <4>4. CASE d # c
        BY <2>0, <4>1, <4>4
      <4> QED BY <4>3, <4>4
    <3>2. CASE CloseListenerCall
      BY <2>0, <3>2 DEF CloseListenerCall
    <3>3. CASE conn \in Clients /\ CloseOpen(Srv(conn))
      <4>1. /\ sock' = [sock EXCEPT ![Srv(conn)] = "closed"]
            /\ rst' = rst \/ \E r : rst' = [rst EXCEPT ![Cli(conn)] = r]
        BY <3>3 DEF CloseOpen
      <4> QED BY <2>0, <3>3, <4>1
    <3>4. CASE UNCHANGED kernelVars
      BY <3>4 DEF kernelVars
    <3>5. conn # NoClient => conn \in Clients
      BY DEF EndsInv, TypeInv, ServerInv, ServerTypeOK
    <3> QED
      BY <2>3, <3>1, <3>2, <3>3, <3>4, <3>5 DEF Reap, CloseCall, InvalidCall
  <2> QED BY <2>1, <2>2, <2>3 DEF EnvStep
<1>4. ASSUME NEW d \in Clients PROVE ServerReset(d)' /\ ClientPipe(d)'
  <2>1. /\ ServerReset(d) /\ ClientPipe(d) /\ EnvTouches(d)
        /\ spc \in Ending \cup {"shutdown"} => spc' = spc
    BY <1>1 DEF PipeInv, Ending
  <2>2. ServerReset(d)'
    BY <1>1, <1>3, <2>1 DEF ServerReset
  <2>3. ClientPipe(d)'
    BY <1>1, <1>3, <2>1 DEF ClientPipe, EnvTouches, Fresh
  <2> QED BY <2>2, <2>3
<1>5. ServerPipe'
  <2>1. conn \in Clients => sock'[Srv(conn)] # "none"
    BY <1>1 DEF PipeInv, ServerPipe, EnvTouches
  <2>2. spc' = "echo" => spc = "echo"
    BY <1>1
  <2>3. spc \in Ending => spc' \in Ending
    BY <1>1 DEF Ending
  <2> QED BY <1>1, <2>1, <2>2, <2>3 DEF PipeInv, ServerPipe
<1>6. CalmInv'
  <2>1. SUFFICES ASSUME Calm' PROVE CalmInv'
    BY DEF CalmInv
  <2>2. Calm /\ killed = {}
    BY <1>1, <1>2, <2>1 DEF Calm, PipeInv, CalmInv
  <2>3. \A d \in Clients : /\ sock'[Cli(d)] = sock[Cli(d)] /\ sock'[Srv(d)] = sock[Srv(d)]
                           /\ fin'[Srv(d)] = fin[Srv(d)]
                           /\ cpc'[d] \in Parting => cpc[d] \in Parting
    BY <1>1, <1>3, <2>2 DEF EnvTouches, Parting
  <2> QED BY <1>1, <2>2, <2>3 DEF PipeInv, CalmInv
<1> QED BY <1>4, <1>5, <1>6 DEF PipeInv

LEMMA PipeInvStep == EndsInv /\ Orderly /\ PipeInv /\ [Next]_vars => PipeInv'
<1> SUFFICES ASSUME EndsInv, Orderly, PipeInv, [Next]_vars PROVE PipeInv'
  OBVIOUS
<1>0. EndsInv' /\ StreamsGrow
  BY TypeInvStep, ReplyInvStep, DrainInvStep, SocketInvStep, QueueInvStep, TellInvStep
     DEF EndsInv, DrainInv
<1>1. CASE UNCHANGED vars
  BY <1>1
     DEF vars, serverVars, clientVars, kernelVars, PipeInv, ServerReset, ClientPipe, ServerPipe,
         CalmInv, Calm, ServerMode, Mode
<1>2. CASE Next
  <2>1. Lasting
    BY <1>2, NextCalls, CallsLast DEF EndsInv, TypeInv, DrainInv
  <2> QED
    BY <1>0, <1>2, <2>1, NextParts, ServerKeepsPipe, ClientKeepsPipe, EnvKeepsPipe DEF EndsInv
<1> QED BY <1>1, <1>2

\* As long as no call fails by itself and the server takes everything, no
\* interleaving of sends, closes and resets ends a process by SIGPIPE.
THEOREM NoSigPipeHolds == Spec => []NoSigPipe
<1>1. Init => EndsInv /\ Orderly /\ PipeInv
  <2>1. Init => Orderly
    BY ServerAssumption DEF Init, ServerInit, Orderly
  <2> QED
    BY <2>1, PipeInit, TypeInvInit, ReplyInvInit, DrainInvInit, SocketInvInit, EndsInit DEF EndsInv
<1>2. EndsInv /\ Orderly /\ [Next]_vars => Orderly'
  BY OrderlyStep
<1>3. EndsInv /\ Orderly /\ PipeInv /\ [Next]_vars => PipeInv'
  BY PipeInvStep
<1>4. EndsInv /\ PipeInv => NoSigPipe
  <2> SUFFICES ASSUME EndsInv, PipeInv, killed # {}, ServerMode \notin {3, 4} PROVE faults > 0
    BY DEF NoSigPipe
  <2>1. ServerMode \in 1..5 /\ faults \in Nat
    BY TestBedAssumption
       DEF EndsInv, TypeInv, KernelInv, KernelTypeOK, ConfigTypeOK, ServerMode, Mode, OopModes
  <2>2. ServerMode \in {1, 2, 5}
    BY <2>1
  <2> QED BY <2>1, <2>2 DEF PipeInv, CalmInv, Calm
<1> QED BY <1>1, <1>2, <1>3, <1>4, EndsCorrect, PTL DEF Spec

-------------------------------------------------------------------------------
(* The numbers of the process. *)

\* Where the listening socket may be open.
Listens == {"bind", "listen", "accept", "closeListen", "dtorListen"}

\* Where the client uses its connection.
Talks == {"send", "shutdown", "recv", "close"}

LocalAt(pcs) == cpc[LocalClient] \in pcs

\* Whoever owns the number n is at a place where it has not yet closed it; the
\* socket of a refused address has no owner.
Owned(n) ==
  /\ fds[n] = "listening" => n = listenSocket /\ spc \in Listens
  /\ fds[n] = "accepted" => n = clientSocket /\ spc \notin Opening \cup {"done"}
  /\ fds[n] = "connected" => n = connectSocket /\ ~LocalAt(Fresh \cup {"done"})

TableInv == /\ fds \in [Numbers -> Kinds]
            /\ {listenSocket, clientSocket, connectSocket} \subseteq Numbers \cup {INVALID}
            /\ hit \subseteq Kinds
            /\ \A n \in Numbers : Owned(n)

\* The client opens one number per address, the server one at two places. Where
\* an address has accepted, the number used for it is not among those leaked.
ClientNumbers == {n \in Numbers : fds[n] \in {"unconnected", "connected"}}

CountInv ==
  /\ Cardinality(ClientNumbers) <= attempt[LocalClient]
  /\ (LocalAt(Fresh) /\ connectSocket = INVALID) =>
        Cardinality(ClientNumbers) < attempt[LocalClient]
  /\ LocalAt(Talks) \/ (LocalAt({"dtor", "done"}) /\ verdict[LocalClient] # "unable") =>
        Cardinality(Unconnected) < attempt[LocalClient]
  /\ LocalAt({"idle", "start", "resolve"}) => connectSocket = INVALID
  /\ spc \in {"idle", "start", "resolve", "socket"} => listenSocket = INVALID
  /\ spc \in Opening => clientSocket = INVALID

\* As long as nothing was hit, the numbers stand for what their owners think.
Stands(n, kind) == n \in Numbers /\ fds[n] = kind

Untroubled == hit = {} /\ LocalClient \notin killed

MirrorInv == Untroubled =>
  /\ (listener \notin {"none", "closed"} \/ spc \in Listens \ {"dtorListen"}) =>
        Stands(listenSocket, "listening")
  /\ Valid(Srv(conn)) \/ (clientSocket # INVALID /\ spc # "done") =>
        Stands(clientSocket, "accepted")
  /\ sock[Cli(LocalClient)] = "open" \/ LocalAt(Talks) => Stands(connectSocket, "connected")

\* As long as no call has failed either, a number closed twice is free, or has
\* become a socket that can no longer be connected; the client has not closed
\* its own before the server was done with opening, and nobody takes the socket
\* it is about to connect before the server has closed the listening one.
OnceClosed == (Untroubled /\ faults = 0) =>
  /\ spc \notin Opening \cup {"closeListen"} => Kind(listenSocket) \in {"free", "unconnected"}
  /\ LocalAt({"dtor"}) => \/ connectSocket = INVALID
                          \/ Stands(connectSocket, "connected")
                          \/ Stands(connectSocket, "free") /\ spc \notin Opening
  /\ LocalAt({"connect"}) /\ connectSocket # INVALID =>
        Stands(connectSocket, "unconnected") \/ spc \notin Opening \cup {"closeListen"}
  /\ spc \in Opening => /\ ~LocalAt({"close"})
                        /\ LocalAt(Talks) => /\ sock[Cli(LocalClient)] = "open"
                                             /\ sock[Srv(LocalClient)] = "queued"

HitNeedsFailure == faults = 0 => hit = {}

\* Clients wait for a listening socket only.
BacklogInv == backlog # <<>> => listener = "listening"

FdInv == /\ TypeInv /\ cfg[LocalClient].build = "unix"
         /\ TableInv /\ CountInv /\ MirrorInv /\ OnceClosed
         /\ HitNeedsFailure
         /\ hit = {} => EndsInv /\ BacklogInv

-------------------------------------------------------------------------------
LEMMA NumberFacts ==
  /\ Numbers \subseteq Nat /\ IsFiniteSet(Numbers) /\ Cardinality(Numbers) = NumAddrs + 3
  /\ INVALID \notin Numbers /\ INVALID = -1
<1>1. NumAddrs \in Nat /\ Numbers = 3..(5 + NumAddrs)
  BY ClientAssumption DEF Numbers
<1>2. IsFiniteSet(Numbers) /\ Cardinality(Numbers) = (5 + NumAddrs) - 3 + 1
  BY <1>1, FS_Interval
<1> QED BY <1>1, <1>2 DEF INVALID

LEMMA NumbersCounted ==
  ASSUME NEW T \in SUBSET Numbers, NEW S \in SUBSET T
  PROVE  /\ Cardinality(S) \in Nat /\ Cardinality(T) \in Nat
         /\ Cardinality(S) <= Cardinality(T)
<1>1. IsFiniteSet(T)
  BY NumberFacts, FS_Subset
<1> QED BY <1>1, FS_Subset, FS_CardinalityType

LEMMA OneMore ==
  ASSUME NEW S, IsFiniteSet(S), NEW x
  PROVE  /\ IsFiniteSet(S \cup {x}) /\ Cardinality(S \cup {x}) \in Nat
         /\ Cardinality(S \cup {x}) <= Cardinality(S) + 1
<1>1. Cardinality(S) \in Nat /\ IsFiniteSet(S \cup {x})
  BY FS_CardinalityType, FS_AddElement
<1>2. Cardinality(S \cup {x}) = Cardinality(S) \/ Cardinality(S \cup {x}) = Cardinality(S) + 1
  BY FS_AddElement
<1> QED BY <1>1, <1>2

\* The process never runs out of numbers, and is given one that is free.
LEMMA LowestFree ==
  ASSUME TypeInv, TableInv, CountInv
  PROVE  Lowest \in Numbers /\ fds[Lowest] = "free"
<1> DEFINE Free == {n \in Numbers : fds[n] = "free"}
<1>0. attempt[LocalClient] \in 1..NumAddrs /\ NumAddrs \in Nat
  BY TestBedAssumption, ClientAssumption DEF TypeInv, ClientInv, ClientTypeOK
<1>1. IsFiniteSet(ClientNumbers) /\ Cardinality(ClientNumbers) \in Nat
  BY NumberFacts, FS_Subset, FS_CardinalityType DEF ClientNumbers
<1>2. Free # {}
  <2> SUFFICES ASSUME Free = {} PROVE FALSE
    OBVIOUS
  <2>1. Numbers \subseteq (ClientNumbers \cup {listenSocket}) \cup {clientSocket}
    <3> SUFFICES ASSUME NEW n \in Numbers
                 PROVE  n \in ClientNumbers \/ n = listenSocket \/ n = clientSocket
      OBVIOUS
    <3>1. fds[n] # "free" /\ fds[n] \in Kinds
      BY DEF TableInv
    <3>2. /\ fds[n] = "listening" => n = listenSocket
          /\ fds[n] = "accepted" => n = clientSocket
      BY DEF TableInv, Owned
    <3> QED BY <3>1, <3>2 DEF Kinds, ClientNumbers
  <2> DEFINE S == ClientNumbers \cup {listenSocket}
             T == S \cup {clientSocket}
  <2>2. IsFiniteSet(S) /\ Cardinality(S) \in Nat /\ Cardinality(S) <= Cardinality(ClientNumbers) + 1
    BY <1>1, OneMore
  <2>3. IsFiniteSet(T) /\ Cardinality(T) \in Nat /\ Cardinality(T) <= Cardinality(S) + 1
    <3> HIDE DEF S
    <3> QED BY <2>2, OneMore
  <2>4. Cardinality(Numbers) <= Cardinality(T)
    BY <2>1, <2>3, FS_Subset
  <2> HIDE DEF S, T
  <2>5. Cardinality(ClientNumbers) <= attempt[LocalClient]
    BY DEF CountInv
  <2> QED BY <1>0, <1>1, <2>2, <2>3, <2>4, <2>5, NumberFacts
<1>3. PICK m \in Free : \A k \in Free : m <= k
  BY <1>2, NumberFacts, LeastOf
<1>4. m \in Numbers /\ fds[m] = "free" /\ \A k \in Numbers : k < m => fds[k] # "free"
  BY <1>3, NumberFacts
<1> QED BY <1>4 DEF Lowest

-------------------------------------------------------------------------------
(* Steps that open and close no number. *)

LEMMA ServerGoesOn ==
  ASSUME TypeInv, ServerStep,
         spc \notin {"socket", "accept", "closeListen", "dtorListen", "dtorClient"}
  PROVE  /\ UNCHANGED <<sock, conn, backlog>>
         /\ spc \in {"bind", "listen"} \/ listener' = listener
         /\ \/ spc = "start" /\ spc' \in {"resolve", "done", "dtorListen"}
            \/ spc = "resolve" /\ spc' = "socket"
            \/ spc \in {"bind", "listen"} /\ spc' \in {"listen", "accept"}
            \/ spc \in {"resolve", "bind", "listen"} /\ spc' = "dtorListen" /\ faults' > 0
            \/ spc \in Deaf \ {"dtorClient", "done"}
                 /\ spc' \in (Deaf \ {"dtorClient", "done"}) \cup {"dtorListen"}
<1>0. faults \in Nat
  BY DEF TypeInv, KernelInv, KernelTypeOK
<1>1. CASE ServerApplication \/ Setup
  BY <1>0, <1>1
     DEF ServerApplication, Setup, SetupStep, ListenerBecomes, CallFails, Goto, ReturnError,
         At, kernelVars
<1>2. CASE ~(ServerApplication \/ Setup)
  <2>1. UNCHANGED <<sock, listener, backlog>>
    BY <1>2
       DEF ServerStep, AcceptFails, Accept, CloseListen, DtorListen, DtorClient, At,
           Mode1Recv, Mode2Recv, Mode3Receive, Mode5Receive, RecvData, Mode1Eof,
           RecvError, Mode1Echo, Mode2Eof, Mode2Reply, ServerSigPipe, Mode3Ends, SelectReady,
           SelectTimeout, SelectFails, Mode5Eof, Mode5Error, ServerShutdown, kernelVars,
           CallFails, InvalidCall, SendOk, SendFails, SendKills, ReportReset, RecvEof,
           RecvFails, ShutdownOk, ShutdownFails
  <2>2. /\ conn' = conn /\ spc \in Deaf \ {"dtorClient", "done"}
        /\ spc' \in (Deaf \ {"dtorClient", "done"}) \cup {"dtorListen"}
    BY <1>2
       DEF ServerStep, AcceptFails, Accept, CloseListen, DtorListen, DtorClient,
           Mode1Recv, Mode2Recv, Mode3Receive, Mode5Receive, Mode1Eof,
           RecvError, Mode1Echo, Mode2Eof, Mode2Reply, ServerSigPipe, Mode3Ends, SelectReady,
           SelectTimeout, SelectFails, Mode5Eof, Mode5Error, ServerShutdown, At, Goto,
           ReturnError, serverVars, Deaf
  <2> QED BY <2>1, <2>2
<1> QED BY <1>1, <1>2

LEMMA ClientGoesOn ==
  ASSUME TypeInv, cfg[LocalClient].build = "unix", ClientStep(LocalClient),
         ~LocalAt({"connect", "close", "dtor"})
  PROVE  /\ UNCHANGED <<sock, listener, backlog, attempt>>
         /\ \/ LocalAt({"start"}) /\ LocalAt({"done", "resolve"})'
            \/ LocalAt({"resolve"}) /\ LocalAt({"connect"})'
            \/ LocalAt({"resolve"}) /\ LocalAt({"dtor"})' /\ verdict'[LocalClient] = "unable"
            \/ LocalAt({"send", "shutdown", "recv"}) /\ LocalAt({"send", "shutdown", "recv", "dtor"})'
            \/ /\ LocalAt({"recv"}) /\ LocalAt({"close"})'
               /\ RecvEof(Cli(LocalClient)) \/ RecvFails(Cli(LocalClient))
<1> USE DEF LocalAt
<1>0. cpc \in [Clients -> ClientPcs] /\ verdict \in [Clients -> Verdicts] /\ LocalClient \in Clients
  BY TestBedAssumption DEF TypeInv, ClientInv, ClientTypeOK
<1>1. CASE ClientApplication(LocalClient) \/ SetupResolve(LocalClient)
  BY <1>0, <1>1
     DEF ClientApplication, SetupResolve, NotConnected, SocketErrorSeen, ClientAt, ClientGoto,
         ClientReturn, CallFails, kernelVars
<1>2. CASE ~(ClientApplication(LocalClient) \/ SetupResolve(LocalClient))
  <2>1. UNCHANGED <<sock, listener, backlog, attempt>>
    BY <1>2
       DEF ClientStep, SetupSocketFails, SetupConnect, SetupRefused, ClientClose, ClientDtor,
           ClientAt, ClientSend, ClientSendFails, ClientSigPipe, ClientShutdown, ClientRecv,
           ClientRecvEnds, ClientGoto, ClientReturn, clientVars, kernelVars, CallFails,
           InvalidCall, SendOk, SendFails, SendKills, ReportReset, RecvData, RecvEof, RecvFails,
           ShutdownOk, ShutdownFails
  <2>2. CASE ClientRecvEnds(LocalClient)
    BY <1>0, <2>1, <2>2 DEF ClientRecvEnds, ClientAt, ClientGoto, ClientReturn
  <2>3. CASE ~ClientRecvEnds(LocalClient)
    <3>1. /\ LocalAt({"send", "shutdown", "recv"})
          /\ LocalAt({"send", "shutdown", "recv", "dtor"})'
      BY <1>0, <1>2, <2>3
         DEF ClientStep, SetupSocketFails, SetupConnect, SetupRefused, ClientClose, ClientDtor,
             ClientAt, ClientSend, ClientSendFails, ClientSigPipe, ClientShutdown, ClientRecv,
             ClientGoto, ClientReturn, clientVars
    <3> QED BY <2>1, <3>1
  <2> QED BY <2>2, <2>3
<1> QED BY <1>1, <1>2

\* Main, the network and the programs on other hosts.
LEMMA ElsewhereGoesOn ==
  ASSUME TypeInv, Elsewhere
  PROVE  /\ UNCHANGED <<cfg, conn, listener>>
         /\ spc' = spc \/ (spc = "idle" /\ spc' = "start")
         /\ UNCHANGED cpc[LocalClient] \/ (LocalAt({"idle"}) /\ LocalAt({"start"})')
         /\ UNCHANGED <<attempt[LocalClient], verdict[LocalClient]>>
         /\ UNCHANGED <<sock[Cli(LocalClient)], sock[Srv(LocalClient)]>>
         /\ \A c \in Clients : sock'[Srv(c)] \in {sock[Srv(c)], "queued"}
         /\ UNCHANGED fdVars
<1> USE DEF LocalAt
<1>0. /\ cpc \in [Clients -> ClientPcs] /\ verdict \in [Clients -> Verdicts]
      /\ attempt \in [Clients -> 1..NumAddrs] /\ LocalClient \in Clients
      /\ sock \in [Endpoints -> SockStates]
  BY TestBedAssumption DEF TypeInv, ClientInv, ClientTypeOK, KernelInv, KernelTypeOK
<1>1. CASE Main
  BY <1>0, <1>1
     DEF Elsewhere, Main, SpawnServer, SpawnClient, JoinServer, JoinClient, MainAt, Goto,
         ClientGoto, serverVars, clientVars, kernelVars, TypeInv
<1>2. CASE Network
  BY <1>0, <1>2 DEF Elsewhere, Network, DeliverRst, serverVars, clientVars
<1>3. ASSUME NEW c \in Clients \ {LocalClient}, StartRemote(c)
      PROVE  /\ UNCHANGED <<serverVars, kernelVars, cfg>>
             /\ UNCHANGED <<cpc[LocalClient], attempt[LocalClient], verdict[LocalClient]>>
  BY <1>0, <1>3 DEF StartRemote, ClientGoto
<1>4. ASSUME NEW c \in Clients \ {LocalClient}, Reap(c)
      PROVE  /\ UNCHANGED <<serverVars, clientVars, cfg, listener>>
             /\ \A x \in Endpoints \ {Cli(c)} : sock'[x] = sock[x]
  BY <1>0, <1>4 DEF Reap, CloseCall, CloseOpen, InvalidCall, kernelVars
<1>5. ASSUME NEW c \in Clients \ {LocalClient}, ClientThread(c)
      PROVE  /\ UNCHANGED <<serverVars, cfg, listener>>
             /\ UNCHANGED <<cpc[LocalClient], attempt[LocalClient], verdict[LocalClient]>>
             /\ \A x \in Endpoints \ {Cli(c), Srv(c)} : sock'[x] = sock[x]
             /\ sock'[Srv(c)] \in {sock[Srv(c)], "queued"}
  <2>1. ClientStep(c) /\ UNCHANGED <<cfg, serverVars>>
    BY <1>5 DEF ClientThread
  <2>2. cpc'[LocalClient] = cpc[LocalClient] /\ verdict'[LocalClient] = verdict[LocalClient]
    BY <1>0, <2>1, ClientTouchesOwn DEF ClientFrame
  <2>3. attempt'[LocalClient] = attempt[LocalClient]
    BY <1>0, <2>1
       DEF ClientStep, ClientApplication, SetupResolve, SetupSocketFails, SetupConnect,
           SetupRefused, NotConnected, ClientClose, ClientDtor, ClientSend, ClientSendFails,
           ClientSigPipe, ClientShutdown, ClientRecv, ClientRecvEnds, ClientGoto, ClientReturn,
           clientVars
  <2>4. CASE SetupConnect(c)
    <3>1. sock' = [sock EXCEPT ![Cli(c)] = "open", ![Srv(c)] = "queued"] /\ listener' = listener
      BY <2>4 DEF SetupConnect, ConnectCall
    <3>2. Srv(c) \in Endpoints /\ Cli(c) \in Endpoints /\ Srv(c) # Cli(c)
      BY EndpointFacts
    <3> QED BY <1>0, <2>1, <2>2, <2>3, <3>1, <3>2
  <2>5. CASE ClientClose(c) \/ ClientDtor(c)
    <3>1. listener' = listener /\ \A x \in Endpoints \ {Cli(c)} : sock'[x] = sock[x]
      BY <1>0, <2>5 DEF ClientClose, ClientDtor, CloseCall, CloseOpen, InvalidCall, kernelVars
    <3> QED BY <2>1, <2>2, <2>3, <3>1, EndpointFacts
  <2>6. CASE ~(SetupConnect(c) \/ ClientClose(c) \/ ClientDtor(c))
    <3>1. UNCHANGED <<sock, listener>>
      BY <2>1, <2>6
         DEF ClientStep, ClientApplication, SetupResolve, SetupSocketFails, SetupRefused,
             ClientSend, ClientSendFails, ClientSigPipe, ClientShutdown, ClientRecv,
             ClientRecvEnds, kernelVars, CallFails, InvalidCall, SendOk, SendFails, SendKills,
             ReportReset, RecvData, RecvEof, RecvFails, ShutdownOk, ShutdownFails
    <3> QED BY <2>1, <2>2, <2>3, <3>1
  <2> QED BY <2>4, <2>5, <2>6
<1>6. \A c, d \in Clients : /\ Srv(c) \in Endpoints /\ Cli(c) \in Endpoints
                            /\ Srv(c) # Cli(d)
                            /\ c # d => Srv(c) # Srv(d) /\ Cli(c) # Cli(d)
  BY EndpointFacts DEF Srv, Cli
<1>7. ASSUME NEW c \in Clients \ {LocalClient}, ClientThread(c) \/ StartRemote(c) \/ Reap(c)
      PROVE  /\ UNCHANGED <<cfg, serverVars, listener>>
             /\ UNCHANGED <<cpc[LocalClient], attempt[LocalClient], verdict[LocalClient]>>
             /\ UNCHANGED <<sock[Cli(LocalClient)], sock[Srv(LocalClient)]>>
             /\ \A d \in Clients : sock'[Srv(d)] \in {sock[Srv(d)], "queued"}
  <2>1. CASE ClientThread(c)
    BY <1>0, <1>5, <1>6, <2>1
  <2>2. CASE StartRemote(c)
    BY <1>0, <1>3, <2>2 DEF kernelVars
  <2>3. CASE Reap(c)
    BY <1>0, <1>4, <1>6, <2>3 DEF clientVars
  <2> QED BY <1>7, <2>1, <2>2, <2>3
<1> QED BY <1>0, <1>1, <1>2, <1>7 DEF Elsewhere, serverVars

-------------------------------------------------------------------------------
(* Closing a number. *)

LEMMA NoCallForgotten ==
  ASSUME KernelInv, KernelCall
  PROVE  faults <= faults' /\ killed \subseteq killed'
<1>1. faults \in Nat
  BY DEF KernelInv, KernelTypeOK
<1> QED
  BY <1>1
     DEF KernelCall, kernelVars, CallFails, CloseListenerCall, ListenerBecomes, ConnectCall,
         AcceptCall, SendOk, ReportReset, SendKills, RecvData, ShutdownOk, CloseOpen, DeliverRst

LEMMA CloseFacts ==
  ASSUME TypeInv, TableInv, NEW n \in Numbers \cup {INVALID}, NEW kinds, CloseNumber(n, kinds)
  PROVE  /\ KernelInv' /\ KernelCall /\ UNCHANGED <<faults, killed>>
         /\ fds' \in [Numbers -> Kinds]
         /\ \A m \in Numbers : fds'[m] = IF m = n THEN "free" ELSE fds[m]
         /\ UNCHANGED <<listenSocket, clientSocket, connectSocket>>
         /\ hit \subseteq hit' /\ hit' \subseteq Kinds
         /\ Kind(n) \in kinds \cup {"free", "unconnected"} => hit' = hit
         /\ hit' = {} => hit = {} /\ Kind(n) \in kinds \cup {"free", "unconnected"}
<1>0. KernelInv /\ fds \in [Numbers -> Kinds] /\ hit \subseteq Kinds
  BY DEF TypeInv, TableInv
<1>1. Kind(n) \in Kinds
  BY <1>0, NumberFacts DEF Kind, Kinds
<1>2. \/ CloseListenerCall \/ CloseCall(Srv(conn)) \/ CloseCall(Cli(LocalClient))
      \/ UNCHANGED kernelVars
  BY DEF CloseNumber
<1>3. KernelInv'
  BY <1>0, <1>2, CloseListenerInv, CloseInv, UnchangedInv
<1>4. KernelCall
  BY <1>2 DEF CloseCall, CloseOpen, InvalidCall, Valid, KernelCall
<1>5. UNCHANGED <<faults, killed>>
  BY <1>2 DEF CloseCall, CloseOpen, InvalidCall, CloseListenerCall, kernelVars
<1>6. fds' \in [Numbers -> Kinds] /\ \A m \in Numbers : fds'[m] = IF m = n THEN "free" ELSE fds[m]
  BY <1>0 DEF CloseNumber, Kinds
<1>7. hit' = hit \cup ({Kind(n)} \ (kinds \cup {"free", "unconnected"}))
  BY DEF CloseNumber
<1>8. UNCHANGED <<listenSocket, clientSocket, connectSocket>>
  BY DEF CloseNumber
<1> QED BY <1>0, <1>1, <1>3, <1>4, <1>5, <1>6, <1>7, <1>8

\* Where nobody listens any more, closing the listening socket changes nothing.
LEMMA ClosedTwice ==
  ASSUME TypeInv, SocketInv, NoQueued, BacklogInv, listener \in {"none", "closed"},
         UNCHANGED kernelVars
  PROVE  CloseListenerCall
<1>1. /\ sock \in [Endpoints -> SockStates] /\ rst \in [Endpoints -> RstStates]
      /\ \A x \in Endpoints : Peer(x) \in Endpoints
  BY EndpointFacts DEF TypeInv, KernelInv, KernelTypeOK
<1>2. ASSUME NEW x \in Endpoints PROVE sock[x] # "queued"
  <2>1. \E c \in Clients : x = Srv(c) \/ x = Cli(c)
    BY DEF Endpoints, Srv, Cli
  <2> QED BY <2>1 DEF SocketInv, ServerSockets, NoQueued
<1>3. sock = [x \in Endpoints |-> IF sock[x] = "queued" THEN "closed" ELSE sock[x]]
  BY <1>1, <1>2
<1>4. rst = [x \in Endpoints |-> IF sock[Peer(x)] = "queued" THEN "flying" ELSE rst[x]]
  BY <1>1, <1>2
<1>5. backlog = <<>>
  BY DEF BacklogInv
<1> QED BY <1>3, <1>4, <1>5 DEF CloseListenerCall, kernelVars

\* A close that hits nothing foreign is the close of TcpDemo.
LEMMA CloseImplements ==
  ASSUME FdInv, LocalClient \notin killed, hit' = {}
  PROVE  /\ CloseNumber(listenSocket, {"listening"}) => CloseListenerCall
         /\ CloseNumber(clientSocket, {"accepted"}) => CloseCall(Srv(conn))
         /\ CloseNumber(connectSocket, {"connected"}) => CloseCall(Cli(LocalClient))
<1>0. /\ TypeInv /\ TableInv /\ MirrorInv /\ (hit = {} => EndsInv /\ BacklogInv)
      /\ {listenSocket, clientSocket, connectSocket} \subseteq Numbers \cup {INVALID}
      /\ listener \in ListenerStates
  BY DEF FdInv, TableInv, TypeInv, KernelInv, KernelTypeOK
<1>1. ASSUME CloseNumber(listenSocket, {"listening"}) PROVE CloseListenerCall
  <2>1. hit = {} /\ Kind(listenSocket) \in {"listening", "free", "unconnected"}
    BY <1>0, <1>1, CloseFacts
  <2>2. CASE Kind(listenSocket) = "listening"
    BY <1>1, <2>2 DEF CloseNumber
  <2>3. CASE Kind(listenSocket) \in {"free", "unconnected"}
    <3>1. UNCHANGED kernelVars
      BY <1>1, <2>3 DEF CloseNumber
    <3>2. listener \in {"none", "closed"}
      BY <1>0, <2>1, <2>3, NumberFacts DEF MirrorInv, Untroubled, Stands, Kind
    <3> QED BY <1>0, <2>1, <3>1, <3>2, ClosedTwice DEF EndsInv, DrainInv
  <2> QED BY <2>1, <2>2, <2>3
<1>2. ASSUME CloseNumber(clientSocket, {"accepted"}) PROVE CloseCall(Srv(conn))
  <2>1. hit = {} /\ Kind(clientSocket) \in {"accepted", "free", "unconnected"}
    BY <1>0, <1>2, CloseFacts
  <2>2. CASE Kind(clientSocket) = "accepted"
    BY <1>2, <2>2 DEF CloseNumber
  <2>3. CASE Kind(clientSocket) \in {"free", "unconnected"}
    <3>1. UNCHANGED kernelVars
      BY <1>2, <2>3 DEF CloseNumber
    <3>2. ~Valid(Srv(conn))
      BY <1>0, <2>1, <2>3, NumberFacts DEF MirrorInv, Untroubled, Stands, Kind
    <3> QED BY <3>1, <3>2 DEF CloseCall, InvalidCall
  <2> QED BY <2>1, <2>2, <2>3
<1>3. ASSUME CloseNumber(connectSocket, {"connected"}) PROVE CloseCall(Cli(LocalClient))
  <2>1. hit = {} /\ Kind(connectSocket) \in {"connected", "free", "unconnected"}
    BY <1>0, <1>3, CloseFacts
  <2>2. CASE Kind(connectSocket) = "connected"
    BY <1>3, <2>2 DEF CloseNumber
  <2>3. CASE Kind(connectSocket) \in {"free", "unconnected"}
    <3>1. UNCHANGED kernelVars
      BY <1>3, <2>3 DEF CloseNumber
    <3>2. ~Valid(Cli(LocalClient))
      BY <1>0, <2>1, <2>3, NumberFacts DEF MirrorInv, Untroubled, Stands, Kind, Valid
    <3> QED BY <3>1, <3>2 DEF CloseCall, InvalidCall
  <2> QED BY <2>1, <2>2, <2>3
<1> QED BY <1>1, <1>2, <1>3

\* Every step of the demo with numbers is a step of TcpDemo, unless it hits.
LEMMA FdStepImplements ==
  ASSUME FdInv, [FdNext]_<<vars, fdVars>>
  PROVE  hit \subseteq hit' /\ ([Next]_vars \/ hit' # {})
<1>0. /\ TypeInv /\ TableInv
      /\ {listenSocket, clientSocket, connectSocket} \subseteq Numbers \cup {INVALID}
      /\ LocalClient \in Clients
  BY TestBedAssumption DEF FdInv, TableInv
<1>1. CASE FdServerStep /\ UNCHANGED <<cfg, mpc, clientVars>>
  <2>1. ASSUME ServerStep, hit' = hit PROVE hit \subseteq hit' /\ [Next]_vars
    BY <1>1, <2>1 DEF Next, ServerThread
  <2>2. CASE FdListen \/ FdAccept
    BY <2>1, <2>2 DEF FdListen, FdAccept, Opens
  <2>3. CASE FdCloseListen
    <3>1. LocalClient \notin killed /\ CloseNumber(listenSocket, {"listening"})
      BY <2>3 DEF FdCloseListen, At
    <3>2. hit \subseteq hit'
      BY <1>0, <3>1, CloseFacts
    <3>3. CASE hit' = {}
      <4>1. CloseListenerCall /\ hit' = hit
        BY <3>1, <3>2, <3>3, CloseImplements
      <4>2. CloseListen
        BY <2>3, <4>1 DEF FdCloseListen, CloseListen
      <4> QED BY <2>1, <4>1, <4>2 DEF ServerStep
    <3> QED BY <3>2, <3>3
  <2>4. CASE FdDtorListen
    <3>1. LocalClient \notin killed /\ CloseNumber(listenSocket, {"listening"})
      BY <2>4 DEF FdDtorListen, At
    <3>2. hit \subseteq hit'
      BY <1>0, <3>1, CloseFacts
    <3>3. CASE hit' = {}
      <4>1. CloseListenerCall /\ hit' = hit
        BY <3>1, <3>2, <3>3, CloseImplements
      <4>2. DtorListen
        BY <2>4, <4>1 DEF FdDtorListen, DtorListen
      <4> QED BY <2>1, <4>1, <4>2 DEF ServerStep
    <3> QED BY <3>2, <3>3
  <2>5. CASE FdDtorClient
    <3>1. LocalClient \notin killed /\ CloseNumber(clientSocket, {"accepted"})
      BY <2>5 DEF FdDtorClient, At
    <3>2. hit \subseteq hit'
      BY <1>0, <3>1, CloseFacts
    <3>3. CASE hit' = {}
      <4>1. CloseCall(Srv(conn)) /\ hit' = hit
        BY <3>1, <3>2, <3>3, CloseImplements
      <4>2. DtorClient
        BY <2>5, <4>1 DEF FdDtorClient, DtorClient
      <4> QED BY <2>1, <4>1, <4>2 DEF ServerStep
    <3> QED BY <3>2, <3>3
  <2>6. CASE ServerStep /\ UNCHANGED fdVars
    BY <2>1, <2>6 DEF fdVars
  <2> QED BY <1>1, <2>2, <2>3, <2>4, <2>5, <2>6 DEF FdServerStep
<1>2. CASE FdClientStep /\ UNCHANGED <<cfg, mpc, serverVars>>
  <2>1. ASSUME ClientStep(LocalClient), hit' = hit PROVE hit \subseteq hit' /\ [Next]_vars
    BY <1>0, <1>2, <2>1 DEF Next, ClientThread
  <2>2. CASE FdSocket
    <3>1. CASE SetupSocketFails(LocalClient) /\ hit' = hit
      BY <2>1, <3>1 DEF ClientStep
    <3>2. CASE UNCHANGED <<clientVars, kernelVars>> /\ hit' = hit
      BY <1>2, <3>2 DEF vars
    <3> QED BY <2>2, <3>1, <3>2 DEF FdSocket, Opens
  <2>3. CASE FdConnect \/ FdRefused
    BY <2>1, <2>3 DEF FdConnect, FdRefused, ClientStep
  <2>4. CASE FdClientClose
    <3>1. LocalClient \notin killed /\ CloseNumber(connectSocket, {"connected"})
      BY <2>4 DEF FdClientClose, ClientAt
    <3>2. hit \subseteq hit'
      BY <1>0, <3>1, CloseFacts
    <3>3. CASE hit' = {}
      <4>1. CloseCall(Cli(LocalClient)) /\ hit' = hit
        BY <3>1, <3>2, <3>3, CloseImplements
      <4>2. ClientClose(LocalClient) \/ ClientDtor(LocalClient)
        BY <2>4, <4>1 DEF FdClientClose, ClientClose, ClientDtor
      <4> QED BY <2>1, <4>1, <4>2 DEF ClientStep
    <3> QED BY <3>2, <3>3
  <2>5. CASE ClientStep(LocalClient) /\ UNCHANGED fdVars
    BY <2>1, <2>5 DEF fdVars
  <2> QED BY <1>2, <2>2, <2>3, <2>4, <2>5 DEF FdClientStep
<1>3. CASE FdReap
  BY <1>0, <1>3 DEF FdReap, Next
<1>4. CASE Elsewhere
  <2>1. Next
    BY <1>4 DEF Elsewhere, Next
  <2> QED BY <1>4, <2>1 DEF Elsewhere, fdVars
<1>5. CASE UNCHANGED <<vars, fdVars>>
  BY <1>5 DEF fdVars
<1> QED BY <1>1, <1>2, <1>3, <1>4, <1>5 DEF FdNext

-------------------------------------------------------------------------------
(* What every step keeps. *)

LEMMA BacklogStep == TypeInv /\ SocketInv /\ BacklogInv /\ [Next]_vars => BacklogInv'
<1> SUFFICES ASSUME TypeInv, SocketInv, BacklogInv, [Next]_vars PROVE BacklogInv'
  OBVIOUS
<1>1. ASSUME listener' = listener, backlog' = backlog \/ backlog # <<>>
      PROVE  BacklogInv'
  BY <1>1 DEF BacklogInv
<1>2. CASE UNCHANGED vars
  BY <1>1, <1>2 DEF vars, kernelVars
<1>3. CASE ServerThread
  <2>1. CASE Setup
    <3>1. spc \in Unheard /\ backlog' = backlog
      BY <2>1 DEF Setup, SetupStep, At, ListenerBecomes, CallFails, Unheard
    <3> QED BY <3>1 DEF SocketInv, ServerSockets, BacklogInv
  <2>2. CASE CloseListen \/ DtorListen
    BY <2>2 DEF CloseListen, DtorListen, CloseListenerCall, BacklogInv
  <2>3. CASE ~(Setup \/ CloseListen \/ DtorListen)
    <3>1. listener' = listener /\ (backlog' = backlog \/ backlog # <<>>)
      BY <1>3, <2>3
         DEF ServerThread, ServerStep, ServerApplication, AcceptFails, Accept, AcceptCall,
             DtorClient, CloseCall, CloseOpen,
             Mode1Recv, Mode2Recv, Mode3Receive, Mode5Receive, RecvData, Mode1Eof,
             RecvError, Mode1Echo, Mode2Eof, Mode2Reply, ServerSigPipe, Mode3Ends, SelectReady,
             SelectTimeout, SelectFails, Mode5Eof, Mode5Error, ServerShutdown, kernelVars,
             CallFails, InvalidCall, SendOk, SendFails, SendKills, ReportReset, RecvEof,
             RecvFails, ShutdownOk, ShutdownFails
    <3> QED BY <1>1, <3>1
  <2> QED BY <2>1, <2>2, <2>3
<1>4. ASSUME NEW c \in Clients, ClientThread(c) PROVE BacklogInv'
  <2>1. CASE SetupConnect(c)
    BY <2>1 DEF SetupConnect, ConnectCall, BacklogInv
  <2>2. CASE ~SetupConnect(c)
    <3>1. listener' = listener /\ backlog' = backlog
      BY <1>4, <2>2
         DEF ClientThread, ClientStep, ClientApplication, SetupResolve, SetupSocketFails,
             SetupRefused, ClientSend, ClientSendFails, ClientSigPipe, ClientShutdown,
             ClientRecv, ClientRecvEnds, ClientClose, ClientDtor, CloseCall, CloseOpen,
             kernelVars, CallFails, InvalidCall, SendOk, SendFails, SendKills,
             ReportReset, RecvData, RecvEof, RecvFails, ShutdownOk, ShutdownFails
    <3> QED BY <1>1, <3>1
  <2> QED BY <2>1, <2>2
<1>5. CASE EnvStep
  <2>1. \/ listener' = listener /\ backlog' = backlog
        \/ backlog' = <<>>
    BY <1>5
       DEF EnvStep, Main, SpawnServer, SpawnClient, JoinServer, JoinClient, Network, DeliverRst,
           StartRemote, Reap, CloseCall, CloseOpen, InvalidCall, CloseListenerCall, kernelVars
  <2> QED BY <1>1, <2>1 DEF BacklogInv
<1> QED BY <1>2, <1>3, <1>4, <1>5, NextParts

\* The server's destructor and the close after accept, with whatever they hit.
LEMMA ServerCloseTypes ==
  ASSUME TypeInv, TableInv, FdCloseListen \/ FdDtorListen \/ FdDtorClient,
         UNCHANGED <<cfg, mpc, clientVars>>
  PROVE  TypeInv' /\ KernelCall
<1>0. {listenSocket, clientSocket} \subseteq Numbers \cup {INVALID} /\ ServerInv
  BY DEF TableInv, TypeInv
<1>1. KernelInv' /\ KernelCall
  BY <1>0, CloseFacts DEF FdCloseListen, FdDtorListen, FdDtorClient
<1>2. ServerInv' /\ spc # "idle"
  <2>1. CASE FdCloseListen
    <3>1. ModeOperation \in {"shutdown", "select", "recv"}
      BY DEF ModeOperation
    <3> QED
      BY <1>0, <2>1, <3>1
         DEF FdCloseListen, At, ServerInv, ServerTypeOK, ServerPcs, Opening, Holding
  <2>2. CASE FdDtorListen \/ FdDtorClient
    BY <1>0, <2>2, GotoInv
       DEF FdDtorListen, FdDtorClient, At, ServerPcs, Opening, Holding
  <2> QED BY <2>1, <2>2
<1>3. ClientInv'
  BY ClientUnchangedInv DEF TypeInv
<1> QED BY <1>1, <1>2, <1>3 DEF TypeInv, ConfigTypeOK, clientVars

LEMMA ClientCloseTypes ==
  ASSUME TypeInv, TableInv, FdClientClose, UNCHANGED <<cfg, mpc, serverVars>>
  PROVE  TypeInv' /\ KernelCall
<1>0. connectSocket \in Numbers \cup {INVALID} /\ LocalClient \in Clients
  BY TestBedAssumption DEF TableInv
<1>1. KernelInv' /\ KernelCall
  BY <1>0, CloseFacts DEF FdClientClose
<1>2. ServerInv'
  BY ServerUnchangedInv DEF TypeInv
<1>3. ClientInv' /\ cpc[LocalClient] # "idle"
  BY <1>0, ClientGotoInv DEF FdClientClose, ClientAt, ClientPcs, Fresh, TypeInv
<1> QED BY <1>1, <1>2, <1>3 DEF TypeInv, ConfigTypeOK, serverVars

\* Types are kept whatever is hit, and failures and deaths are not forgotten.
LEMMA FdStepKeeps ==
  ASSUME FdInv, [FdNext]_<<vars, fdVars>>
  PROVE  /\ TypeInv' /\ cfg' = cfg
         /\ faults <= faults' /\ killed \subseteq killed' /\ hit \subseteq hit'
<1>0. TypeInv /\ TableInv /\ KernelInv /\ LocalClient \in Clients /\ faults \in Nat
  BY TestBedAssumption DEF FdInv, TypeInv, KernelInv, KernelTypeOK
<1>1. ASSUME [Next]_vars
      PROVE  TypeInv' /\ cfg' = cfg /\ faults <= faults' /\ killed \subseteq killed'
  <2>1. TypeInv'
    BY <1>0, <1>1, TypeInvStep
  <2>2. CASE Next
    <3>1. cfg' = cfg
      BY <2>2 DEF Next, Main, ServerThread, Network, ClientThread, StartRemote, Reap
    <3> QED BY <1>0, <2>1, <2>2, <3>1, NextCalls, NoCallForgotten
  <2>3. CASE UNCHANGED vars
    BY <1>0, <2>1, <2>3 DEF vars, kernelVars
  <2> QED BY <1>1, <2>2, <2>3
<1>2. hit \subseteq hit' /\ ([Next]_vars \/ hit' # {})
  BY FdStepImplements
<1>3. CASE ~[Next]_vars
  <2>1. \/ /\ FdCloseListen \/ FdDtorListen \/ FdDtorClient
           /\ UNCHANGED <<cfg, mpc, clientVars>>
        \/ FdClientClose /\ UNCHANGED <<cfg, mpc, serverVars>>
    BY <1>0, <1>3
       DEF FdNext, FdServerStep, FdListen, FdAccept, FdClientStep, FdSocket, FdConnect,
           FdRefused, ClientStep, FdReap, Elsewhere, Next, ServerThread, ClientThread, vars
  <2>2. TypeInv' /\ KernelCall /\ cfg' = cfg
    BY <1>0, <2>1, ServerCloseTypes, ClientCloseTypes
  <2> QED BY <1>0, <1>2, <2>2, NoCallForgotten
<1> QED BY <1>1, <1>2, <1>3

-------------------------------------------------------------------------------
(* Steps of the server thread. *)

NumberInv == TableInv /\ CountInv /\ MirrorInv /\ OnceClosed

\* What the steps need of a state, and of what happened before it.
LEMMA Context ==
  ASSUME FdInv, [FdNext]_<<vars, fdVars>>
  PROVE  /\ TypeInv /\ TableInv /\ CountInv /\ MirrorInv /\ OnceClosed
         /\ hit = {} => SocketInv /\ QueueInv /\ NoQueued
         /\ LocalClient \in Clients /\ attempt[LocalClient] \in 1..NumAddrs
         /\ cpc[LocalClient] \in ClientPcs /\ spc \in ServerPcs
         /\ conn \in Clients \cup {NoClient} /\ (spc \in Opening => conn = NoClient)
         /\ sock \in [Endpoints -> SockStates] /\ faults \in Nat /\ faults' \in Nat
         /\ Untroubled' => Untroubled
         /\ faults' = 0 => faults = 0
<1>1. /\ TypeInv /\ TableInv /\ CountInv /\ MirrorInv /\ OnceClosed
      /\ hit = {} => SocketInv /\ QueueInv /\ NoQueued
      /\ LocalClient \in Clients
  BY TestBedAssumption DEF FdInv, EndsInv, DrainInv
<1>2. /\ attempt[LocalClient] \in 1..NumAddrs
      /\ cpc[LocalClient] \in ClientPcs /\ spc \in ServerPcs
      /\ conn \in Clients \cup {NoClient} /\ (spc \in Opening => conn = NoClient)
      /\ sock \in [Endpoints -> SockStates] /\ faults \in Nat
  BY <1>1 DEF TypeInv, KernelInv, KernelTypeOK, ServerInv, ServerTypeOK, ClientInv, ClientTypeOK
<1>3. TypeInv' /\ faults <= faults' /\ killed \subseteq killed' /\ hit \subseteq hit'
  BY FdStepKeeps
<1>4. faults' \in Nat
  BY <1>3 DEF TypeInv, KernelInv, KernelTypeOK
<1> QED BY <1>1, <1>2, <1>3, <1>4 DEF Untroubled

LEMMA ServerQuiet ==
  ASSUME FdInv, [FdNext]_<<vars, fdVars>>, ServerStep, UNCHANGED fdVars, UNCHANGED clientVars,
         spc \notin {"socket", "accept", "closeListen", "dtorListen", "dtorClient"}
  PROVE  NumberInv'
<1> USE DEF LocalAt, clientVars, fdVars
<1>0. /\ TypeInv /\ TableInv /\ CountInv /\ MirrorInv /\ OnceClosed
      /\ Untroubled' => Untroubled
      /\ faults' = 0 => faults = 0
  BY Context
<1>1. /\ UNCHANGED <<sock, conn, backlog>>
      /\ spc \in {"bind", "listen"} \/ listener' = listener
      /\ \/ spc = "start" /\ spc' \in {"resolve", "done", "dtorListen"}
         \/ spc = "resolve" /\ spc' = "socket"
         \/ spc \in {"bind", "listen"} /\ spc' \in {"listen", "accept"}
         \/ spc \in {"resolve", "bind", "listen"} /\ spc' = "dtorListen" /\ faults' > 0
         \/ spc \in Deaf \ {"dtorClient", "done"}
              /\ spc' \in (Deaf \ {"dtorClient", "done"}) \cup {"dtorListen"}
  BY <1>0, ServerGoesOn
<1>2. TableInv'
  <2>1. ASSUME NEW n \in Numbers PROVE Owned(n)'
    BY <1>0, <1>1 DEF TableInv, Owned, Listens, Opening, Deaf
  <2> QED BY <1>0, <2>1 DEF TableInv
<1>3. CountInv'
  <2>1. ClientNumbers' = ClientNumbers /\ Unconnected' = Unconnected
    BY DEF ClientNumbers, Unconnected
  <2> QED BY <1>0, <1>1, <2>1 DEF CountInv, Opening, Deaf
<1>4. MirrorInv'
  BY <1>0, <1>1 DEF MirrorInv, Stands, Listens, Deaf, Valid
<1>5. OnceClosed'
  <2> SUFFICES ASSUME Untroubled', faults' = 0 PROVE OnceClosed'
    BY DEF OnceClosed
  <2>1. Kind(listenSocket)' = Kind(listenSocket)
    BY DEF Kind
  <2>2. spc = "start" => Kind(listenSocket) = "free"
    BY <1>0 DEF CountInv, Kind
  <2> QED BY <1>0, <1>1, <2>1, <2>2 DEF OnceClosed, Stands, Opening, Deaf
<1> QED BY <1>2, <1>3, <1>4, <1>5 DEF NumberInv

\* A socket of the server is put into the table at a number that was free.
LEMMA ServerOpens ==
  ASSUME FdInv, [FdNext]_<<vars, fdVars>>, UNCHANGED clientVars, Opens("listening") \/ Opens("accepted")
  PROVE  /\ Lowest \in Numbers /\ fds[Lowest] = "free" /\ Lowest # INVALID
         /\ fds' \in [Numbers -> Kinds] /\ hit' = hit
         /\ fds'[Lowest] \in {"listening", "accepted"}
         /\ Opens("listening") => fds'[Lowest] = "listening"
         /\ Opens("accepted") => fds'[Lowest] = "accepted"
         /\ \A n \in Numbers \ {Lowest} : fds'[n] = fds[n]
         /\ ClientNumbers' = ClientNumbers /\ Unconnected' = Unconnected
<1>1. Lowest \in Numbers /\ fds[Lowest] = "free" /\ Lowest # INVALID /\ fds \in [Numbers -> Kinds]
  BY Context, LowestFree, NumberFacts DEF TableInv
<1>2. /\ fds' \in [Numbers -> Kinds] /\ hit' = hit
      /\ fds'[Lowest] \in {"listening", "accepted"}
      /\ Opens("listening") => fds'[Lowest] = "listening"
      /\ Opens("accepted") => fds'[Lowest] = "accepted"
      /\ \A n \in Numbers \ {Lowest} : fds'[n] = fds[n]
  BY <1>1 DEF Opens, Kinds
<1>3. ClientNumbers' = ClientNumbers /\ Unconnected' = Unconnected
  BY <1>1, <1>2 DEF ClientNumbers, Unconnected
<1> QED BY <1>1, <1>2, <1>3

LEMMA ListenKeeps ==
  ASSUME FdInv, [FdNext]_<<vars, fdVars>>, FdListen, UNCHANGED clientVars
  PROVE  NumberInv'
<1> USE DEF LocalAt, clientVars
<1>0. /\ TypeInv /\ TableInv /\ CountInv /\ MirrorInv /\ OnceClosed
      /\ Untroubled' => Untroubled
      /\ faults' = 0 => faults = 0
      /\ faults \in Nat
  BY Context
<1>1. SetupStep("socket", "bind", "created") /\ UNCHANGED <<clientSocket, connectSocket>>
  BY DEF FdListen, ServerStep, ServerApplication, Setup, SetupStep, AcceptFails, Accept,
         CloseListen, Mode1Recv, Mode2Recv, Mode3Receive, Mode5Receive, Mode1Eof, RecvError,
         Mode1Echo, Mode2Eof, Mode2Reply, ServerSigPipe, Mode3Ends, SelectReady, SelectTimeout,
         SelectFails, Mode5Eof, Mode5Error, ServerShutdown, DtorListen, DtorClient, At
<1>2. /\ spc = "socket" /\ UNCHANGED <<sock, conn>>
      /\ \/ spc' = "bind"
         \/ spc' = "dtorListen" /\ listener' = listener /\ faults' = faults + 1
  BY <1>1 DEF SetupStep, At, ListenerBecomes, CallFails, Goto, ReturnError
<1>3. listenSocket = INVALID /\ clientSocket = INVALID
  BY <1>0, <1>2 DEF CountInv, Opening
<1>4. CASE spc' = "bind"
  <2>1. Opens("listening") /\ listenSocket' = Lowest
    BY <1>4 DEF FdListen
  <2>2. /\ Lowest \in Numbers /\ fds[Lowest] = "free" /\ Lowest # INVALID
        /\ fds' \in [Numbers -> Kinds] /\ hit' = hit
        /\ fds'[Lowest] = "listening"
        /\ \A n \in Numbers \ {Lowest} : fds'[n] = fds[n]
        /\ ClientNumbers' = ClientNumbers /\ Unconnected' = Unconnected
    BY <2>1, ServerOpens
  <2>3. TableInv'
    <3>1. ASSUME NEW n \in Numbers PROVE Owned(n)'
      <4>1. CASE n = Lowest
        BY <1>4, <2>1, <2>2, <4>1 DEF Owned, Listens
      <4>2. CASE n # Lowest
        BY <1>0, <1>1, <1>2, <1>3, <2>2, <4>2, NumberFacts DEF TableInv, Owned, Opening
      <4> QED BY <4>1, <4>2
    <3> QED BY <1>0, <1>1, <2>1, <2>2, <3>1 DEF TableInv
  <2>4. CountInv'
    BY <1>0, <1>1, <1>3, <1>4, <2>2 DEF CountInv, Opening
  <2>5. MirrorInv'
    BY <1>0, <1>1, <1>2, <1>3, <1>4, <2>1, <2>2 DEF MirrorInv, Stands, Listens, Valid
  <2>6. OnceClosed'
    BY <1>0, <1>1, <1>2, <1>3, <1>4, <2>2 DEF OnceClosed, Stands, Opening
  <2> QED BY <2>3, <2>4, <2>5, <2>6 DEF NumberInv
<1>5. CASE spc' = "dtorListen"
  <2>1. UNCHANGED fdVars
    BY <1>1, <1>5 DEF FdListen, fdVars
  <2>2. TableInv'
    <3>1. ASSUME NEW n \in Numbers PROVE Owned(n)'
      BY <1>0, <1>2, <1>5, <2>1 DEF fdVars, TableInv, Owned, Listens, Opening
    <3> QED BY <1>0, <2>1, <3>1 DEF TableInv, fdVars
  <2>3. ClientNumbers' = ClientNumbers /\ Unconnected' = Unconnected
    BY <2>1 DEF ClientNumbers, Unconnected, fdVars
  <2>4. CountInv'
    BY <1>0, <1>5, <2>1, <2>3 DEF CountInv, Opening, fdVars
  <2>5. MirrorInv'
    BY <1>0, <1>2, <1>5, <2>1 DEF MirrorInv, Stands, Listens, Valid, fdVars
  <2>6. OnceClosed'
    BY <1>0, <1>2, <1>5 DEF OnceClosed
  <2> QED BY <2>2, <2>4, <2>5, <2>6 DEF NumberInv
<1> QED BY <1>2, <1>4, <1>5

LEMMA AcceptKeeps ==
  ASSUME FdInv, [FdNext]_<<vars, fdVars>>, FdAccept, UNCHANGED clientVars
  PROVE  NumberInv'
<1> USE DEF LocalAt, clientVars
<1>0. /\ TypeInv /\ TableInv /\ CountInv /\ MirrorInv /\ OnceClosed
      /\ Untroubled' => Untroubled
      /\ faults' = 0 => faults = 0
      /\ faults \in Nat
      /\ sock \in [Endpoints -> SockStates]
  BY Context
<1>1. /\ AcceptFails \/ \E c \in Clients : Accept(c)
      /\ UNCHANGED <<listenSocket, connectSocket>> /\ spc = "accept"
  BY DEF FdAccept, ServerStep, ServerApplication, Setup, SetupStep,
         CloseListen, Mode1Recv, Mode2Recv, Mode3Receive, Mode5Receive, Mode1Eof, RecvError,
         Mode1Echo, Mode2Eof, Mode2Reply, ServerSigPipe, Mode3Ends, SelectReady, SelectTimeout,
         SelectFails, Mode5Eof, Mode5Error, ServerShutdown, DtorListen, DtorClient, At
<1>2. conn = NoClient /\ clientSocket = INVALID
  BY <1>0, <1>1, Context DEF CountInv, Opening
<1>3. ASSUME NEW c \in Clients, Accept(c) PROVE NumberInv'
  <2>0. /\ spc' = "closeListen" /\ conn' = c /\ listener' = listener
        /\ sock' = [sock EXCEPT ![Srv(c)] = "open"]
    BY <1>3 DEF Accept, AcceptCall
  <2>1. Opens("accepted") /\ clientSocket' = Lowest
    BY <1>2, <2>0, ServerAssumption DEF FdAccept
  <2>2. /\ Lowest \in Numbers /\ fds[Lowest] = "free" /\ Lowest # INVALID
        /\ fds' \in [Numbers -> Kinds] /\ hit' = hit
        /\ fds'[Lowest] = "accepted"
        /\ \A n \in Numbers \ {Lowest} : fds'[n] = fds[n]
        /\ ClientNumbers' = ClientNumbers /\ Unconnected' = Unconnected
    BY <2>1, ServerOpens
  <2>3. TableInv'
    <3>1. ASSUME NEW n \in Numbers PROVE Owned(n)'
      <4>1. CASE n = Lowest
        BY <2>0, <2>1, <2>2, <4>1 DEF Owned, Opening
      <4>2. CASE n # Lowest
        BY <1>0, <1>1, <2>0, <2>2, <4>2 DEF TableInv, Owned, Opening, Listens
      <4> QED BY <4>1, <4>2
    <3> QED BY <1>0, <1>1, <2>1, <2>2, <3>1 DEF TableInv
  <2>4. CountInv'
    BY <1>0, <1>1, <2>0, <2>2 DEF CountInv, Opening
  <2>5. ASSUME Untroubled'
        PROVE  /\ Stands(listenSocket, "listening")
               /\ sock'[Cli(LocalClient)] = "open" \/ LocalAt(Talks) =>
                     Stands(connectSocket, "connected")
    <3>1. sock'[Cli(LocalClient)] = sock[Cli(LocalClient)]
      BY <1>0, <2>0, EndpointFacts, TestBedAssumption
    <3> QED BY <1>0, <1>1, <2>5, <3>1 DEF MirrorInv, Listens
  <2>6. ASSUME NEW n, NEW kind, Stands(n, kind), kind # "free" PROVE Stands(n, kind)'
    BY <2>2, <2>6 DEF Stands
  <2>7. MirrorInv'
    <3> SUFFICES ASSUME Untroubled' PROVE MirrorInv'
      BY DEF MirrorInv
    <3>1. Stands(listenSocket, "listening")' /\ Stands(clientSocket, "accepted")'
      BY <1>1, <2>1, <2>2, <2>5, <2>6 DEF Stands
    <3>2. (sock[Cli(LocalClient)] = "open" \/ LocalAt(Talks))' => Stands(connectSocket, "connected")'
      BY <1>1, <2>5, <2>6 DEF Stands
    <3> QED BY <3>1, <3>2 DEF MirrorInv
  <2>8. OnceClosed'
    <3> SUFFICES ASSUME Untroubled', faults' = 0 PROVE OnceClosed'
      BY DEF OnceClosed
    <3>1. LocalAt({"dtor"}) => connectSocket = INVALID \/ Stands(connectSocket, "connected")
      BY <1>0, <1>1 DEF OnceClosed, Opening
    <3>2. LocalAt({"dtor"})' => connectSocket' = INVALID \/ Stands(connectSocket, "connected")'
      BY <1>1, <2>2, <3>1 DEF Stands
    <3>3. (LocalAt({"connect"}) /\ connectSocket # INVALID)' =>
             Stands(connectSocket, "unconnected")'
      <4>1. LocalAt({"connect"}) /\ connectSocket # INVALID => Stands(connectSocket, "unconnected")
        BY <1>0, <1>1 DEF OnceClosed, Opening
      <4> QED BY <1>1, <2>6, <4>1 DEF Stands
    <3> QED BY <2>0, <3>2, <3>3 DEF OnceClosed, Opening
  <2> QED BY <2>3, <2>4, <2>7, <2>8 DEF NumberInv
<1>4. CASE AcceptFails
  <2>0. /\ spc' = "dtorListen" /\ UNCHANGED <<sock, conn, listener>> /\ faults' = faults + 1
    BY <1>4 DEF AcceptFails, CallFails, ReturnError, SocketErrorSeen, FdInv
  <2>1. UNCHANGED fdVars
    BY <1>1, <2>0 DEF FdAccept, fdVars
  <2>2. TableInv'
    <3>1. ASSUME NEW n \in Numbers PROVE Owned(n)'
      BY <1>0, <1>1, <2>0, <2>1 DEF fdVars, TableInv, Owned, Listens, Opening
    <3> QED BY <1>0, <2>1, <3>1 DEF TableInv, fdVars
  <2>3. ClientNumbers' = ClientNumbers /\ Unconnected' = Unconnected
    BY <2>1 DEF ClientNumbers, Unconnected, fdVars
  <2>4. CountInv'
    BY <1>0, <2>0, <2>1, <2>3 DEF CountInv, Opening, fdVars
  <2>5. MirrorInv'
    BY <1>0, <1>1, <1>2, <2>0, <2>1 DEF MirrorInv, Stands, Listens, Valid, fdVars
  <2>6. OnceClosed'
    BY <1>0, <2>0, Context DEF OnceClosed
  <2> QED BY <2>2, <2>4, <2>5, <2>6 DEF NumberInv
<1> QED BY <1>1, <1>3, <1>4

\* What closing a number leaves of the table. Where nothing foreign is hit, the
\* sockets of the other kinds stay as they were.
LEMMA CloseLeaves ==
  ASSUME FdInv, [FdNext]_<<vars, fdVars>>, UNCHANGED <<attempt, faults>>,
         NEW n \in Numbers \cup {INVALID}, NEW kinds, CloseNumber(n, kinds)
  PROVE  /\ ClientNumbers' \subseteq ClientNumbers
         /\ Cardinality(ClientNumbers') <= attempt[LocalClient]
         /\ Cardinality(ClientNumbers) < attempt[LocalClient] =>
               Cardinality(ClientNumbers') < attempt[LocalClient]
         /\ Cardinality(Unconnected) < attempt[LocalClient] =>
               Cardinality(Unconnected') < attempt[LocalClient]
         /\ \A m \in Numbers : fds'[m] # "free" => m # n /\ fds'[m] = fds[m]
         /\ \A m, kind : /\ hit' = {} /\ kind \notin kinds \cup {"free", "unconnected"}
                         /\ Stands(m, kind)
                         => Stands(m, kind)'
         /\ \A m \in Numbers \cup {INVALID} :
               Kind(m) \in {"free", "unconnected"} => Kind(m)' \in {"free", "unconnected"}
         /\ \A m : Stands(m, "free") => Stands(m, "free")'
         /\ Kind(n)' = "free"
<1>0. /\ TypeInv /\ TableInv /\ CountInv
      /\ attempt[LocalClient] \in Nat /\ fds \in [Numbers -> Kinds]
  <2>1. NumAddrs \in Nat /\ 1..NumAddrs \subseteq Nat
    BY ClientAssumption
  <2> QED BY <2>1, Context DEF TableInv
<1>1. /\ \A m \in Numbers : fds'[m] = IF m = n THEN "free" ELSE fds[m]
      /\ hit' = {} => hit = {} /\ Kind(n) \in kinds \cup {"free", "unconnected"}
  BY <1>0, CloseFacts
<1>2. /\ ClientNumbers' \subseteq ClientNumbers /\ ClientNumbers \subseteq Numbers
      /\ Unconnected' \subseteq Unconnected /\ Unconnected \subseteq Numbers
  BY <1>1 DEF ClientNumbers, Unconnected
<1>3. /\ Cardinality(ClientNumbers') \in Nat /\ Cardinality(ClientNumbers) \in Nat
      /\ Cardinality(ClientNumbers') <= Cardinality(ClientNumbers)
      /\ Cardinality(Unconnected') \in Nat /\ Cardinality(Unconnected) \in Nat
      /\ Cardinality(Unconnected') <= Cardinality(Unconnected)
  BY <1>2, NumbersCounted
<1>4. Cardinality(ClientNumbers) <= attempt[LocalClient]
  BY <1>0 DEF CountInv
<1>5. ASSUME NEW m, NEW kind, hit' = {}, kind \notin kinds \cup {"free", "unconnected"},
             Stands(m, kind)
      PROVE  Stands(m, kind)'
  <2>1. m # n
    BY <1>1, <1>5, NumberFacts DEF Stands, Kind
  <2> QED BY <1>1, <1>5, <2>1 DEF Stands
<1>6. /\ \A m \in Numbers \cup {INVALID} :
            Kind(m) \in {"free", "unconnected"} => Kind(m)' \in {"free", "unconnected"}
      /\ \A m : Stands(m, "free") => Stands(m, "free")'
      /\ Kind(n)' = "free"
  BY <1>1, NumberFacts DEF Kind, Stands
<1>7. \A m \in Numbers : fds'[m] # "free" => m # n /\ fds'[m] = fds[m]
  BY <1>1
<1>8. /\ Cardinality(ClientNumbers') <= attempt[LocalClient]
      /\ Cardinality(ClientNumbers) < attempt[LocalClient] =>
            Cardinality(ClientNumbers') < attempt[LocalClient]
      /\ Cardinality(Unconnected) < attempt[LocalClient] =>
            Cardinality(Unconnected') < attempt[LocalClient]
  BY <1>0, <1>3, <1>4
<1> QED BY <1>2, <1>5, <1>6, <1>7, <1>8

LEMMA CloseListenKeeps ==
  ASSUME FdInv, [FdNext]_<<vars, fdVars>>, FdCloseListen \/ FdDtorListen, UNCHANGED clientVars
  PROVE  NumberInv' /\ HitNeedsFailure'
<1> USE DEF LocalAt, clientVars
<1>0. /\ TypeInv /\ TableInv /\ CountInv /\ MirrorInv /\ OnceClosed /\ HitNeedsFailure
      /\ Untroubled' => Untroubled
      /\ faults' = 0 => faults = 0
      /\ faults \in Nat
      /\ sock \in [Endpoints -> SockStates]
      /\ listenSocket \in Numbers \cup {INVALID}
      /\ listener \in ListenerStates
  BY Context DEF TableInv, FdInv, TypeInv, KernelInv, KernelTypeOK
<1>1. /\ CloseNumber(listenSocket, {"listening"}) /\ LocalClient \notin killed
      /\ UNCHANGED conn
      /\ spc \in {"closeListen", "dtorListen"}
      /\ spc' \in {"recv", "select", "shutdown", "dtorClient"}
  BY DEF FdCloseListen, FdDtorListen, At, Goto, ModeOperation
<1>2. /\ UNCHANGED <<faults, killed, listenSocket, clientSocket, connectSocket>>
      /\ fds' \in [Numbers -> Kinds] /\ hit' \subseteq Kinds
      /\ hit' = {} => hit = {} /\ Kind(listenSocket) \in {"listening", "free", "unconnected"}
      /\ Kind(listenSocket) \in {"listening", "free", "unconnected"} => hit' = hit
  BY <1>0, <1>1, CloseFacts
<1>3. /\ Cardinality(ClientNumbers') <= attempt[LocalClient]
      /\ Cardinality(ClientNumbers) < attempt[LocalClient] =>
            Cardinality(ClientNumbers') < attempt[LocalClient]
      /\ Cardinality(Unconnected) < attempt[LocalClient] =>
            Cardinality(Unconnected') < attempt[LocalClient]
      /\ \A m \in Numbers : fds'[m] # "free" => m # listenSocket /\ fds'[m] = fds[m]
      /\ \A m, kind : /\ hit' = {} /\ kind \notin {"listening", "free", "unconnected"}
                      /\ Stands(m, kind)
                      => Stands(m, kind)'
      /\ \A m : Stands(m, "free") => Stands(m, "free")'
      /\ Kind(listenSocket)' = "free"
  BY <1>0, <1>1, <1>2, CloseLeaves
<1>4. TableInv'
  <2>1. ASSUME NEW m \in Numbers PROVE Owned(m)'
    BY <1>0, <1>1, <1>2, <1>3 DEF TableInv, Owned, Opening, Listens
  <2> QED BY <1>0, <1>2, <2>1 DEF TableInv
<1>5. CountInv'
  BY <1>0, <1>1, <1>2, <1>3 DEF CountInv, Opening
<1>6. ASSUME hit' = {}
      PROVE  /\ listener' \in {"none", "closed"}
             /\ \A x \in Endpoints : sock'[x] = "open" => sock[x] = "open"
  <2>1. CloseListenerCall
    BY <1>1, <1>6, CloseImplements
  <2> QED BY <1>0, <2>1 DEF CloseListenerCall
<1>7. MirrorInv'
  <2> SUFFICES ASSUME Untroubled' PROVE MirrorInv'
    BY DEF MirrorInv
  <2>1. Untroubled /\ hit' = {}
    BY <1>0 DEF Untroubled
  <2>2. Valid(Srv(conn))' => Valid(Srv(conn))
    BY <1>1, <1>6, <2>1 DEF Valid
  <2>3. sock'[Cli(LocalClient)] = "open" => sock[Cli(LocalClient)] = "open"
    BY <1>6, <2>1, EndpointFacts, TestBedAssumption
  <2>4. (Valid(Srv(conn)) \/ (clientSocket # INVALID /\ spc # "done"))' =>
           Stands(clientSocket, "accepted")'
    BY <1>0, <1>1, <1>2, <1>3, <2>1, <2>2 DEF MirrorInv, Stands
  <2>5. (sock[Cli(LocalClient)] = "open" \/ LocalAt(Talks))' => Stands(connectSocket, "connected")'
    BY <1>0, <1>2, <1>3, <2>1, <2>3 DEF MirrorInv, Stands
  <2> QED BY <1>1, <1>6, <2>1, <2>4, <2>5 DEF MirrorInv, Listens
<1>8. OnceClosed'
  <2> SUFFICES ASSUME Untroubled', faults' = 0 PROVE OnceClosed'
    BY DEF OnceClosed
  <2>1. LocalAt({"dtor"}) => \/ connectSocket = INVALID
                             \/ Stands(connectSocket, "connected")
                             \/ Stands(connectSocket, "free")
    BY <1>0 DEF OnceClosed
  <2>2. LocalAt({"dtor"})' => \/ connectSocket' = INVALID
                              \/ Stands(connectSocket, "connected")'
                              \/ Stands(connectSocket, "free")'
    BY <1>2, <1>3, <2>1 DEF Untroubled, Stands
  <2> QED BY <1>1, <1>3, <2>2 DEF OnceClosed, Opening
<1>9. HitNeedsFailure'
  <2> SUFFICES ASSUME faults' = 0, hit' # {} PROVE FALSE
    BY <1>0, <1>2 DEF HitNeedsFailure
  <2>1. Untroubled /\ faults = 0
    BY <1>0, <1>1, <1>2 DEF HitNeedsFailure, Untroubled
  <2>2. Kind(listenSocket) \in {"listening", "free", "unconnected"}
    BY <1>0, <1>1, <2>1, NumberFacts DEF OnceClosed, MirrorInv, Stands, Listens, Kind, Opening
  <2> QED BY <1>2, <2>1, <2>2 DEF Untroubled
<1> QED BY <1>4, <1>5, <1>7, <1>8, <1>9 DEF NumberInv

LEMMA DtorClientKeeps ==
  ASSUME FdInv, [FdNext]_<<vars, fdVars>>, FdDtorClient, UNCHANGED clientVars
  PROVE  NumberInv' /\ HitNeedsFailure'
<1> USE DEF LocalAt, clientVars
<1>0. /\ TypeInv /\ TableInv /\ CountInv /\ MirrorInv /\ OnceClosed /\ HitNeedsFailure
      /\ Untroubled' => Untroubled
      /\ faults' = 0 => faults = 0
      /\ faults \in Nat
      /\ sock \in [Endpoints -> SockStates]
      /\ listenSocket \in Numbers \cup {INVALID} /\ clientSocket \in Numbers \cup {INVALID}
  BY Context DEF TableInv, FdInv
<1>1. /\ CloseNumber(clientSocket, {"accepted"}) /\ LocalClient \notin killed
      /\ UNCHANGED conn /\ spc = "dtorClient" /\ spc' = "done"
  BY DEF FdDtorClient, At, Goto
<1>2. /\ UNCHANGED <<faults, killed, listenSocket, clientSocket, connectSocket>>
      /\ fds' \in [Numbers -> Kinds] /\ hit' \subseteq Kinds
      /\ hit' = {} => hit = {} /\ Kind(clientSocket) \in {"accepted", "free", "unconnected"}
      /\ Kind(clientSocket) \in {"accepted", "free", "unconnected"} => hit' = hit
  BY <1>0, <1>1, CloseFacts
<1>3. /\ Cardinality(ClientNumbers') <= attempt[LocalClient]
      /\ Cardinality(ClientNumbers) < attempt[LocalClient] =>
            Cardinality(ClientNumbers') < attempt[LocalClient]
      /\ Cardinality(Unconnected) < attempt[LocalClient] =>
            Cardinality(Unconnected') < attempt[LocalClient]
      /\ \A m \in Numbers : fds'[m] # "free" => m # clientSocket /\ fds'[m] = fds[m]
      /\ \A m, kind : /\ hit' = {} /\ kind \notin {"accepted", "free", "unconnected"}
                      /\ Stands(m, kind)
                      => Stands(m, kind)'
      /\ \A m \in Numbers \cup {INVALID} :
               Kind(m) \in {"free", "unconnected"} => Kind(m)' \in {"free", "unconnected"}
      /\ \A m : Stands(m, "free") => Stands(m, "free")'
  <2>1. UNCHANGED <<attempt, faults>> /\ {"accepted"} \cup {"free", "unconnected"}
                                           = {"accepted", "free", "unconnected"}
    BY <1>2
  <2> QED BY <1>0, <1>1, <2>1, CloseLeaves
<1>4. TableInv'
  <2>1. ASSUME NEW m \in Numbers PROVE Owned(m)'
    BY <1>0, <1>1, <1>2, <1>3 DEF TableInv, Owned, Opening, Listens
  <2> QED BY <1>0, <1>2, <2>1 DEF TableInv
<1>5. CountInv'
  BY <1>0, <1>1, <1>2, <1>3 DEF CountInv, Opening
<1>6. ASSUME hit' = {}
      PROVE  /\ listener' = listener /\ ~Valid(Srv(conn))'
             /\ sock'[Cli(LocalClient)] = sock[Cli(LocalClient)]
  <2>1. CloseCall(Srv(conn))
    BY <1>1, <1>6, CloseImplements
  <2>2. Cli(LocalClient) \in Endpoints /\ Srv(conn) # Cli(LocalClient) /\ Srv(conn)' = Srv(conn)
    BY <1>1, EndpointFacts, TestBedAssumption DEF Srv
  <2>3. CASE CloseOpen(Srv(conn))
    BY <1>0, <2>2, <2>3 DEF CloseOpen, Valid
  <2>4. CASE InvalidCall(Srv(conn))
    BY <1>0, <2>2, <2>4 DEF InvalidCall, Valid, kernelVars
  <2> QED BY <2>1, <2>3, <2>4 DEF CloseCall
<1>7. MirrorInv'
  <2> SUFFICES ASSUME Untroubled' PROVE MirrorInv'
    BY DEF MirrorInv
  <2>1. Untroubled /\ hit' = {}
    BY <1>0 DEF Untroubled
  <2>2. (listener \notin {"none", "closed"})' => Stands(listenSocket, "listening")'
    BY <1>0, <1>2, <1>3, <1>6, <2>1 DEF MirrorInv, Stands
  <2>3. (sock[Cli(LocalClient)] = "open" \/ LocalAt(Talks))' => Stands(connectSocket, "connected")'
    BY <1>0, <1>2, <1>3, <1>6, <2>1 DEF MirrorInv, Stands
  <2> QED BY <1>1, <1>6, <2>1, <2>2, <2>3 DEF MirrorInv, Listens
<1>8. OnceClosed'
  <2> SUFFICES ASSUME Untroubled', faults' = 0 PROVE OnceClosed'
    BY DEF OnceClosed
  <2>1. /\ Kind(listenSocket) \in {"free", "unconnected"}
        /\ LocalAt({"dtor"}) => \/ connectSocket = INVALID
                                \/ Stands(connectSocket, "connected")
                                \/ Stands(connectSocket, "free")
    BY <1>0, <1>1 DEF OnceClosed, Opening
  <2>2. LocalAt({"dtor"})' => \/ connectSocket' = INVALID
                              \/ Stands(connectSocket, "connected")'
                              \/ Stands(connectSocket, "free")'
    BY <1>2, <1>3, <2>1 DEF Untroubled, Stands
  <2>3. Kind(listenSocket)' \in {"free", "unconnected"}
    BY <1>0, <1>2, <1>3, <2>1 DEF Kind
  <2> QED BY <1>1, <2>2, <2>3 DEF OnceClosed, Opening
<1>9. HitNeedsFailure'
  <2> SUFFICES ASSUME faults' = 0, hit' # {} PROVE FALSE
    BY <1>0, <1>2 DEF HitNeedsFailure
  <2>1. Untroubled /\ faults = 0
    BY <1>0, <1>1, <1>2 DEF HitNeedsFailure, Untroubled
  <2>2. Kind(clientSocket) \in {"accepted", "free", "unconnected"}
    BY <1>0, <1>1, <2>1, NumberFacts DEF MirrorInv, Stands, Kind
  <2> QED BY <1>2, <2>1, <2>2 DEF Untroubled
<1> QED BY <1>4, <1>5, <1>7, <1>8, <1>9 DEF NumberInv

-------------------------------------------------------------------------------
(* Steps of the local client's thread. *)

\* A client that is read from before the accept has nothing to be told.
LEMMA NothingToTell ==
  ASSUME FdInv, hit = {}, sock[Cli(LocalClient)] = "open", sock[Srv(LocalClient)] = "queued",
         RecvEof(Cli(LocalClient)) \/ RecvFails(Cli(LocalClient))
  PROVE  faults' = faults + 1
<1>1. Clean(LocalClient) /\ LocalClient \in Clients
  BY TestBedAssumption DEF FdInv, EndsInv, QueueInv
<1>2. Cli(LocalClient) \in Endpoints /\ Peer(Cli(LocalClient)) = Srv(LocalClient)
  BY <1>1, EndpointFacts
<1> QED BY <1>1, <1>2 DEF Clean, RecvEof, RecvFails, AtEnd, InvalidCall, Valid, CallFails

LEMMA ClientQuiet ==
  ASSUME FdInv, [FdNext]_<<vars, fdVars>>, ClientStep(LocalClient),
         UNCHANGED fdVars, UNCHANGED serverVars, ~LocalAt({"connect", "close", "dtor"})
  PROVE  NumberInv'
<1> USE DEF LocalAt, serverVars, fdVars
<1>0. /\ TypeInv /\ TableInv /\ CountInv /\ MirrorInv /\ OnceClosed
      /\ Untroubled' => Untroubled
      /\ faults' = 0 => faults = 0
      /\ faults \in Nat
      /\ LocalClient \in Clients
      /\ cpc[LocalClient] \in ClientPcs /\ cfg[LocalClient].build = "unix"
  BY Context DEF FdInv
<1>1. /\ UNCHANGED <<sock, listener, backlog, attempt>>
      /\ \/ LocalAt({"start"}) /\ LocalAt({"done", "resolve"})'
         \/ LocalAt({"resolve"}) /\ LocalAt({"connect"})'
         \/ LocalAt({"resolve"}) /\ LocalAt({"dtor"})' /\ verdict'[LocalClient] = "unable"
         \/ LocalAt({"send", "shutdown", "recv"}) /\ LocalAt({"send", "shutdown", "recv", "dtor"})'
         \/ /\ LocalAt({"recv"}) /\ LocalAt({"close"})'
            /\ RecvEof(Cli(LocalClient)) \/ RecvFails(Cli(LocalClient))
  BY <1>0, ClientGoesOn
<1>2. TableInv'
  <2>1. ASSUME NEW n \in Numbers PROVE Owned(n)'
    BY <1>0, <1>1 DEF TableInv, Owned, Fresh
  <2> QED BY <1>0, <2>1 DEF TableInv
<1>3. CountInv'
  <2>1. ClientNumbers' = ClientNumbers /\ Unconnected' = Unconnected
    BY DEF ClientNumbers, Unconnected
  <2>2. /\ Cardinality(Unconnected) \in Nat /\ Cardinality(ClientNumbers) \in Nat
        /\ Cardinality(Unconnected) <= Cardinality(ClientNumbers)
    <3>1. Unconnected \subseteq ClientNumbers /\ ClientNumbers \subseteq Numbers
      BY DEF Unconnected, ClientNumbers
    <3> QED BY <3>1, NumbersCounted
  <2>3. attempt[LocalClient] \in Nat
    BY Context, ClientAssumption
  <2>4. (LocalAt({"start"}) /\ LocalAt({"done"})') =>
           Cardinality(Unconnected') < attempt'[LocalClient]
    BY <1>0, <1>1, <2>1, <2>2, <2>3 DEF CountInv, Fresh
  <2> QED BY <1>0, <1>1, <2>1, <2>4 DEF CountInv, Fresh, Talks
<1>4. MirrorInv'
  BY <1>0, <1>1 DEF MirrorInv, Stands, Valid, Talks
<1>5. OnceClosed'
  <2> SUFFICES ASSUME Untroubled', faults' = 0 PROVE OnceClosed'
    BY DEF OnceClosed
  <2>1. Kind(listenSocket)' = Kind(listenSocket)
    BY DEF Kind
  <2>2. LocalAt({"resolve"}) => connectSocket = INVALID
    BY <1>0 DEF CountInv
  <2>3. LocalAt(Talks) => Stands(connectSocket, "connected")
    BY <1>0 DEF MirrorInv
  <2>4. LocalAt({"close"})' => spc \notin Opening
    <3> SUFFICES ASSUME LocalAt({"close"})', spc \in Opening PROVE FALSE
      OBVIOUS
    <3>1. LocalAt({"recv"}) /\ (RecvEof(Cli(LocalClient)) \/ RecvFails(Cli(LocalClient)))
      BY <1>1
    <3>2. sock[Cli(LocalClient)] = "open" /\ sock[Srv(LocalClient)] = "queued" /\ hit = {}
      BY <1>0, <3>1 DEF OnceClosed, Talks, Untroubled
    <3> QED BY <1>0, <3>1, <3>2, NothingToTell
  <2> QED BY <1>0, <1>1, <2>1, <2>2, <2>3, <2>4 DEF OnceClosed, Stands, Talks
<1> QED BY <1>2, <1>3, <1>4, <1>5 DEF NumberInv

LEMMA SocketKeeps ==
  ASSUME FdInv, [FdNext]_<<vars, fdVars>>, FdSocket, UNCHANGED serverVars
  PROVE  NumberInv'
<1> USE DEF LocalAt, serverVars
<1>0. /\ TypeInv /\ TableInv /\ CountInv /\ MirrorInv /\ OnceClosed
      /\ Untroubled' => Untroubled
      /\ faults' = 0 => faults = 0
      /\ faults \in Nat
      /\ LocalClient \in Clients
      /\ verdict \in [Clients -> Verdicts] /\ cpc \in [Clients -> ClientPcs]
  BY Context DEF TypeInv, ClientInv, ClientTypeOK
<1>1. /\ LocalAt({"connect"}) /\ connectSocket = INVALID
      /\ UNCHANGED <<listenSocket, clientSocket>>
  BY DEF FdSocket, ClientAt
<1>2. CASE Opens("unconnected") /\ connectSocket' = Lowest /\ UNCHANGED <<clientVars, kernelVars>>
  <2> USE DEF clientVars, kernelVars
  <2>1. /\ Lowest \in Numbers /\ fds[Lowest] = "free" /\ Lowest # INVALID
        /\ fds \in [Numbers -> Kinds]
    BY <1>0, LowestFree, NumberFacts DEF TableInv
  <2>2. /\ fds' \in [Numbers -> Kinds] /\ hit' = hit
        /\ fds'[Lowest] = "unconnected"
        /\ \A n \in Numbers \ {Lowest} : fds'[n] = fds[n]
    BY <1>2, <2>1 DEF Opens, Kinds
  <2>3. TableInv'
    <3>1. ASSUME NEW n \in Numbers PROVE Owned(n)'
      <4>1. CASE n = Lowest
        BY <1>1, <1>2, <2>2, <4>1 DEF Owned
      <4>2. CASE n # Lowest
        BY <1>0, <1>1, <1>2, <2>2, <4>2, NumberFacts DEF TableInv, Owned, Fresh
      <4> QED BY <4>1, <4>2
    <3> QED BY <1>0, <1>1, <1>2, <2>1, <2>2, <3>1 DEF TableInv
  <2>4. CountInv'
    <3>1. ClientNumbers' = ClientNumbers \cup {Lowest}
      BY <2>1, <2>2 DEF ClientNumbers
    <3>2. IsFiniteSet(ClientNumbers) /\ Cardinality(ClientNumbers) \in Nat
      BY NumberFacts, FS_Subset, FS_CardinalityType DEF ClientNumbers
    <3>3. /\ Cardinality(ClientNumbers') \in Nat
          /\ Cardinality(ClientNumbers') <= Cardinality(ClientNumbers) + 1
      BY <3>1, <3>2, OneMore
    <3>4. Cardinality(ClientNumbers) < attempt[LocalClient] /\ attempt[LocalClient] \in Nat
      <4>1. attempt[LocalClient] \in 1..NumAddrs /\ NumAddrs \in Nat
        BY Context, ClientAssumption
      <4> QED BY <1>0, <1>1, <4>1 DEF CountInv, Fresh
    <3>5. Cardinality(ClientNumbers') <= attempt[LocalClient]
      BY <3>2, <3>3, <3>4
    <3> QED BY <1>0, <1>1, <1>2, <2>1, <3>5 DEF CountInv, Talks
  <2>5. ASSUME NEW n, NEW kind, Stands(n, kind), kind # "free" PROVE Stands(n, kind)'
    BY <2>1, <2>2, <2>5 DEF Stands
  <2>6. MirrorInv'
    <3> SUFFICES ASSUME Untroubled' PROVE MirrorInv'
      BY DEF MirrorInv
    <3>1. /\ (listener \notin {"none", "closed"} \/ spc \in Listens \ {"dtorListen"}) =>
                Stands(listenSocket, "listening")
          /\ Valid(Srv(conn)) \/ (clientSocket # INVALID /\ spc # "done") =>
                Stands(clientSocket, "accepted")
          /\ sock[Cli(LocalClient)] # "open" /\ ~LocalAt(Talks)
      BY <1>0, <1>1, NumberFacts DEF MirrorInv, Stands, Talks
    <3> QED BY <1>1, <1>2, <2>5, <3>1 DEF MirrorInv, Valid, Stands
  <2>7. OnceClosed'
    <3> SUFFICES ASSUME Untroubled', faults' = 0 PROVE OnceClosed'
      BY DEF OnceClosed
    <3>1. Kind(listenSocket) \in {"free", "unconnected"} =>
             Kind(listenSocket)' \in {"free", "unconnected"}
      BY <1>0, <1>1, <2>1, <2>2 DEF Kind, TableInv
    <3>2. Stands(connectSocket, "unconnected")'
      BY <1>2, <2>1, <2>2 DEF Stands
    <3> QED BY <1>0, <1>1, <1>2, <3>1, <3>2 DEF OnceClosed, Talks
  <2> QED BY <2>3, <2>4, <2>6, <2>7 DEF NumberInv
<1>3. CASE SetupSocketFails(LocalClient) /\ UNCHANGED <<fds, hit, connectSocket>>
  <2>1. /\ UNCHANGED <<sock, listener, attempt>> /\ faults' = faults + 1
        /\ LocalAt({"dtor"})' /\ verdict'[LocalClient] = "unable"
    BY <1>0, <1>3 DEF SetupSocketFails, CallFails, ClientReturn
  <2>2. TableInv'
    <3>1. ASSUME NEW n \in Numbers PROVE Owned(n)'
      BY <1>0, <1>1, <1>3, <2>1 DEF TableInv, Owned, Fresh
    <3> QED BY <1>0, <1>1, <1>3, <3>1 DEF TableInv
  <2>3. CountInv'
    <3>1. ClientNumbers' = ClientNumbers /\ Unconnected' = Unconnected
      BY <1>3 DEF ClientNumbers, Unconnected
    <3> QED BY <1>0, <1>1, <1>3, <2>1, <3>1 DEF CountInv, Fresh, Talks
  <2>4. MirrorInv'
    BY <1>0, <1>1, <1>3, <2>1 DEF MirrorInv, Stands, Valid, Talks
  <2>5. OnceClosed'
    BY <1>0, <2>1 DEF OnceClosed
  <2> QED BY <2>2, <2>3, <2>4, <2>5 DEF NumberInv
<1> QED BY <1>2, <1>3 DEF FdSocket

LEMMA ConnectKeeps ==
  ASSUME FdInv, [FdNext]_<<vars, fdVars>>, FdConnect, UNCHANGED serverVars
  PROVE  NumberInv'
<1> USE DEF LocalAt, serverVars
<1>0. /\ TypeInv /\ TableInv /\ CountInv /\ MirrorInv /\ OnceClosed
      /\ Untroubled' => Untroubled
      /\ faults' = 0 => faults = 0
      /\ faults \in Nat
      /\ LocalClient \in Clients
      /\ sock \in [Endpoints -> SockStates] /\ cpc \in [Clients -> ClientPcs]
      /\ fds \in [Numbers -> Kinds]
      /\ listenSocket \in Numbers \cup {INVALID} /\ connectSocket \in Numbers \cup {INVALID}
  BY Context DEF TypeInv, ClientInv, ClientTypeOK, TableInv
<1>1. /\ Kind(connectSocket) = "unconnected" /\ SetupConnect(LocalClient)
      /\ fds' = [fds EXCEPT ![connectSocket] = "connected"]
      /\ UNCHANGED <<listenSocket, clientSocket, connectSocket, hit>>
  BY DEF FdConnect
<1>2. /\ connectSocket \in Numbers /\ fds[connectSocket] = "unconnected"
      /\ fds' \in [Numbers -> Kinds]
      /\ fds'[connectSocket] = "connected"
      /\ \A n \in Numbers \ {connectSocket} : fds'[n] = fds[n]
  BY <1>0, <1>1 DEF Kind, Kinds
<1>3. /\ LocalAt({"connect"}) /\ listener = "listening"
      /\ LocalAt({"send", "shutdown", "dtor"})'
      /\ sock' = [sock EXCEPT ![Cli(LocalClient)] = "open", ![Srv(LocalClient)] = "queued"]
      /\ UNCHANGED <<attempt, verdict, faults, listener>>
  BY <1>0, <1>1 DEF SetupConnect, ConnectCall, ClientAt, ClientGoto, FirstStep
<1>4. /\ Cli(LocalClient) \in Endpoints /\ Srv(LocalClient) \in Endpoints
      /\ Cli(LocalClient) # Srv(LocalClient) /\ Srv(conn) # Cli(LocalClient)
      /\ Srv(conn)' = Srv(conn)
  BY <1>0, EndpointFacts DEF Srv
<1>5. TableInv'
  <2>1. ASSUME NEW n \in Numbers PROVE Owned(n)'
    <3>1. CASE n = connectSocket
      BY <1>1, <1>2, <1>3, <3>1 DEF Owned, Fresh
    <3>2. CASE n # connectSocket
      BY <1>0, <1>1, <1>2, <1>3, <3>2 DEF TableInv, Owned, Fresh
    <3> QED BY <3>1, <3>2
  <2> QED BY <1>0, <1>1, <1>2, <2>1 DEF TableInv
<1>6. CountInv'
  <2>1. ClientNumbers' = ClientNumbers
    BY <1>2 DEF ClientNumbers
  <2>2. Unconnected' \cup {connectSocket} \subseteq ClientNumbers /\ connectSocket \notin Unconnected'
    BY <1>2 DEF ClientNumbers, Unconnected
  <2>3. Cardinality(Unconnected') < Cardinality(ClientNumbers)
    <3>1. /\ ClientNumbers \subseteq Numbers /\ Unconnected' \subseteq Numbers
          /\ IsFiniteSet(Unconnected')
      BY NumberFacts, FS_Subset DEF ClientNumbers, Unconnected
    <3>2. Cardinality(Unconnected' \cup {connectSocket}) = Cardinality(Unconnected') + 1
      BY <2>2, <3>1, FS_AddElement
    <3> QED BY <2>2, <3>1, <3>2, NumbersCounted
  <2>4. Cardinality(ClientNumbers) <= attempt[LocalClient]
    BY <1>0 DEF CountInv
  <2>5. /\ Cardinality(Unconnected') \in Nat /\ Cardinality(ClientNumbers) \in Nat
        /\ attempt[LocalClient] \in Nat
    <3>1. Unconnected' \subseteq Numbers /\ ClientNumbers \subseteq Numbers
      BY DEF ClientNumbers, Unconnected
    <3>2. attempt[LocalClient] \in 1..NumAddrs /\ NumAddrs \in Nat
      BY Context, ClientAssumption
    <3>3. attempt[LocalClient] \in Nat
      BY <3>2
    <3> QED BY <3>1, <3>3, NumbersCounted
  <2>6. Cardinality(Unconnected') < attempt[LocalClient]
    BY <2>3, <2>4, <2>5
  <2> QED BY <1>0, <1>1, <1>3, <2>1, <2>6 DEF CountInv, Fresh
<1>7. ASSUME NEW n, NEW kind, Stands(n, kind), kind # "unconnected" PROVE Stands(n, kind)'
  BY <1>2, <1>7 DEF Stands
<1>8. sock'[Cli(LocalClient)] = "open" /\ sock'[Srv(LocalClient)] = "queued"
  BY <1>0, <1>3, <1>4
<1>9. Stands(connectSocket, "connected")'
  BY <1>1, <1>2 DEF Stands
<1>10. MirrorInv'
  <2> SUFFICES ASSUME Untroubled' PROVE MirrorInv'
    BY DEF MirrorInv
  <2>1. Valid(Srv(conn))' => Valid(Srv(conn))
    BY <1>0, <1>3, <1>4 DEF Valid
  <2>2. /\ Stands(listenSocket, "listening")
        /\ Valid(Srv(conn)) \/ (clientSocket # INVALID /\ spc # "done") =>
              Stands(clientSocket, "accepted")
    BY <1>0, <1>3 DEF MirrorInv
  <2>3. /\ Stands(listenSocket, "listening")'
        /\ (Valid(Srv(conn)) \/ (clientSocket # INVALID /\ spc # "done"))' =>
              Stands(clientSocket, "accepted")'
    BY <1>1, <1>7, <2>1, <2>2 DEF Stands
  <2> QED BY <1>9, <2>3 DEF MirrorInv
<1>11. OnceClosed'
  <2> SUFFICES ASSUME Untroubled', faults' = 0 PROVE OnceClosed'
    BY DEF OnceClosed
  <2>1. spc \in Opening \cup {"closeListen"}
    <3>1. Stands(listenSocket, "listening")
      BY <1>0, <1>3 DEF MirrorInv
    <3>2. Kind(listenSocket) = "listening"
      BY <3>1, NumberFacts DEF Stands, Kind
    <3> QED BY <1>0, <3>2 DEF OnceClosed
  <2> QED BY <1>3, <1>8, <1>9, <2>1 DEF OnceClosed
<1> QED BY <1>5, <1>6, <1>10, <1>11 DEF NumberInv

LEMMA RefusedKeeps ==
  ASSUME FdInv, [FdNext]_<<vars, fdVars>>, FdRefused, UNCHANGED serverVars
  PROVE  NumberInv'
<1> USE DEF LocalAt, serverVars
<1>0. /\ TypeInv /\ TableInv /\ CountInv /\ MirrorInv /\ OnceClosed
      /\ Untroubled' => Untroubled
      /\ faults' = 0 => faults = 0
      /\ faults \in Nat
      /\ LocalClient \in Clients /\ SocketErrorSeen
      /\ verdict \in [Clients -> Verdicts] /\ cpc \in [Clients -> ClientPcs]
      /\ attempt \in [Clients -> 1..NumAddrs] /\ NumAddrs \in Nat
  BY Context, ClientAssumption DEF TypeInv, ClientInv, ClientTypeOK, FdInv, SocketErrorSeen
<1>1. /\ LocalAt({"connect"}) /\ connectSocket' = INVALID
      /\ UNCHANGED <<sock, listener, fds, listenSocket, clientSocket, hit>>
      /\ \/ attempt' = [attempt EXCEPT ![LocalClient] = @ + 1] /\ UNCHANGED <<cpc, verdict>>
         \/ /\ UNCHANGED attempt
            /\ LocalAt({"dtor"})' /\ verdict'[LocalClient] = "unable"
  BY <1>0 DEF FdRefused, SetupRefused, NotConnected, ClientReturn, CallFails, ClientAt, kernelVars
<1>2. /\ attempt[LocalClient] \in Nat /\ attempt[LocalClient] >= 1
      /\ \/ LocalAt({"connect"})' /\ attempt'[LocalClient] = attempt[LocalClient] + 1
         \/ /\ LocalAt({"dtor"})' /\ verdict'[LocalClient] = "unable"
            /\ attempt'[LocalClient] = attempt[LocalClient]
  BY <1>0, <1>1
<1>3. \A n \in Numbers : fds[n] # "connected"
  BY <1>0, <1>1 DEF TableInv, Owned, Fresh
<1>4. TableInv'
  <2>1. ASSUME NEW n \in Numbers PROVE Owned(n)'
    BY <1>0, <1>1, <1>2, <1>3 DEF TableInv, Owned
  <2> QED BY <1>0, <1>1, <2>1 DEF TableInv
<1>5. CountInv'
  <2>1. ClientNumbers' = ClientNumbers /\ Cardinality(ClientNumbers) \in Nat
    BY <1>1, NumberFacts, FS_Subset, FS_CardinalityType DEF ClientNumbers
  <2>2. Cardinality(ClientNumbers) <= attempt[LocalClient]
    BY <1>0 DEF CountInv
  <2> QED BY <1>0, <1>1, <1>2, <2>1, <2>2 DEF CountInv, Fresh, Talks
<1>6. MirrorInv'
  BY <1>0, <1>1, <1>2, <1>3 DEF MirrorInv, Stands, Valid, Talks
<1>7. OnceClosed'
  <2> SUFFICES ASSUME Untroubled', faults' = 0 PROVE OnceClosed'
    BY DEF OnceClosed
  <2>1. Kind(listenSocket)' = Kind(listenSocket)
    BY <1>1 DEF Kind
  <2> QED BY <1>0, <1>1, <1>2, <2>1 DEF OnceClosed, Talks
<1> QED BY <1>4, <1>5, <1>6, <1>7 DEF NumberInv

LEMMA ClientCloseKeeps ==
  ASSUME FdInv, [FdNext]_<<vars, fdVars>>, FdClientClose, UNCHANGED serverVars
  PROVE  NumberInv' /\ HitNeedsFailure'
<1> USE DEF LocalAt, serverVars
<1>0. /\ TypeInv /\ TableInv /\ CountInv /\ MirrorInv /\ OnceClosed /\ HitNeedsFailure
      /\ Untroubled' => Untroubled
      /\ faults' = 0 => faults = 0
      /\ faults \in Nat
      /\ LocalClient \in Clients /\ cpc \in [Clients -> ClientPcs]
      /\ sock \in [Endpoints -> SockStates]
      /\ listenSocket \in Numbers \cup {INVALID} /\ connectSocket \in Numbers \cup {INVALID}
  BY Context DEF TableInv, FdInv, TypeInv, ClientInv, ClientTypeOK
<1>1. /\ CloseNumber(connectSocket, {"connected"}) /\ LocalClient \notin killed
      /\ UNCHANGED <<attempt, verdict>>
      /\ \/ LocalAt({"close"}) /\ LocalAt({"dtor"})'
         \/ LocalAt({"dtor"}) /\ LocalAt({"done"})'
  BY <1>0 DEF FdClientClose, ClientAt, ClientGoto
<1>2. /\ UNCHANGED <<faults, killed, listenSocket, clientSocket, connectSocket>>
      /\ fds' \in [Numbers -> Kinds] /\ hit' \subseteq Kinds
      /\ hit' = {} => hit = {} /\ Kind(connectSocket) \in {"connected", "free", "unconnected"}
      /\ Kind(connectSocket) \in {"connected", "free", "unconnected"} => hit' = hit
  <2>1. /\ TypeInv /\ TableInv /\ connectSocket \in Numbers \cup {INVALID}
        /\ CloseNumber(connectSocket, {"connected"})
    BY <1>0, <1>1
  <2> QED BY <2>1, CloseFacts
<1>3. /\ Cardinality(ClientNumbers') <= attempt[LocalClient]
      /\ Cardinality(Unconnected) < attempt[LocalClient] =>
            Cardinality(Unconnected') < attempt[LocalClient]
      /\ \A m \in Numbers : fds'[m] # "free" => m # connectSocket /\ fds'[m] = fds[m]
      /\ \A m, kind : /\ hit' = {} /\ kind \notin {"connected", "free", "unconnected"}
                      /\ Stands(m, kind)
                      => Stands(m, kind)'
      /\ \A m \in Numbers \cup {INVALID} :
               Kind(m) \in {"free", "unconnected"} => Kind(m)' \in {"free", "unconnected"}
      /\ Kind(connectSocket)' = "free"
  <2>1. /\ UNCHANGED <<attempt, faults>> /\ connectSocket \in Numbers \cup {INVALID}
        /\ CloseNumber(connectSocket, {"connected"})
    BY <1>0, <1>1, <1>2
  <2>2. /\ Cardinality(ClientNumbers') <= attempt[LocalClient]
        /\ Cardinality(Unconnected) < attempt[LocalClient] =>
              Cardinality(Unconnected') < attempt[LocalClient]
        /\ \A m \in Numbers : fds'[m] # "free" => m # connectSocket /\ fds'[m] = fds[m]
        /\ \A m, kind : /\ hit' = {} /\ kind \notin {"connected"} \cup {"free", "unconnected"}
                        /\ Stands(m, kind)
                        => Stands(m, kind)'
        /\ \A m \in Numbers \cup {INVALID} :
                 Kind(m) \in {"free", "unconnected"} => Kind(m)' \in {"free", "unconnected"}
        /\ Kind(connectSocket)' = "free"
    BY <1>2, <2>1, CloseLeaves
  <2>3. {"connected"} \cup {"free", "unconnected"} = {"connected", "free", "unconnected"}
    OBVIOUS
  <2> QED BY <2>2, <2>3
<1>4. TableInv'
  <2>1. ASSUME NEW m \in Numbers PROVE Owned(m)'
    BY <1>0, <1>1, <1>2, <1>3 DEF TableInv, Owned
  <2> QED BY <1>0, <1>2, <2>1 DEF TableInv
<1>5. CountInv'
  BY <1>0, <1>1, <1>2, <1>3 DEF CountInv, Fresh, Talks
<1>6. ASSUME hit' = {}
      PROVE  /\ listener' = listener /\ sock'[Cli(LocalClient)] # "open"
             /\ sock'[Srv(conn)] = sock[Srv(conn)] /\ Srv(conn)' = Srv(conn)
  <2>1. CloseCall(Cli(LocalClient))
    BY <1>1, <1>6, CloseImplements
  <2>2. Cli(LocalClient) \in Endpoints /\ Srv(conn) # Cli(LocalClient) /\ Srv(conn)' = Srv(conn)
    BY <1>0, EndpointFacts DEF Srv
  <2>3. CASE CloseOpen(Cli(LocalClient))
    BY <1>0, <2>2, <2>3 DEF CloseOpen, Valid
  <2>4. CASE InvalidCall(Cli(LocalClient))
    BY <1>0, <2>2, <2>4 DEF InvalidCall, Valid, kernelVars
  <2> QED BY <2>1, <2>3, <2>4 DEF CloseCall
<1>7. MirrorInv'
  <2> SUFFICES ASSUME Untroubled' PROVE MirrorInv'
    BY DEF MirrorInv
  <2>1. Untroubled /\ hit' = {}
    BY <1>0 DEF Untroubled
  <2>2. ((listener \notin {"none", "closed"}) \/ spc \in Listens \ {"dtorListen"})' =>
           Stands(listenSocket, "listening")'
    BY <1>0, <1>2, <1>3, <1>6, <2>1 DEF MirrorInv, Stands
  <2>3. (Valid(Srv(conn)) \/ (clientSocket # INVALID /\ spc # "done"))' =>
           Stands(clientSocket, "accepted")'
    BY <1>0, <1>2, <1>3, <1>6, <2>1 DEF MirrorInv, Stands, Valid
  <2> QED BY <1>1, <1>6, <2>1, <2>2, <2>3 DEF MirrorInv, Talks
<1>8. OnceClosed'
  <2> SUFFICES ASSUME Untroubled', faults' = 0 PROVE OnceClosed'
    BY DEF OnceClosed
  <2>1. LocalAt({"close"}) => spc \notin Opening
    BY <1>0 DEF OnceClosed
  <2>2. Kind(listenSocket) \in {"free", "unconnected"} =>
           Kind(listenSocket)' \in {"free", "unconnected"}
    BY <1>0, <1>2, <1>3
  <2>3. connectSocket' = INVALID \/ Stands(connectSocket, "free")'
    BY <1>0, <1>2, <1>3, NumberFacts DEF Stands, Kind
  <2> QED BY <1>0, <1>1, <2>1, <2>2, <2>3 DEF OnceClosed, Talks
<1>9. HitNeedsFailure'
  <2> SUFFICES ASSUME faults' = 0, hit' # {} PROVE FALSE
    BY <1>0, <1>2 DEF HitNeedsFailure
  <2>1. Untroubled /\ faults = 0
    BY <1>0, <1>1, <1>2 DEF HitNeedsFailure, Untroubled
  <2>2. Kind(connectSocket) \in {"connected", "free", "unconnected"}
    BY <1>0, <1>1, <2>1, NumberFacts DEF OnceClosed, MirrorInv, Stands, Talks, Kind
  <2> QED BY <1>2, <2>1, <2>2 DEF Untroubled
<1> QED BY <1>4, <1>5, <1>7, <1>8, <1>9 DEF NumberInv

-------------------------------------------------------------------------------
(* The steps of everybody else. *)

LEMMA ReapKeeps ==
  ASSUME FdInv, [FdNext]_<<vars, fdVars>>, FdReap
  PROVE  NumberInv'
<1>0. /\ TypeInv /\ TableInv /\ CountInv /\ attempt[LocalClient] \in Nat
      /\ attempt[LocalClient] > 0 /\ killed \subseteq killed'
  <2>1. NumAddrs \in Nat /\ \A a \in 1..NumAddrs : a \in Nat /\ a > 0
    BY ClientAssumption
  <2> QED BY <2>1, Context, FdStepKeeps
<1>1. /\ LocalClient \in killed' /\ fds' = [n \in Numbers |-> "free"]
      /\ UNCHANGED <<serverVars, clientVars, listenSocket, clientSocket, connectSocket, hit>>
  BY <1>0 DEF FdReap, Reap
<1>2. TableInv'
  <2>1. ASSUME NEW n \in Numbers PROVE Owned(n)'
    BY <1>1 DEF Owned
  <2> QED BY <1>0, <1>1, <2>1 DEF TableInv, Kinds
<1>3. CountInv'
  <2>1. ClientNumbers' = {} /\ Unconnected' = {}
    BY <1>1 DEF ClientNumbers, Unconnected
  <2>2. Cardinality(ClientNumbers') = 0 /\ Cardinality(Unconnected') = 0
    BY <2>1, FS_EmptySet
  <2>3. UNCHANGED <<spc, cpc, attempt>>
    BY <1>1 DEF serverVars, clientVars
  <2> QED BY <1>0, <1>1, <2>2, <2>3 DEF CountInv, LocalAt
<1> QED BY <1>1, <1>2, <1>3 DEF NumberInv, MirrorInv, OnceClosed, Untroubled

LEMMA ElsewhereKeeps ==
  ASSUME FdInv, [FdNext]_<<vars, fdVars>>, Elsewhere \/ UNCHANGED <<vars, fdVars>>
  PROVE  NumberInv'
<1> USE DEF LocalAt, fdVars
<1>0. /\ TypeInv /\ TableInv /\ CountInv /\ MirrorInv /\ OnceClosed
      /\ Untroubled' => Untroubled
      /\ faults' = 0 => faults = 0
      /\ LocalClient \in Clients /\ conn \in Clients \cup {NoClient}
  BY Context
<1>1. /\ UNCHANGED <<conn, listener>>
      /\ spc' = spc \/ (spc = "idle" /\ spc' = "start")
      /\ UNCHANGED cpc[LocalClient] \/ (LocalAt({"idle"}) /\ LocalAt({"start"})')
      /\ UNCHANGED <<attempt[LocalClient], verdict[LocalClient]>>
      /\ UNCHANGED <<sock[Cli(LocalClient)], sock[Srv(LocalClient)]>>
      /\ \A c \in Clients : sock'[Srv(c)] \in {sock[Srv(c)], "queued"}
      /\ UNCHANGED fdVars
  <2>1. CASE Elsewhere
    BY <1>0, <2>1, ElsewhereGoesOn
  <2>2. CASE UNCHANGED <<vars, fdVars>>
    BY <2>2 DEF vars, serverVars, clientVars, kernelVars
  <2> QED BY <2>1, <2>2
<1>2. TableInv'
  <2>1. ASSUME NEW n \in Numbers PROVE Owned(n)'
    BY <1>0, <1>1 DEF TableInv, Owned, Fresh, Opening, Listens
  <2> QED BY <1>0, <1>1, <2>1 DEF TableInv
<1>3. CountInv'
  <2>1. ClientNumbers' = ClientNumbers /\ Unconnected' = Unconnected
    BY <1>1 DEF ClientNumbers, Unconnected
  <2> QED BY <1>0, <1>1, <2>1 DEF CountInv, Fresh, Opening, Talks
<1>4. Valid(Srv(conn))' => Valid(Srv(conn))
  <2>1. Srv(conn)' = Srv(conn)
    BY <1>1 DEF Srv
  <2>2. conn \notin Clients => Srv(conn) \notin Endpoints
    BY DEF Srv, Endpoints
  <2> QED BY <1>0, <1>1, <2>1, <2>2 DEF Valid
<1>5. MirrorInv'
  BY <1>0, <1>1, <1>4 DEF MirrorInv, Stands, Talks, Listens
<1>6. OnceClosed'
  <2>1. Kind(listenSocket)' = Kind(listenSocket)
    BY <1>1 DEF Kind
  <2> QED BY <1>0, <1>1, <2>1 DEF OnceClosed, Stands, Talks, Opening
<1> QED BY <1>2, <1>3, <1>5, <1>6 DEF NumberInv

LEMMA NumberStep ==
  ASSUME FdInv, [FdNext]_<<vars, fdVars>>
  PROVE  NumberInv' /\ HitNeedsFailure'
<1>0. HitNeedsFailure /\ faults \in Nat /\ faults' \in Nat /\ faults <= faults'
  BY Context, FdStepKeeps DEF FdInv
<1>1. hit' = hit => HitNeedsFailure'
  BY <1>0 DEF HitNeedsFailure
<1>2. CASE FdServerStep /\ UNCHANGED <<cfg, mpc, clientVars>>
  <2>1. CASE FdListen
    <3>1. hit' = hit
      BY <2>1 DEF FdListen, Opens
    <3> QED BY <1>1, <1>2, <2>1, <3>1, ListenKeeps
  <2>2. CASE FdAccept
    <3>1. hit' = hit
      BY <2>2 DEF FdAccept, Opens
    <3> QED BY <1>1, <1>2, <2>2, <3>1, AcceptKeeps
  <2>3. CASE FdCloseListen \/ FdDtorListen
    BY <1>2, <2>3, CloseListenKeeps
  <2>4. CASE FdDtorClient
    BY <1>2, <2>4, DtorClientKeeps
  <2>5. CASE /\ spc \notin {"socket", "accept", "closeListen", "dtorListen", "dtorClient"}
             /\ ServerStep /\ UNCHANGED fdVars
    BY <1>1, <1>2, <2>5, ServerQuiet DEF fdVars
  <2> QED BY <1>2, <2>1, <2>2, <2>3, <2>4, <2>5 DEF FdServerStep
<1>3. CASE FdClientStep /\ UNCHANGED <<cfg, mpc, serverVars>>
  <2>1. CASE FdSocket
    <3>1. hit' = hit
      BY <2>1 DEF FdSocket, Opens
    <3> QED BY <1>1, <1>3, <2>1, <3>1, SocketKeeps
  <2>2. CASE FdConnect
    BY <1>1, <1>3, <2>2, ConnectKeeps DEF FdConnect
  <2>3. CASE FdRefused
    BY <1>1, <1>3, <2>3, RefusedKeeps DEF FdRefused
  <2>4. CASE FdClientClose
    BY <1>3, <2>4, ClientCloseKeeps
  <2>5. CASE /\ cpc[LocalClient] \notin {"connect", "close", "dtor"}
             /\ ClientStep(LocalClient) /\ UNCHANGED fdVars
    BY <1>1, <1>3, <2>5, ClientQuiet DEF fdVars, LocalAt
  <2> QED BY <1>3, <2>1, <2>2, <2>3, <2>4, <2>5 DEF FdClientStep
<1>4. CASE FdReap
  BY <1>1, <1>4, ReapKeeps DEF FdReap
<1>5. CASE Elsewhere \/ UNCHANGED <<vars, fdVars>>
  BY <1>1, <1>5, ElsewhereKeeps DEF Elsewhere, fdVars
<1> QED BY <1>2, <1>3, <1>4, <1>5 DEF FdNext

-------------------------------------------------------------------------------
(* The demo with numbers. *)

LEMMA FdInvInit == FdInit => FdInv
<1> SUFFICES ASSUME FdInit PROVE FdInv
  OBVIOUS
<1>1. /\ Init /\ cfg[LocalClient].build = "unix" /\ fds = [n \in Numbers |-> "free"]
      /\ listenSocket = INVALID /\ clientSocket = INVALID /\ connectSocket = INVALID
      /\ hit = {}
  BY DEF FdInit
<1>2. EndsInv
  BY <1>1, TypeInvInit, ReplyInvInit, DrainInvInit, SocketInvInit, EndsInit DEF EndsInv
<1>3. /\ spc = "idle" /\ conn = NoClient /\ LocalAt({"idle"}) /\ attempt[LocalClient] = 1
      /\ listener = "none" /\ backlog = <<>> /\ sock = [x \in Endpoints |-> "none"]
  BY <1>1, TestBedAssumption DEF Init, ServerInit, ClientInit, KernelInit, LocalAt
<1>4. TableInv
  BY <1>1 DEF TableInv, Owned, Kinds
<1>5. CountInv
  <2>1. ClientNumbers = {}
    BY <1>1 DEF ClientNumbers
  <2> QED BY <1>1, <1>3, <2>1, FS_EmptySet DEF CountInv, LocalAt, Talks
<1>6. MirrorInv
  <2>1. sock[Cli(LocalClient)] = "none" /\ ~Valid(Srv(conn))
    BY <1>3, EndpointFacts, TestBedAssumption DEF Valid
  <2> QED BY <1>1, <1>3, <2>1 DEF MirrorInv, Listens, Talks, LocalAt
<1>7. OnceClosed
  BY <1>1, <1>3 DEF OnceClosed, Opening, Talks, LocalAt
<1> QED
  BY <1>1, <1>2, <1>3, <1>4, <1>5, <1>6, <1>7 DEF FdInv, EndsInv, HitNeedsFailure, BacklogInv

LEMMA FdInvStep == FdInv /\ [FdNext]_<<vars, fdVars>> => FdInv'
<1> SUFFICES ASSUME FdInv, [FdNext]_<<vars, fdVars>> PROVE FdInv'
  OBVIOUS
<1>1. TypeInv' /\ cfg' = cfg /\ hit \subseteq hit'
  BY FdStepKeeps
<1>2. NumberInv' /\ HitNeedsFailure'
  BY NumberStep
<1>3. hit' = {} => EndsInv' /\ BacklogInv'
  <2> SUFFICES ASSUME hit' = {} PROVE EndsInv' /\ BacklogInv'
    OBVIOUS
  <2>1. [Next]_vars /\ EndsInv /\ BacklogInv
    BY <1>1, FdStepImplements DEF FdInv
  <2> QED BY <2>1, EndsStep, BacklogStep DEF EndsInv
<1> QED BY <1>1, <1>2, <1>3 DEF FdInv, NumberInv

\* The numbers the two threads hold, what these stand for, and what has been
\* closed by somebody it did not belong to.
THEOREM FdInvariant == FdSpec => []FdInv
<1> QED BY FdInvInit, FdInvStep, PTL DEF FdSpec

\* The members of both objects hold numbers of the process or INVALID_SOCKET,
\* and a socket in use is never open under a number its owner has lost.
THEOREM FdTypeSafety == FdSpec => []FdTypeOK
<1>1. FdInv => FdTypeOK
  BY DEF FdInv, TypeInv, TypeOK, KernelInv, ServerInv, ClientInv, TableInv, Owned, FdTypeOK
<1> QED BY <1>1, FdInvariant, PTL

\* The second close of a number, which the destructors make, takes a listening
\* or connected socket of the other thread only where some call has failed
\* before, and the socket of a client about to connect only where that, or the
\* end of the listening, already keeps it from being connected.
THEOREM StaleCloseNeedsFailureHolds == FdSpec => []StaleCloseNeedsFailure
<1>1. FdInv => StaleCloseNeedsFailure
  <2> SUFFICES ASSUME FdInv, faults = 0
               PROVE  hit = {} /\ (LostSocket => listener # "listening")
    BY DEF StaleCloseNeedsFailure
  <2>1. hit = {}
    BY DEF FdInv, HitNeedsFailure
  <2>2. ASSUME LostSocket PROVE listener # "listening"
    <3>1. /\ LocalAt({"connect"}) /\ connectSocket # INVALID /\ Untroubled
          /\ ~Stands(connectSocket, "unconnected")
      BY <2>1, <2>2, NumberFacts DEF LostSocket, ClientAt, LocalAt, Untroubled, Stands, Kind
    <3>2. Kind(listenSocket) \in {"free", "unconnected"}
      BY <3>1 DEF FdInv, OnceClosed
    <3>3. ~Stands(listenSocket, "listening")
      BY <3>2, NumberFacts DEF Stands, Kind
    <3> QED BY <3>1, <3>3 DEF FdInv, MirrorInv
  <2> QED BY <2>1, <2>2
<1> QED BY <1>1, FdInvariant, PTL

\* With both threads at their end, all that is open in the process are sockets
\* of refused addresses, at most one for each address tried, and one less where
\* the last one tried has accepted.
THEOREM OnlyRefusedLeakHolds == FdSpec => []OnlyRefusedLeak
<1>1. FdInv => OnlyRefusedLeak
  <2> SUFFICES ASSUME FdInv, spc = "done", cpc[LocalClient] = "done" PROVE OnlyRefusedLeak
    BY DEF OnlyRefusedLeak
  <2>1. ASSUME NEW n \in Numbers PROVE fds[n] \in {"free", "unconnected"}
    <3>1. fds[n] \in Kinds /\ Owned(n)
      BY DEF FdInv, TableInv
    <3> QED BY <3>1 DEF Kinds, Owned, Listens, LocalAt
  <2>2. Cardinality(Unconnected) <= Cardinality(ClientNumbers)
    <3>1. Unconnected \subseteq ClientNumbers /\ ClientNumbers \subseteq Numbers
      BY DEF Unconnected, ClientNumbers
    <3> QED BY <3>1, NumbersCounted
  <2>3. /\ attempt[LocalClient] \in Nat
        /\ Cardinality(Unconnected) \in Nat /\ Cardinality(ClientNumbers) \in Nat
    <3>1. attempt[LocalClient] \in 1..NumAddrs /\ NumAddrs \in Nat
      BY TestBedAssumption, ClientAssumption DEF FdInv, TypeInv, ClientInv, ClientTypeOK
    <3>2. Unconnected \subseteq Numbers /\ ClientNumbers \subseteq Numbers
      BY DEF Unconnected, ClientNumbers
    <3>3. attempt[LocalClient] \in Nat
      BY <3>1
    <3> QED BY <3>2, <3>3, NumbersCounted
  <2>4. /\ Cardinality(ClientNumbers) <= attempt[LocalClient]
        /\ verdict[LocalClient] # "unable" => Cardinality(Unconnected) < attempt[LocalClient]
    BY DEF FdInv, CountInv, LocalAt
  <2> QED BY <2>1, <2>2, <2>3, <2>4 DEF OnlyRefusedLeak
<1> QED BY <1>1, FdInvariant, PTL

\* Also after a call has failed, as long as no close has taken a listening or a
\* connected socket of the other thread, the process with its numbers replies
\* what the mode promises, drains its client before a shutdown and leaves no
\* connection open.
THEOREM UnhitKeepsPromises ==
  FdSpec => [](hit = {} => ReplyIntegrity /\ DrainsBeforeShutdown /\ ConnectionsClosed)
<1>1. FdInv /\ hit = {} => ReplyIntegrity /\ DrainsBeforeShutdown /\ ConnectionsClosed
  BY ReplyInvImplies, DrainInvImplies, SocketInvImplies DEF FdInv, EndsInv
<1> QED BY <1>1, FdInvariant, PTL

\* Until some close takes what is not its own, the objects with their numbers
\* do what TcpDemo does with sockets, where nothing can be closed twice.
THEOREM DescriptorsImplement == FdSpec => ImplementsTcpDemo
<1>1. FdInit => Init
  BY DEF FdInit
<1>2. FdInv /\ [FdNext]_<<vars, fdVars>> => [Next \/ hit' # {}]_vars
  BY FdStepImplements
<1> QED BY <1>1, <1>2, FdInvariant, PTL DEF FdSpec, ImplementsTcpDemo

\* So whatever is proved of TcpDemo holds of the process with its numbers, in
\* every run in which no call fails.
THEOREM NumbersDoNoHarm == FdSpec /\ [](faults = 0) => Spec
<1>1. FdInit => Init
  BY DEF FdInit
<1>2. FdInv /\ FdInv' /\ faults' = 0 /\ [FdNext]_<<vars, fdVars>> => [Next]_vars
  <2> SUFFICES ASSUME FdInv, FdInv', faults' = 0, [FdNext]_<<vars, fdVars>> PROVE [Next]_vars
    OBVIOUS
  <2>1. hit' = {}
    BY DEF FdInv, HitNeedsFailure
  <2> QED BY <2>1, FdStepImplements
<1>3. (faults = 0)' => faults' = 0
  OBVIOUS
<1> QED BY <1>1, <1>2, <1>3, FdInvariant, PTL DEF FdSpec, Spec
===============================================================================
