--------------------------- MODULE TcpOneshotServer ----------------------------
(***************************************************************************)
(* The echo server without classes: tcpServerOneshot of C++ mode 0 (one    *)
(* body per platform), tcp_server_oneshot of the C program and tcp_server  *)
(* of the Python one.  One skeleton; its branches are the differences.     *)
(* An exception in Python ends the thread, and with its last reference a   *)
(* socket is closed.                                                       *)
(***************************************************************************)
EXTENDS TcpOneshotIO

CONSTANT NoClient      \* INVALID_SOCKET

ASSUME ServerAssumption == NoClient \notin Clients

VARIABLES spc,       \* where the server thread is
          conn,      \* client_socket: the client behind it
          sret       \* 1 once the function is about to return an error

serverVars == <<spc, conn, sret>>

ServerPcs == {"idle", "start", "resolve", "socket", "bind", "listen", "accept",
              "closeListen", "recv", "echo", "shutdown", "close", "done"}

ServerTypeOK == /\ spc \in ServerPcs
                /\ conn \in Clients \cup {NoClient}
                /\ sret \in {0, 1}

ServerInit == spc = "idle" /\ conn = NoClient /\ sret = 0

At(pc) == spc = pc /\ LocalClient \notin killed
Goto(pc) == spc' = pc /\ UNCHANGED <<conn, sret>>

\* return 1, by way of the close that the error path makes first.
ReturnError(pc) == spc' = pc /\ sret' = 1 /\ UNCHANGED conn

-------------------------------------------------------------------------------
(* Until a client is there *)

ServerApplication ==
  /\ At("start")
  /\ Goto(IF RunsServer(LocalClient) THEN "resolve" ELSE "done")
  /\ UNCHANGED <<kernelVars, ioVars>>

ServerResolve ==
  /\ At("resolve")
  /\ \/ Goto("socket") /\ UNCHANGED kernelVars
     \/ Program(LocalClient) # "python" /\ CallFails /\ ReturnError("done")
  /\ UNCHANGED ioVars

ServerSocket ==
  /\ At("socket")
  /\ \/ ListenerBecomes("created") /\ Goto("bind")
     \/ CallFails /\ IF NoticesInvalid(LocalClient) THEN ReturnError("done") ELSE Goto("bind")
  /\ UNCHANGED ioVars

\* bind and listen; without a socket, bind fails by itself.
ServerOpens(pc, from, to, next) ==
  /\ At(pc)
  /\ \/ listener = from /\ ListenerBecomes(to) /\ Goto(next)
     \/ (CallFails \/ (listener # from /\ UNCHANGED kernelVars)) /\ ReturnError("closeListen")
  /\ UNCHANGED ioVars

ServerBind == ServerOpens("bind", "created", "bound", "listen")
ServerListen == ServerOpens("listen", "bound", "listening", "accept")

ServerAccept(c) ==
  /\ At("accept")
  /\ AcceptCall(c)
  /\ conn' = c
  /\ spc' = "closeListen"
  /\ UNCHANGED <<sret, ioVars>>

ServerAcceptFails ==
  /\ At("accept")
  /\ CallFails
  /\ IF NoticesInvalid(LocalClient) THEN ReturnError("closeListen") ELSE Goto("closeListen")
  /\ UNCHANGED ioVars

\* "No longer need server socket", or the end of an error path.
ServerCloseListen ==
  /\ At("closeListen")
  /\ CloseListenerCall
  /\ Goto(IF sret = 1 THEN "done" ELSE "recv")
  /\ UNCHANGED ioVars

-------------------------------------------------------------------------------
(* "Receive until the peer shuts down the connection" *)

ServerRecv(n) ==
  /\ At("recv")
  /\ RecvAndPrint(Srv(conn), n)
  /\ Goto("echo")

\* Slip: the loop ends with the first packet.
EchoEndsLoop ==
  /\ At("echo")
  /\ \/ SendOk(Srv(conn), Front(Srv(conn))) /\ Goto("shutdown")
     \/ SendFailsIn(LocalClient, Srv(conn)) /\ ReturnError("close")
  /\ UNCHANGED ioVars

\* Slip: the text printed is echoed and not the bytes received.
EchoPrinted ==
  /\ At("echo")
  /\ \/ SendOk(Srv(conn), log[Srv(conn)]) /\ Goto("recv")
     \/ SendFailsIn(LocalClient, Srv(conn)) /\ ReturnError("close")
  /\ UNCHANGED ioVars

ServerEcho ==
  /\ At("echo")
  /\ \/ SendOk(Srv(conn), Front(Srv(conn))) /\ Goto("recv")
     \/ SendFailsIn(LocalClient, Srv(conn)) /\ ReturnError("close")
  /\ UNCHANGED ioVars

ServerSigPipe ==
  /\ At("echo")
  /\ SendKills(Srv(conn), LocalClient, SigPipeIn(LocalClient))
  /\ UNCHANGED <<serverVars, ioVars>>

\* The Python server closes without a shutdown.
AfterEof == IF Program(LocalClient) = "python" THEN "close" ELSE "shutdown"

ServerEof == At("recv") /\ RecvEof(Srv(conn)) /\ Goto(AfterEof) /\ UNCHANGED ioVars

\* Slip: the error path returns without the close.
RecvErrorLeaks ==
  At("recv") /\ RecvFails(Srv(conn)) /\ ReturnError("done") /\ UNCHANGED ioVars

ServerRecvFails ==
  At("recv") /\ RecvFails(Srv(conn)) /\ ReturnError("close") /\ UNCHANGED ioVars

ServerShutdown ==
  /\ At("shutdown")
  /\ \/ ShutdownOk(Srv(conn)) /\ Goto("close")
     \/ ShutdownFails(Srv(conn)) /\ ReturnError("close")
  /\ UNCHANGED ioVars

ServerClose == At("close") /\ CloseCall(Srv(conn)) /\ Goto("done") /\ UNCHANGED ioVars

ServerStep ==
  \/ ServerApplication \/ ServerResolve \/ ServerSocket \/ ServerBind \/ ServerListen
  \/ \E c \in Clients : ServerAccept(c)
  \/ ServerAcceptFails \/ ServerCloseListen
  \/ \E n \in WholeBuffer : ServerRecv(n)
  \/ ServerEcho \/ ServerSigPipe \/ ServerEof \/ ServerRecvFails
  \/ ServerShutdown \/ ServerClose
===============================================================================
