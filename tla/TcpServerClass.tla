----------------------------- MODULE TcpServerClass -----------------------------
(***************************************************************************)
(* The server thread: serverApplication and the TcpServerClass object it   *)
(* builds on its stack.  One action per blocking call, so that any step of *)
(* a client, of the network or of main may come between two of them.       *)
(***************************************************************************)
EXTENDS TcpKernel, DemoConfig

CONSTANTS Unrequested,   \* the reply of mode 2
          NoClient       \* INVALID_SOCKET

ASSUME ServerAssumption == Unrequested \in Seq(Byte) /\ NoClient \notin Clients

VARIABLES spc,       \* where the server thread is
          conn,      \* clientSocket: the client behind it
          retval,    \* result of the last recv
          buffer,    \* reception_buffer
          rfds,      \* is clientSocket in the read set of select?
          sret       \* value returned by performOperation

serverVars == <<spc, conn, retval, buffer, rfds, sret>>

ServerPcs == {"idle", "start", "resolve", "socket", "bind", "listen", "accept",
              "closeListen", "recv", "echo", "reply", "select", "receive",
              "shutdown", "dtorListen", "dtorClient", "done"}

ServerTypeOK ==
  /\ spc \in ServerPcs
  /\ conn \in Clients \cup {NoClient}
  /\ retval \in 0..BufSize - 1
  /\ buffer \in Buffers
  /\ rfds \in BOOLEAN
  /\ sret \in {0, 1}

ServerInit ==
  /\ spc = "idle"
  /\ conn = NoClient
  /\ retval = 0
  /\ buffer = EmptyBuffer
  /\ rfds = FALSE
  /\ sret = 0

\* Leaving performOperation with an error; the destructor runs next.
ReturnError ==
  /\ sret' = 1
  /\ spc' = "dtorListen"
  /\ UNCHANGED <<conn, retval, buffer, rfds>>

Goto(pc) ==
  /\ spc' = pc
  /\ UNCHANGED <<conn, retval, buffer, rfds, sret>>

At(pc) == spc = pc /\ LocalClient \notin killed

-------------------------------------------------------------------------------
(* serverApplication, performOperation *)

ServerApplication ==
  /\ At("start")
  /\ UNCHANGED kernelVars
  /\ \/ cfg[LocalClient].type = "SERVER_ONLY" /\ Goto("done")
     \/ cfg[LocalClient].type = "CLIENT_ONLY" /\ Goto("dtorListen")
     \/ cfg[LocalClient].type = "CLIENT_AND_SERVER" /\ Goto("resolve")

(* setup: getaddrinfo, socket, bind, listen.  A failed socket call that    *)
(* Windows does not notice makes the bind after it fail.                    *)

SetupStep(pc, next, state) ==
  /\ At(pc)
  /\ \/ ListenerBecomes(state) /\ Goto(next)
     \/ CallFails /\ ReturnError

Setup == \/ SetupStep("resolve", "socket", listener)
         \/ SetupStep("socket", "bind", "created")
         \/ SetupStep("bind", "listen", "bound")
         \/ SetupStep("listen", "accept", "listening")

(* acceptConnection *)

Accept(c) ==
  /\ At("accept")
  /\ AcceptCall(c)
  /\ conn' = c
  /\ spc' = "closeListen"
  /\ UNCHANGED <<retval, buffer, rfds, sret>>

\* Unnoticed on Windows, where the server goes on with INVALID_SOCKET.
AcceptFails ==
  /\ At("accept")
  /\ CallFails
  /\ IF SocketErrorSeen THEN ReturnError ELSE Goto("closeListen")

\* performModeOperation picks the operation of the mode; mode 4 has none.
\* performMode5 puts the socket into the read set before its loop.
ModeOperation == CASE ServerMode = 4 -> "shutdown"
                   [] ServerMode = 5 -> "select"
                   [] OTHER -> "recv"

CloseListen ==
  /\ At("closeListen")
  /\ CloseListenerCall
  /\ spc' = ModeOperation
  /\ rfds' = (ServerMode = 5)
  /\ UNCHANGED <<conn, retval, buffer, sret>>

-------------------------------------------------------------------------------
(* The loops of modes 1, 2 and 3 *)

\* perforMode1Echo: receive, terminate, send the same number of bytes back.
Mode1Recv(n) ==
  /\ At("recv") /\ ServerMode = 1
  /\ RecvData(Srv(conn), n)
  /\ buffer' = Terminate(Overwrite(buffer, Chunk(Srv(conn), n)), n)
  /\ retval' = n
  /\ spc' = "echo"
  /\ UNCHANGED <<conn, rfds, sret>>

\* Slip: the loop goes on after the peer's FIN.
Mode1IgnoresEof ==
  At("recv") /\ ServerMode = 1 /\ RecvEof(Srv(conn)) /\ Goto("recv")

Mode1Eof == At("recv") /\ ServerMode = 1 /\ RecvEof(Srv(conn)) /\ Goto("shutdown")

RecvError == At("recv") /\ ServerMode \in {1, 2} /\ RecvFails(Srv(conn)) /\ ReturnError

\* Slip: the capacity is echoed and not the number of bytes received.
EchoCapacity == [i \in 1..BufSize - 1 |-> buffer[i]]

EchoBytes == [i \in 1..retval |-> buffer[i]]

\* Slip: one packet is taken for the whole text.
Mode1EchoOnce ==
  /\ At("echo")
  /\ \/ SendOk(Srv(conn), EchoBytes) /\ Goto("shutdown")
     \/ SendFails(Srv(conn), SigPipe) /\ ReturnError

Mode1Echo ==
  /\ At("echo")
  /\ \/ SendOk(Srv(conn), EchoBytes) /\ Goto("recv")
     \/ SendFails(Srv(conn), SigPipe) /\ ReturnError

\* Slip: the answer to a client that breaks the protocol is sent at once.
Mode2RepliesEarly(n) ==
  /\ At("recv") /\ ServerMode = 2
  /\ RecvData(Srv(conn), n)
  /\ buffer' = Overwrite(buffer, Chunk(Srv(conn), n))
  /\ retval' = n
  /\ spc' = "reply"
  /\ UNCHANGED <<conn, rfds, sret>>

\* performMode2: anything received is complained about and dropped.
Mode2Recv(n) ==
  /\ At("recv") /\ ServerMode = 2
  /\ RecvData(Srv(conn), n)
  /\ buffer' = Overwrite(buffer, Chunk(Srv(conn), n))
  /\ retval' = n
  /\ UNCHANGED <<spc, conn, rfds, sret>>

\* Slip: the loop goes on after the peer's FIN.
Mode2IgnoresEof ==
  At("recv") /\ ServerMode = 2 /\ RecvEof(Srv(conn)) /\ Goto("recv")

Mode2Eof == At("recv") /\ ServerMode = 2 /\ RecvEof(Srv(conn)) /\ Goto("reply")

Mode2Reply ==
  /\ At("reply")
  /\ \/ SendOk(Srv(conn), Unrequested) /\ Goto("shutdown")
     \/ SendFails(Srv(conn), SigPipe) /\ ReturnError

\* A send on a broken pipe in mode 1 or 2 ends the process.
ServerSigPipe ==
  /\ At("echo") \/ At("reply")
  /\ SendKills(Srv(conn), LocalClient, SigPipe)
  /\ UNCHANGED serverVars

\* performMode3: the loop variable is never assigned, so receiveData runs once
\* and the loop ends whatever it returned.
Mode3Receive(n) ==
  /\ At("recv") /\ ServerMode = 3
  /\ RecvData(Srv(conn), n)
  /\ buffer' = Overwrite(buffer, Chunk(Srv(conn), n))
  /\ retval' = n
  /\ spc' = "shutdown"
  /\ UNCHANGED <<conn, rfds, sret>>

Mode3Ends ==
  /\ At("recv") /\ ServerMode = 3
  /\ RecvEof(Srv(conn)) \/ RecvFails(Srv(conn))
  /\ Goto("shutdown")

-------------------------------------------------------------------------------
(* performMode5: select with sets and a timeout that are set once *)

Readable(x) ==
  Valid(x) /\ (Unread(x) > 0 \/ AtEnd(x) \/ rst[x] = "arrived")

SelectReady ==
  /\ At("select")
  /\ rfds /\ Readable(Srv(conn))
  /\ UNCHANGED kernelVars
  /\ Goto("receive")

\* A select that times out empties the set it was given.
SelectTimeout ==
  /\ At("select")
  /\ Valid(Srv(conn)) /\ ~(rfds /\ Readable(Srv(conn)))
  /\ rfds' = FALSE
  /\ UNCHANGED kernelVars
  /\ UNCHANGED <<spc, conn, retval, buffer, sret>>

SelectFails ==
  At("select") /\ (CallFails \/ InvalidCall(Srv(conn))) /\ UNCHANGED serverVars

\* Slip: the loop ends with the first packet.
Mode5ReceivesOnce(n) ==
  /\ At("receive")
  /\ RecvData(Srv(conn), n)
  /\ buffer' = Overwrite(buffer, Chunk(Srv(conn), n))
  /\ retval' = n
  /\ spc' = "shutdown"
  /\ UNCHANGED <<conn, rfds, sret>>

Mode5Receive(n) ==
  /\ At("receive")
  /\ RecvData(Srv(conn), n)
  /\ buffer' = Overwrite(buffer, Chunk(Srv(conn), n))
  /\ retval' = n
  /\ spc' = "select"
  /\ UNCHANGED <<conn, rfds, sret>>

Mode5Eof == At("receive") /\ RecvEof(Srv(conn)) /\ Goto("shutdown")

Mode5Error == At("receive") /\ RecvFails(Srv(conn)) /\ Goto("select")

-------------------------------------------------------------------------------
(* performShutdown and the destructor *)

ServerShutdown ==
  /\ At("shutdown")
  /\ \/ ShutdownOk(Srv(conn)) /\ Goto("dtorListen")
     \/ ShutdownFails(Srv(conn)) /\ ReturnError

\* Slip: after an error in setup nobody closes the socket.
DtorForgetsListen ==
  At("dtorListen") /\ Goto("dtorClient") /\ UNCHANGED kernelVars

\* The destructor closes listenSocket, closed or not.
DtorListen == At("dtorListen") /\ CloseListenerCall /\ Goto("dtorClient")

DtorClient == At("dtorClient") /\ CloseCall(Srv(conn)) /\ Goto("done")

ServerStep ==
  \/ ServerApplication \/ Setup \/ AcceptFails \/ CloseListen
  \/ \E c \in Clients : Accept(c)
  \/ \E n \in RecvSizes :
        Mode1Recv(n) \/ Mode2Recv(n) \/ Mode3Receive(n) \/ Mode5Receive(n)
  \/ Mode1Eof \/ RecvError \/ Mode1Echo \/ Mode2Eof \/ Mode2Reply
  \/ ServerSigPipe \/ Mode3Ends
  \/ SelectReady \/ SelectTimeout \/ SelectFails \/ Mode5Eof \/ Mode5Error
  \/ ServerShutdown \/ DtorListen \/ DtorClient
===============================================================================
