------------------------------- MODULE UdpServer -------------------------------
(***************************************************************************)
(* The server thread of the UDP demo: UdpServerClass, udpServerOneshot and *)
(* udp_server_oneshot.  It answers the first datagram it receives.         *)
(***************************************************************************)
EXTENDS UdpNetwork

CONSTANT NoClient      \* nobody has sent anything yet

ASSUME ServerAssumption == NoClient \notin Clients

VARIABLES spc,       \* where the server thread is
          sender,    \* address of the datagram received
          nbytes,    \* its length: bytes_to_send
          sbuf       \* reception_buffer; on the stack of the C function, which
                     \* never reads what it has not received

serverVars == <<spc, sender, nbytes, sbuf>>

ServerPcs == {"idle", "start", "resolve", "socket", "bind", "recv", "echo", "close", "done"}

ServerTypeOK == /\ spc \in ServerPcs
                /\ sender \in Clients \cup {NoClient}
                /\ nbytes \in 0..BufSize
                /\ sbuf \in Buffers

ServerInit == spc = "idle" /\ sender = NoClient /\ nbytes = 0 /\ sbuf = EmptyBuffer

At(pc) == spc = pc /\ LocalClient \notin gone
Goto(pc) == spc' = pc /\ UNCHANGED <<sender, nbytes, sbuf>>
Leave == Goto(Leaving(LocalClient))

-------------------------------------------------------------------------------
ServerApplication ==
  /\ At("start")
  /\ Goto(IF RunsServer(LocalClient) THEN "resolve" ELSE "done")
  /\ UNCHANGED netVars

ServerResolve ==
  /\ At("resolve")
  /\ \/ Goto("socket") /\ UNCHANGED netVars
     \/ CallFails /\ Leave

\* A failure that goes unnoticed makes the bind after it fail.
ServerSocket ==
  /\ At("socket")
  /\ \/ ServerSocketBecomes("created") /\ Goto("bind")
     \/ CallFails /\ IF SocketErrorSeen(LocalClient) THEN Leave ELSE Goto("bind")

\* After a failed bind only the class closes its socket.
ServerBind ==
  /\ At("bind")
  /\ \/ server = "created" /\ ServerSocketBecomes("bound") /\ Goto("recv")
     \/ /\ CallFails \/ (server = "none" /\ UNCHANGED netVars)
        /\ Goto(IF Program(LocalClient) = "classes" THEN "close" ELSE "done")

\* The class terminates the text it received; the others only count it.
Received(data) ==
  IF Program(LocalClient) = "classes"
  THEN Terminate(Overwrite(sbuf, data), Len(data))
  ELSE Overwrite(sbuf, data)

\* Slip: the server receives again instead of answering.
KeepsReceiving(m) ==
  /\ At("recv")
  /\ RecvRequest(m)
  /\ sender' = m.client
  /\ nbytes' = Len(m.data)
  /\ sbuf' = Received(m.data)
  /\ spc' = "recv"

ServerRecv(m) ==
  /\ At("recv")
  /\ RecvRequest(m)
  /\ sender' = m.client
  /\ nbytes' = Len(m.data)
  /\ sbuf' = Received(m.data)
  /\ spc' = "echo"

\* Slip: the error is logged and the buffer echoed all the same.
EchoesAfterError == At("recv") /\ CallFails /\ Goto("echo")

\* Slip: the function returns without closing the socket.
RecvErrorLeaks == At("recv") /\ CallFails /\ Goto("done")

ServerRecvFails == At("recv") /\ CallFails /\ Leave

\* Slip: the last byte is taken for a terminator.
EchoedShort == [i \in 1..nbytes - 1 |-> sbuf[i]]

Echoed == [i \in 1..nbytes |-> sbuf[i]]

\* Slip: the server goes on to serve the next client.
ServesTheNext ==
  /\ At("echo")
  /\ \/ SendReply(sender, Echoed) /\ Goto("recv")
     \/ CallFails /\ Leave

ServerEcho ==
  /\ At("echo")
  /\ SendReply(sender, Echoed) \/ CallFails
  /\ Leave

ServerClose == At("close") /\ CloseServerSocket /\ Goto("done")

ServerStep ==
  \/ ServerApplication \/ ServerResolve \/ ServerSocket \/ ServerBind
  \/ (sq # <<>> /\ ServerRecv(Head(sq)))
  \/ ServerRecvFails \/ ServerEcho \/ ServerClose
===============================================================================
