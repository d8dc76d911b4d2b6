------------------------------- MODULE ScriptUdp -------------------------------
(***************************************************************************)
(* The UDP demos in Python and Java: one process whose client, in Python,  *)
(* asks again from a new socket when Windows reports its request as reset. *)
(* The "clients" of UdpNetwork are here the sockets of that client, named  *)
(* by ERR_IDX.  Java has one socket only; it binds the server's before any *)
(* thread runs, and an IOException in its server ends the process.         *)
(***************************************************************************)
EXTENDS UdpNetwork

CONSTANTS Text,        \* "Hello, this is a UDP test"
          NoClient

LastTry == 3

ASSUME ScriptAssumption == /\ Clients = 0..LastTry /\ LocalClient = 0
                           /\ ProgramsUsed \subseteq {"python", "java"}
                           /\ NoClient \notin Clients
                           /\ Text \in Seq(Byte) /\ Text # <<>> /\ Len(Text) < BufSize

VARIABLES mpc,       \* where main is
          spc, cpc,  \* where the two threads are
          taken,     \* the request the server received
          sender,    \* the socket it came from
          try,       \* ERR_IDX
          shown      \* what the client printed as received on each socket

scriptVars == <<mpc, spc, cpc, taken, sender, try, shown>>
vars == <<cfg, scriptVars, netVars>>

ScriptTypeOK ==
  /\ ConfigTypeOK /\ NetworkTypeOK
  /\ mpc \in {"bindServer", "makeClient", "spawnServer", "spawnClient", "join", "finished"}
  /\ spc \in {"idle", "start", "socket", "bind", "recv", "echo", "close", "done"}
  /\ cpc \in {"idle", "start", "socket", "send", "recv", "close", "done"}
  /\ taken \in Payloads
  /\ sender \in Clients \cup {NoClient}
  /\ try \in Clients
  /\ shown \in [Clients -> Payloads]

ProgramUsed == Program(LocalClient)

Init ==
  /\ \E p \in ProgramsUsed, b \in BuildsUsed, t \in TypesUsed :
       /\ p = "java" => t = "CLIENT_AND_SERVER"
       /\ cfg = [c \in Clients |-> [program |-> p, type |-> t, build |-> b]]
  /\ NetworkInit
  /\ mpc = IF ProgramUsed = "java" THEN "bindServer" ELSE "spawnServer"
  /\ spc = "idle" /\ cpc = "idle"
  /\ taken = <<>> /\ sender = NoClient
  /\ try = 0 /\ shown = [c \in Clients |-> <<>>]

-------------------------------------------------------------------------------
(* main *)

MainGoto(pc, next) == mpc = pc /\ gone = {} /\ mpc' = next

\* System.exit(1) after a failed call; the system closes every socket.
Exit ==
  /\ faults < MaxFaults /\ faults' = faults + 1
  /\ gone' = Clients
  /\ server' = "closed" /\ sq' = <<>>
  /\ csock' = [c \in Clients |-> "closed"] /\ cq' = [c \in Clients |-> <<>>]
  /\ UNCHANGED <<net, refused, asked, lost, dups>>

\* The constructors of the Java threads open their sockets.
Construct ==
  /\ \/ MainGoto("bindServer", "makeClient") /\ (ServerSocketBecomes("bound") \/ Exit)
     \/ MainGoto("makeClient", "spawnServer")
          /\ (ClientSocketBecomes(0, "bound") \/ Exit)
  /\ UNCHANGED <<spc, cpc>>

SpawnServer ==
  /\ MainGoto("spawnServer", "spawnClient")
  /\ spc' = "start"
  /\ UNCHANGED <<cpc, netVars>>

SpawnClient ==
  /\ MainGoto("spawnClient", "join")
  /\ cpc' = "start"
  /\ UNCHANGED <<spc, netVars>>

\* A thread that cannot be started ends main but not the thread before it.
SpawnFails ==
  /\ mpc \in {"spawnServer", "spawnClient"} /\ MainGoto(mpc, "finished")
  /\ CallFails
  /\ UNCHANGED <<spc, cpc>>

JoinBoth ==
  /\ MainGoto("join", "finished")
  /\ spc = "done" /\ cpc = "done"
  /\ UNCHANGED <<spc, cpc, netVars>>

Main == /\ Construct \/ SpawnServer \/ SpawnClient \/ SpawnFails \/ JoinBoth
        /\ UNCHANGED <<cfg, taken, sender, try, shown>>

-------------------------------------------------------------------------------
(* The server *)

ServerGoto(pc, next) == spc = pc /\ gone = {} /\ spc' = next

\* An exception leaves a Python function, whose socket is then closed; the
\* Java thread exits the process.
ServerThrows(pc) ==
  \/ ProgramUsed = "python" /\ ServerGoto(pc, "close") /\ CallFails
  \/ ProgramUsed = "java" /\ ServerGoto(pc, "done") /\ Exit

ServerOpens ==
  \/ /\ ServerGoto("start", CASE ProgramUsed = "java" -> "recv"
                              [] RunsServer(LocalClient) -> "socket"
                              [] OTHER -> "done")
     /\ UNCHANGED netVars
  \/ ServerGoto("socket", "bind") /\ ServerSocketBecomes("created")
  \/ ServerGoto("bind", "recv") /\ ServerSocketBecomes("bound")
  \/ spc \in {"socket", "bind"} /\ ServerThrows(spc)

ServerRecv ==
  /\ \/ /\ ServerGoto("recv", "echo")
        /\ \E m \in {sq[i] : i \in DOMAIN sq} :
             RecvRequest(m) /\ taken' = m.data /\ sender' = m.client
     \/ ServerThrows("recv") /\ UNCHANGED <<taken, sender>>

\* Java sends all its buffer back, Python the bytes it got.
Reply == IF ProgramUsed = "java" THEN Overwrite(EmptyBuffer, taken) ELSE taken

\* Slip: the server waits for more instead of closing.
ServesTheNext ==
  \/ ServerGoto("echo", "recv") /\ SendReply(sender, Reply)
  \/ ServerThrows("echo")

ServerEcho ==
  \/ ServerGoto("echo", "close") /\ SendReply(sender, Reply)
  \/ ServerThrows("echo")

ServerClose == ServerGoto("close", "done") /\ CloseServerSocket

ServerThread ==
  /\ \/ ServerRecv
     \/ (ServerOpens \/ ServerEcho \/ ServerClose) /\ UNCHANGED <<taken, sender>>
  /\ UNCHANGED <<cfg, mpc, cpc, try, shown>>

-------------------------------------------------------------------------------
(* The client *)

ClientGoto(pc, next) == cpc = pc /\ gone = {} /\ cpc' = next

ClientOpens ==
  \/ /\ ClientGoto("start", CASE ProgramUsed = "java" -> "send"
                              [] RunsClient(LocalClient) -> "socket"
                              [] OTHER -> "done")
     /\ UNCHANGED netVars
  \/ ClientGoto("socket", "send") /\ ClientSocketBecomes(try, "created")

ClientSend == ClientGoto("send", "recv") /\ SendRequest(try, Text)

\* Slip: the packet is printed whole.
WholePacket(data) == data

\* The Java client receives into the buffer its text came from, and so no
\* more bytes than it sent; the rest of a longer packet is dropped.
Received(data) ==
  IF ProgramUsed = "java" /\ Len(data) > Len(Text) THEN SubSeq(data, 1, Len(Text)) ELSE data

\* A Java client leaves its socket to the end of the process.
AfterRecv == IF ProgramUsed = "java" THEN "done" ELSE "close"

ClientRecv ==
  /\ ClientGoto("recv", AfterRecv)
  /\ \E m \in {cq[try][i] : i \in DOMAIN cq[try]} :
       RecvReply(try, m) /\ shown' = [shown EXCEPT ![try] = Received(m.data)]

\* Only Windows reports that a datagram found no server.
ConnectionReset ==
  /\ ProgramUsed = "python" /\ cfg[LocalClient].build = "windows"
  /\ csock[try] # "closed" /\ try \in refused

\* Slip: the counter is compared with nothing.
NoLastTry ==
  /\ ConnectionReset
  /\ CloseClientSocket(try)
  /\ ClientGoto("recv", "socket") /\ try' = try + 1

\* Slip: the exception is caught and the client listens on.
ListensOn ==
  /\ ConnectionReset
  /\ ClientGoto("recv", "recv") /\ try' = try
  /\ refused' = refused \ {try}
  /\ UNCHANGED <<net, sq, cq, server, csock, asked, gone, faults, lost, dups>>

\* Slip: any exception makes the client ask again.
RetriesAfterAnything ==
  /\ \/ ConnectionReset /\ CloseClientSocket(try)
     \/ /\ faults < MaxFaults /\ faults' = faults + 1
        /\ csock' = [csock EXCEPT ![try] = "closed"]
        /\ cq' = [cq EXCEPT ![try] = <<>>]
        /\ UNCHANGED <<net, sq, server, refused, asked, gone, lost, dups>>
  /\ \/ try < LastTry /\ ClientGoto("recv", "socket") /\ try' = try + 1
     \/ try = LastTry /\ ClientGoto("recv", "done") /\ try' = try

\* "Connection reset error, trying again.."; the callers' further closes of
\* their sockets do nothing.
ClientRetries ==
  /\ ConnectionReset
  /\ CloseClientSocket(try)
  /\ \/ try < LastTry /\ ClientGoto("recv", "socket") /\ try' = try + 1
     \/ try = LastTry /\ ClientGoto("recv", "done") /\ try' = try

\* Any other exception ends the thread; Java prints the stack trace.
ClientThrows ==
  /\ cpc \in {"socket", "send", "recv"} /\ ClientGoto(cpc, AfterRecv)
  /\ CallFails

ClientClose == ClientGoto("close", "done") /\ CloseClientSocket(try)

ClientThread ==
  /\ \/ ClientRecv /\ UNCHANGED try
     \/ ClientRetries /\ UNCHANGED shown
     \/ (ClientOpens \/ ClientSend \/ ClientThrows \/ ClientClose) /\ UNCHANGED <<try, shown>>
  /\ UNCHANGED <<cfg, mpc, spc, taken, sender>>

-------------------------------------------------------------------------------
Network == /\ \E m \in net : Deliver(m) \/ Duplicate(m) \/ Lose(m)
           /\ UNCHANGED <<cfg, scriptVars>>

Next == Main \/ ServerThread \/ ClientThread \/ Network

Spec == Init /\ [][Next]_vars

\* Threads are scheduled and what is on its way arrives, unless it is lost; a
\* call that waits need not fail.
FairSpec == /\ Spec
            /\ WF_vars(Main /\ UNCHANGED faults)
            /\ WF_vars(ServerThread /\ UNCHANGED faults)
            /\ WF_vars(ClientThread /\ UNCHANGED faults)
            /\ WF_vars(Network)

-------------------------------------------------------------------------------
(* Properties *)

\* While no datagram is doubled, the socket whose request the server takes is
\* the one the client waits on: a request it has given up was refused, and
\* cannot be answered in place of the one sent after it.
AnswersTheLastTry == (sender # NoClient /\ dups = 0) => sender = try

\* At most one of the sockets is answered, at most once, and what the client
\* prints of the answer is its text, though Java answers with a whole buffer.
Echo == INSTANCE EchoOnce WITH
  partner <- sender,
  answered <- sender # NoClient /\ spc # "echo",
  heard <- shown

ScriptImplementsEchoOnce == Echo!Spec

\* A Python client on Windows and a Java one get their answer or give up; on a
\* Unix Python gives no such promise, as a request that came too early is
\* dropped silently.
ClientGetsDone ==
  (cpc = "start" /\ (ProgramUsed = "java" \/ cfg[LocalClient].build = "windows")) ~>
     (cpc = "done" \/ faults + lost + dups > 0)

\* The Java server is bound before its client asks: main always finishes.
JavaFinishes ==
  ProgramUsed = "java" => <>(mpc = "finished" \/ faults + lost > 0)
===============================================================================
