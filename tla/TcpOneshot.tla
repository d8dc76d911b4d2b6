------------------------------- MODULE TcpOneshot ------------------------------
(***************************************************************************)
(* The TCP demo without classes: main with its two threads, the programs   *)
(* started elsewhere, which may be others than the server's, and the       *)
(* socket layer between them.                                              *)
(***************************************************************************)
EXTENDS TcpOneshotServer, TcpOneshotClient

VARIABLE mpc    \* where main (start_demo in C) is

vars == <<cfg, mpc, serverVars, clientVars, ioVars, kernelVars>>

MainPcs == {"spawnServer", "spawnClient", "join", "finished"}

OneshotTypeOK == /\ ConfigTypeOK
                 /\ KernelTypeOK
                 /\ IOTypeOK
                 /\ ServerTypeOK
                 /\ ClientTypeOK
                 /\ mpc \in MainPcs

Init == /\ StartupCode
        /\ KernelInit
        /\ IOInit
        /\ ServerInit
        /\ ClientInit
        /\ mpc = "spawnServer"

-------------------------------------------------------------------------------
(* main *)

MainAt(pc, next) == mpc = pc /\ LocalClient \notin killed /\ mpc' = next

SpawnServer == /\ MainAt("spawnServer", "spawnClient")
               /\ Goto("start")
               /\ UNCHANGED <<clientVars, kernelVars>>

SpawnClient == /\ MainAt("spawnClient", "join")
               /\ ClientGoto(LocalClient, "start")
               /\ UNCHANGED <<serverVars, kernelVars>>

\* The C program starts only the threads it needs.
CreatesThread == \/ Program(LocalClient) # "c"
                 \/ mpc = "spawnServer" /\ RunsServer(LocalClient)
                 \/ mpc = "spawnClient" /\ RunsClient(LocalClient)

\* An exception out of main, or its return, ends the process; only Python
\* waits for the server thread it has already started.
SpawnFails ==
  /\ CreatesThread
  /\ faults < MaxFaults /\ faults' = faults + 1
  /\ \/ /\ mpc \in {"spawnServer", "spawnClient"} /\ MainAt(mpc, "finished")
        /\ Program(LocalClient) # "python" \/ mpc = "spawnServer"
        /\ killed' = killed \cup {LocalClient}
        /\ UNCHANGED clientVars
     \/ /\ Program(LocalClient) = "python" /\ MainAt("spawnClient", "join")
        /\ ClientGoto(LocalClient, "done")
        /\ UNCHANGED killed
  /\ UNCHANGED <<serverVars, listener, backlog, sock, sent, read, fin, rst>>

\* The two joins; the C program waits for the client first, the others for
\* the server.
JoinBoth == /\ MainAt("join", "finished")
            /\ spc = "done" /\ cpc[LocalClient] = "done"
            /\ UNCHANGED <<serverVars, clientVars, kernelVars>>

Main == /\ SpawnServer \/ SpawnClient \/ SpawnFails \/ JoinBoth
        /\ UNCHANGED <<cfg, ioVars>>

-------------------------------------------------------------------------------
(* The test bed *)

ServerThread == ServerStep /\ UNCHANGED <<cfg, mpc, clientVars>>

ClientThread(c) == ClientStep(c) /\ UNCHANGED <<cfg, mpc, serverVars>>

\* Somebody starts a program in another process.
StartRemote(c) == /\ c # LocalClient /\ cpc[c] = "idle"
                  /\ ClientGoto(c, "start")
                  /\ UNCHANGED <<cfg, mpc, serverVars, ioVars, kernelVars>>

\* The system closes what a process leaves open.
Reap(c) ==
  /\ c \in killed
  /\ \/ sock[Cli(c)] = "open" /\ CloseCall(Cli(c))
     \/ c = LocalClient /\ listener \notin {"none", "closed"} /\ CloseListenerCall
     \/ c = LocalClient /\ conn # NoClient /\ sock[Srv(conn)] = "open" /\ CloseCall(Srv(conn))
  /\ UNCHANGED <<cfg, mpc, serverVars, clientVars, ioVars>>

Network == /\ \E x \in Endpoints : DeliverRst(x)
           /\ UNCHANGED <<cfg, mpc, serverVars, clientVars, ioVars>>

Next == \/ Main
        \/ ServerThread
        \/ Network
        \/ \E c \in Clients : ClientThread(c) \/ StartRemote(c) \/ Reap(c)

Spec == Init /\ [][Next]_vars

\* As in TcpDemo: threads, the network and the system go on, and no call owes
\* anybody a failure.
Fairness == /\ WF_vars(Main /\ UNCHANGED faults)
            /\ WF_vars(ServerThread /\ UNCHANGED faults)
            /\ WF_vars(Network)
            /\ \A c \in Clients : /\ WF_vars(ClientThread(c) /\ UNCHANGED faults)
                                  /\ WF_vars(Reap(c))

FairSpec == Spec /\ Fairness

-------------------------------------------------------------------------------
(* Safety *)

\* What a client is sent is, byte by byte, what it sent itself, and only the
\* accepted client is sent anything, whichever of the programs are paired.
EchoIntegrity ==
  \A c \in Clients :
     /\ c # conn => sent[Srv(c)] = <<>>
     /\ Len(sent[Srv(c)]) <= read[Srv(c)]
     /\ \A i \in 1..Len(sent[Srv(c)]) : sent[Srv(c)][i] = sent[Cli(c)][i]

\* A client that ends by the end of the stream has received the whole text
\* back, if it was accepted and the server reported no error.
EofAfterWholeEcho ==
  (conn # NoClient /\ verdict[conn] = "eof" /\ sret = 0 /\ LocalClient \notin killed) =>
     read[Cli(conn)] = Len(Text) /\ sent[Srv(conn)] = Text

\* What is printed begins with the bytes just received; behind them there may
\* be bytes of earlier packets. Only the buffer of the C program, on its stack,
\* adds anything else or runs past its end.
PrintsReceived ==
  \A x \in Endpoints :
     /\ got[x] <= Len(log[x])
     /\ \A i \in 1..got[x] : log[x][i] = sent[Peer(x)][read[x] - got[x] + i]
     /\ ProgramAt(x) # "c" =>
          /\ x \notin overrun
          /\ \A i \in DOMAIN log[x] : \E j \in 1..read[x] : log[x][i] = sent[Peer(x)][j]

\* No process dies of SIGPIPE unless a call fails on its own, or the client
\* served is the Python one, which leaves after the first part of its echo.
OnlyPythonBreaksPipes ==
  killed # {} => faults > 0 \/ (conn # NoClient /\ Program(conn) = "python")

\* However a function returned, a thread that is done has left no listening
\* socket and no connection open, and no client in the backlog.
SocketsClosed ==
  /\ spc = "done" => /\ listener \in {"none", "closed"}
                     /\ \A c \in Clients : sock[Srv(c)] \in {"none", "closed"}
  /\ \A c \in Clients : cpc[c] = "done" => sock[Cli(c)] # "open"

-------------------------------------------------------------------------------
(* Liveness *)

\* A client that got a connection, accepted or not, comes to an end.
OneshotConnectedEnds ==
  \A c \in Clients : sock[Cli(c)] = "open" ~> (cpc[c] = "done" \/ c \in killed)

\* Once the server has a client, main joins both threads.
OneshotFinishes == conn # NoClient ~> (mpc = "finished" \/ LocalClient \in killed)

-------------------------------------------------------------------------------
(* The contract of mode 1 *)

Phase ==
  CASE LocalClient \in killed \/ spc \in {"close", "done"} \/ sret = 1 -> "over"
    [] LocalClient \notin killed /\ sret = 0 /\ conn = NoClient
         /\ spc \in {"accept", "closeListen", "recv"} -> "open"
    [] LocalClient \notin killed /\ sret = 0 /\ conn # NoClient
         /\ spc \notin {"close", "done"} -> "serving"
    [] OTHER -> "closed"

Contract == INSTANCE ServerContract WITH
  mode <- 1,
  phase <- Phase,
  partner <- conn,
  request <- [c \in Clients |-> sent[Cli(c)]],
  ended <- [c \in Clients |-> fin[Cli(c)]],
  taken <- IF conn = NoClient THEN 0 ELSE read[Srv(conn)],
  reply <- IF conn = NoClient THEN <<>> ELSE sent[Srv(conn)],
  failed <- sret = 1 \/ LocalClient \in killed,
  Unrequested <- <<>>

\* The programs without classes keep the promises of the class in mode 1.
KeepsContract == Contract!SafeSpec
===============================================================================
