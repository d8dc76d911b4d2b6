-------------------------------- MODULE TcpDemo --------------------------------
(***************************************************************************)
(* The whole TCP demo: main with its two threads, the clients started in   *)
(* other processes, the socket layer between them.                         *)
(***************************************************************************)
EXTENDS TcpServerClass, TcpClientClass

VARIABLE mpc    \* where main is

vars == <<cfg, mpc, serverVars, clientVars, kernelVars>>

MainPcs == {"spawnServer", "spawnClient", "joinServer", "joinClient", "finished"}

TypeOK == /\ ConfigTypeOK
          /\ KernelTypeOK
          /\ ServerTypeOK
          /\ ClientTypeOK
          /\ mpc \in MainPcs

Init == /\ StartupCode
        /\ KernelInit
        /\ ServerInit
        /\ ClientInit
        /\ mpc = "spawnServer"

-------------------------------------------------------------------------------
(* main.  The pause of 1 ms between the two threads orders nothing. *)

MainAt(pc, next) == mpc = pc /\ LocalClient \notin killed /\ mpc' = next

SpawnServer ==
  /\ MainAt("spawnServer", "spawnClient")
  /\ Goto("start")
  /\ UNCHANGED <<clientVars, kernelVars>>

SpawnClient ==
  /\ MainAt("spawnClient", "joinServer")
  /\ ClientGoto(LocalClient, "start")
  /\ UNCHANGED <<serverVars, kernelVars>>

JoinServer ==
  /\ MainAt("joinServer", "joinClient")
  /\ spc = "done"
  /\ UNCHANGED <<serverVars, clientVars, kernelVars>>

JoinClient ==
  /\ MainAt("joinClient", "finished")
  /\ cpc[LocalClient] = "done"
  /\ UNCHANGED <<serverVars, clientVars, kernelVars>>

Main == (SpawnServer \/ SpawnClient \/ JoinServer \/ JoinClient) /\ UNCHANGED cfg

-------------------------------------------------------------------------------
(* The test bed *)

ServerThread == ServerStep /\ UNCHANGED <<cfg, mpc, clientVars>>

ClientThread(c) == ClientStep(c) /\ UNCHANGED <<cfg, mpc, serverVars>>

\* Somebody starts the program in another process.
StartRemote(c) ==
  /\ c # LocalClient /\ cpc[c] = "idle"
  /\ ClientGoto(c, "start")
  /\ UNCHANGED <<cfg, mpc, serverVars, kernelVars>>

\* The system closes what a killed process leaves open.
Reap(c) ==
  /\ c \in killed
  /\ \/ sock[Cli(c)] = "open" /\ CloseCall(Cli(c))
     \/ c = LocalClient /\ listener \notin {"none", "closed"} /\ CloseListenerCall
     \/ c = LocalClient /\ conn # NoClient /\ sock[Srv(conn)] = "open" /\ CloseCall(Srv(conn))
  /\ UNCHANGED <<cfg, mpc, serverVars, clientVars>>

Network == /\ \E x \in Endpoints : DeliverRst(x)
           /\ UNCHANGED <<cfg, mpc, serverVars, clientVars>>

Next == \/ Main
        \/ ServerThread
        \/ Network
        \/ \E c \in Clients : ClientThread(c) \/ StartRemote(c) \/ Reap(c)

Spec == Init /\ [][Next]_vars

\* Every runnable thread is scheduled, the network delivers what is on its
\* way and the system cleans up after a process.  Nobody has to start a
\* remote client, and no call has to fail, though one may.
Fairness == /\ WF_vars(Main /\ UNCHANGED faults)
            /\ WF_vars(ServerThread /\ UNCHANGED faults)
            /\ WF_vars(Network)
            /\ \A c \in Clients : /\ WF_vars(ClientThread(c) /\ UNCHANGED faults)
                                  /\ WF_vars(Reap(c))

FairSpec == Spec /\ Fairness

-------------------------------------------------------------------------------
(* Safety *)

\* What the server sends to a client is, byte by byte, what that client sent
\* to it before (mode 1), or the one canned reply (mode 2), or nothing; and
\* only the accepted client is ever sent anything.  The echo goes through
\* reception_buffer, which recv overwrites in parts of any size.
ReplyIntegrity ==
  \A c \in Clients :
     /\ c # conn => sent[Srv(c)] = <<>>
     /\ ServerMode = 1 => /\ Len(sent[Srv(c)]) <= read[Srv(c)]
                          /\ \A i \in 1..Len(sent[Srv(c)]) :
                                sent[Srv(c)][i] = sent[Cli(c)][i]
     /\ ServerMode = 2 => sent[Srv(c)] \in {<<>>, Unrequested}
     /\ ServerMode > 2 => sent[Srv(c)] = <<>>

\* "Server closed connection" is the client's only sign of success.  When it
\* prints that, has been accepted and the server reported no error, it has
\* printed the whole echo of all it sent (mode 1) or the whole unrequested
\* reply (mode 2).
EofMeansComplete ==
  (conn # NoClient /\ verdict[conn] = "eof" /\ sret = 0 /\ LocalClient \notin killed) =>
     /\ ServerMode = 1 => shown[conn] = sent[Cli(conn)]
     /\ ServerMode = 2 => shown[conn] = Unrequested

\* The server handles one client.  One that connected as well, before the
\* listening socket was closed, or that goes on without a connection as on
\* Windows, never prints a text and never takes this for a normal end.  Mode 3 is the exception: it goes on
\* receiving after a failed send, and by then the reset has been consumed.
RejectedIsTold ==
  \A c \in Clients \ {conn} :
     shown[c] = <<>> /\ (verdict[c] = "eof" => Mode(c) = 3)

\* The text a client prints is exactly what it received, although short
\* packets leave the tail of longer ones in its buffer.
LogShowsReceived ==
  \A c \in Clients :
     /\ Len(shown[c]) = read[Cli(c)]
     /\ \A i \in 1..Len(shown[c]) : shown[c][i] = sent[Srv(c)][i]

\* "Receive until the peer shuts down the connection": a server that shuts
\* its side down in order has received everything and the client's FIN.
Drained(modes) ==
  (/\ ServerMode \in modes /\ conn # NoClient
   /\ fin[Srv(conn)] /\ sret = 0 /\ LocalClient \notin killed)
  => Unread(Srv(conn)) = 0 /\ fin[Cli(conn)]

DrainsBeforeShutdown == Drained({1, 2, 5})

\* The same of mode 3, whose loop carries the same comment.
Mode3Drains == Drained({3})

\* As long as no call fails on its own, no process dies of SIGPIPE, however
\* closes and resets race with sends, unless the server stops receiving early.
NoSigPipe == killed # {} => ServerMode \in {3, 4} \/ faults > 0

\* Whatever way performOperation returned, with errors of any call, a thread
\* that is done has left no listening socket and no connection open, and no
\* client in the backlog.  A socket without a connection, which each refused
\* address leaves behind, is none of these: OnlyRefusedLeak counts them.
ConnectionsClosed ==
  /\ spc = "done" => /\ listener \in {"none", "closed"}
                     /\ \A c \in Clients : sock[Srv(c)] \in {"none", "closed"}
  /\ \A c \in Clients : cpc[c] = "done" => sock[Cli(c)] # "open"

-------------------------------------------------------------------------------
(* Liveness *)

\* A client that got a connection, accepted or not, comes to an end.
ConnectedEnds ==
  \A c \in Clients : sock[Cli(c)] = "open" ~> (cpc[c] = "done" \/ c \in killed)

\* Once the server has a client, main joins both threads, also when the
\* client served is a remote one and the local client is refused.
DemoFinishes == conn # NoClient ~> (mpc = "finished" \/ LocalClient \in killed)

\* "the program will exit automatically": main always comes to its end.
AutoTerminates == <>(mpc = "finished" \/ LocalClient \in killed)

\* "Receive until the peer shuts down the connection, use select to do
\* this": after the client's FIN the loop of mode 5 ends.
SelectSeesEof ==
  (ServerMode = 5 /\ conn # NoClient /\ spc = "select" /\ fin[Cli(conn)])
  ~> (spc = "done" \/ LocalClient \in killed)

\* "Applications can generally be configured to run server or client only":
\* a program configured SERVER_ONLY gets to listen.
ServerOnlyListens ==
  cfg[LocalClient].type = "SERVER_ONLY" ~> listener = "listening"

-------------------------------------------------------------------------------
(* The contract of the server *)

\* After an accept whose failure went unnoticed the server still has no
\* client; it stays "open" until its calls on INVALID_SOCKET fail.
Phase ==
  CASE LocalClient \in killed \/ spc \in {"dtorListen", "dtorClient", "done"} -> "over"
    [] LocalClient \notin killed /\ conn = NoClient
         /\ spc \in {"accept", "closeListen", "recv", "select", "shutdown"} -> "open"
    [] LocalClient \notin killed /\ conn # NoClient
         /\ spc \notin {"dtorListen", "dtorClient", "done"} -> "serving"
    [] OTHER -> "closed"

Contract == INSTANCE ServerContract WITH
  mode <- ServerMode,
  phase <- Phase,
  partner <- conn,
  request <- [c \in Clients |-> sent[Cli(c)]],
  ended <- [c \in Clients |-> fin[Cli(c)]],
  taken <- IF conn = NoClient THEN 0 ELSE read[Srv(conn)],
  reply <- IF conn = NoClient THEN <<>> ELSE sent[Srv(conn)],
  failed <- sret = 1 \/ LocalClient \in killed

\* The threads, buffers and sockets of the demo implement the contract: no
\* interleaving with clients, closes and resets makes the server reply with
\* anything else, switch clients or finish before it has everything.
ImplementsContract == Contract!SafeSpec

\* ... and, where select is not used, it gets done with the client it has.
ServesToTheEnd == Contract!Spec
===============================================================================
