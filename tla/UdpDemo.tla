-------------------------------- MODULE UdpDemo --------------------------------
(***************************************************************************)
(* The whole UDP demo: main with its two threads, the clients in other     *)
(* processes and the network between them.                                 *)
(***************************************************************************)
EXTENDS UdpServer, UdpClient

VARIABLE mpc    \* where main (start_demo in C) is

vars == <<cfg, mpc, serverVars, clientVars, netVars>>

MainPcs == {"spawnServer", "spawnClient", "join", "finished"}

UdpTypeOK == /\ ConfigTypeOK
             /\ NetworkTypeOK
             /\ ServerTypeOK
             /\ ClientTypeOK
             /\ mpc \in MainPcs

Init == /\ StartupCode
        /\ NetworkInit
        /\ ServerInit
        /\ ClientInit
        /\ mpc = "spawnServer"

-------------------------------------------------------------------------------
MainAt(pc, next) == mpc = pc /\ LocalClient \notin gone /\ mpc' = next

SpawnServer ==
  /\ MainAt("spawnServer", "spawnClient")
  /\ Goto("start")
  /\ UNCHANGED <<clientVars, netVars>>

SpawnClient ==
  /\ MainAt("spawnClient", "join")
  /\ ClientGoto(LocalClient, "start")
  /\ UNCHANGED <<serverVars, netVars>>

\* The two joins; the C++ program waits for the server first, the C program
\* for the client.  The process ends with main.
JoinBoth ==
  /\ MainAt("join", "finished")
  /\ spc = "done" /\ cpc[LocalClient] = "done"
  /\ EndProcess(LocalClient)
  /\ UNCHANGED <<serverVars, clientVars, faults>>

\* The C program starts only the threads it needs.
CreatesThread ==
  \/ Program(LocalClient) # "c"
  \/ mpc = "spawnServer" /\ RunsServer(LocalClient)
  \/ mpc = "spawnClient" /\ RunsClient(LocalClient)

\* A thread that cannot be created ends the process, a server in it as well.
SpawnFails ==
  /\ mpc \in {"spawnServer", "spawnClient"} /\ MainAt(mpc, "finished")
  /\ CreatesThread
  /\ faults < MaxFaults /\ faults' = faults + 1
  /\ EndProcess(LocalClient)
  /\ UNCHANGED <<serverVars, clientVars>>

Main == (SpawnServer \/ SpawnClient \/ SpawnFails \/ JoinBoth) /\ UNCHANGED cfg

ServerThread == ServerStep /\ UNCHANGED <<cfg, mpc, clientVars>>
ClientThread(c) == ClientStep(c) /\ UNCHANGED <<cfg, mpc, serverVars>>

StartRemote(c) ==
  /\ c # LocalClient /\ cpc[c] = "idle"
  /\ ClientGoto(c, "start")
  /\ UNCHANGED <<cfg, mpc, serverVars, netVars>>

\* After something undefined a process may go on or be ended, by a check of
\* the allocator for instance.
Crash(c) ==
  /\ c \in undef \ gone
  /\ EndProcess(c)
  /\ UNCHANGED <<cfg, mpc, serverVars, clientVars, faults>>

Network(m) ==
  /\ Deliver(m) \/ Duplicate(m) \/ Lose(m)
  /\ UNCHANGED <<cfg, mpc, serverVars, clientVars>>

Next == \/ Main
        \/ ServerThread
        \/ \E m \in net : Network(m)
        \/ \E c \in Clients : ClientThread(c) \/ StartRemote(c) \/ Crash(c)

Spec == Init /\ [][Next]_vars

\* Threads are scheduled and what is on its way arrives, unless it is lost; a
\* call that waits need not fail.
Fairness == /\ WF_vars(Main /\ UNCHANGED faults)
            /\ WF_vars(ServerThread /\ UNCHANGED faults)
            /\ WF_vars(\E m \in net : Network(m))
            /\ \A c \in Clients : WF_vars(ClientThread(c) /\ UNCHANGED faults)

FairSpec == Spec /\ Fairness

-------------------------------------------------------------------------------
(* Safety *)

\* A client prints as "received back" only the text it sent itself, and only
\* if the server answered it: not the answer to a rival, not a terminator that
\* a C program sent along, not what was in the buffer before.
OwnEcho ==
  \A c \in Clients :
     /\ verdict[c] = "reply" => shown[c] = Text /\ sender = c
     /\ verdict[c] # "reply" => shown[c] = <<>>

\* A client comes to do something undefined (a terminator before its buffer, a
\* list freed twice) only if it is the class, and some call has failed or, on
\* Windows, the network has just reported that its request found no server.
UndefinedOnlyAfterError ==
  [][\A c \in undef' \ undef :
        /\ Program(c) = "classes"
        /\ faults' > 0 \/ (cfg[c].build = "windows" /\ c \in refused \ refused')]_vars

\* A class or C server that is done has no socket, whatever failed before;
\* but the C function forgets the one it could not bind.
ServerSocketClosed ==
  (spc = "done" /\ Program(LocalClient) # "procedural") =>
     server \in {"none", "closed"} \/ (Program(LocalClient) = "c" /\ server = "created")

\* At most one of those who asked is answered, at most once, with its text.
Echo == INSTANCE EchoOnce WITH
  partner <- sender,
  answered <- sender # NoClient /\ spc # "echo",
  heard <- shown

ImplementsEchoOnce == Echo!Spec

-------------------------------------------------------------------------------
(* Liveness *)

\* Where nothing is lost and no call fails, the client whose request is taken
\* ends, whatever its rivals and their duplicates do, and if that is the local
\* one, main joins both threads; unless the process that serves it has a
\* client of its own that did something undefined.
AnsweredEnds ==
  \A c \in Clients :
     sender = c ~> \/ cpc[c] = "done" /\ (c = LocalClient => mpc = "finished")
                   \/ c \in gone \/ LocalClient \in undef
                   \/ faults + lost > 0
===============================================================================
