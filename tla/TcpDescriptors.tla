----------------------------- MODULE TcpDescriptors -----------------------------
(***************************************************************************)
(* TcpDemo with the numbers behind the sockets of the process that runs    *)
(* both threads.  A Unix hands out the lowest free number, the objects     *)
(* keep the numbers they have closed, and close takes whatever a number    *)
(* stands for by then; so a thread that closes twice may close a socket of *)
(* the other one.  Between socket and connect a client has a number but no *)
(* connection, which TcpDemo does not tell apart.                          *)
(***************************************************************************)
EXTENDS TcpDemo, FiniteSets

INVALID == -1    \* INVALID_SOCKET

\* 0 to 2 are taken; both threads have three sockets besides refused ones.
Numbers == 3..(5 + NumAddrs)

VARIABLES fds,            \* what a number stands for
          listenSocket, clientSocket,   \* members of the server object
          connectSocket,  \* member of the local client object
          hit             \* what was closed by somebody it did not belong to

fdVars == <<fds, listenSocket, clientSocket, connectSocket, hit>>

Kinds == {"free", "listening", "accepted", "unconnected", "connected"}

\* A member holds a number, and a socket in use the number of its owner.
FdTypeOK ==
  /\ TypeOK
  /\ fds \in [Numbers -> Kinds]
  /\ {listenSocket, clientSocket, connectSocket} \subseteq Numbers \cup {INVALID}
  /\ hit \subseteq Kinds
  /\ \A n \in Numbers : /\ fds[n] = "listening" => n = listenSocket
                        /\ fds[n] = "accepted" => n = clientSocket
                        /\ fds[n] = "connected" => n = connectSocket

FdInit == /\ Init /\ cfg[LocalClient].build = "unix"
          /\ fds = [n \in Numbers |-> "free"]
          /\ listenSocket = INVALID /\ clientSocket = INVALID /\ connectSocket = INVALID
          /\ hit = {}

-------------------------------------------------------------------------------
(* Numbers *)

Lowest == CHOOSE n \in Numbers : /\ fds[n] = "free"
                                 /\ \A m \in Numbers : m < n => fds[m] # "free"

Opens(kind) == fds' = [fds EXCEPT ![Lowest] = kind] /\ hit' = hit

Kind(n) == IF n = INVALID THEN "free" ELSE fds[n]

\* close(n), called by the owner of a socket of one of these kinds.
CloseNumber(n, kinds) ==
  /\ CASE Kind(n) = "listening" -> CloseListenerCall
       [] Kind(n) = "accepted" -> CloseCall(Srv(conn))
       [] Kind(n) = "connected" -> CloseCall(Cli(LocalClient))
       [] OTHER -> UNCHANGED kernelVars
  /\ fds' = [m \in Numbers |-> IF m = n THEN "free" ELSE fds[m]]
  /\ hit' = hit \cup ({Kind(n)} \ (kinds \cup {"free", "unconnected"}))
  /\ UNCHANGED <<listenSocket, clientSocket, connectSocket>>

-------------------------------------------------------------------------------
(* The server thread *)

FdListen ==
  /\ spc = "socket" /\ ServerStep
  /\ \/ spc' = "bind" /\ Opens("listening") /\ listenSocket' = Lowest
     \/ spc' # "bind" /\ UNCHANGED <<fds, hit, listenSocket>>
  /\ UNCHANGED <<clientSocket, connectSocket>>

\* Slip: one member is used for both sockets of the server.
AcceptsIntoListen ==
  /\ spc = "accept" /\ ServerStep
  /\ \/ conn' # conn /\ Opens("accepted") /\ listenSocket' = Lowest
     \/ conn' = conn /\ UNCHANGED <<fds, hit, listenSocket>>
  /\ UNCHANGED <<clientSocket, connectSocket>>

FdAccept ==
  /\ spc = "accept" /\ ServerStep
  /\ \/ conn' # conn /\ Opens("accepted") /\ clientSocket' = Lowest
     \/ conn' = conn /\ UNCHANGED <<fds, hit, clientSocket>>
  /\ UNCHANGED <<listenSocket, connectSocket>>

\* Slip: the client's socket is closed in place of the listening one.
ClosesWrongSocket ==
  /\ At("closeListen")
  /\ CloseNumber(clientSocket, {"accepted"})
  /\ spc' = ModeOperation /\ rfds' = (ServerMode = 5)
  /\ UNCHANGED <<conn, retval, buffer, sret>>

FdCloseListen ==
  /\ At("closeListen")
  /\ CloseNumber(listenSocket, {"listening"})
  /\ spc' = ModeOperation /\ rfds' = (ServerMode = 5)
  /\ UNCHANGED <<conn, retval, buffer, sret>>

\* Slip: the destructor closes the listening socket only.
FdDtorForgets ==
  /\ At("dtorListen")
  /\ CloseNumber(listenSocket, {"listening"}) /\ Goto("done")

FdDtorListen ==
  /\ At("dtorListen")
  /\ CloseNumber(listenSocket, {"listening"}) /\ Goto("dtorClient")

FdDtorClient ==
  /\ At("dtorClient")
  /\ CloseNumber(clientSocket, {"accepted"}) /\ Goto("done")

FdServerStep ==
  \/ FdListen \/ FdAccept \/ FdCloseListen \/ FdDtorListen \/ FdDtorClient
  \/ /\ spc \notin {"socket", "accept", "closeListen", "dtorListen", "dtorClient"}
     /\ ServerStep
     /\ UNCHANGED fdVars

-------------------------------------------------------------------------------
(* The local client's thread *)

FdSocket ==
  /\ ClientAt(LocalClient, "connect") /\ connectSocket = INVALID
  /\ \/ /\ Opens("unconnected") /\ connectSocket' = Lowest
        /\ UNCHANGED <<clientVars, kernelVars>>
     \/ SetupSocketFails(LocalClient) /\ UNCHANGED <<fds, hit, connectSocket>>
  /\ UNCHANGED <<listenSocket, clientSocket>>

FdConnect ==
  /\ Kind(connectSocket) = "unconnected"
  /\ SetupConnect(LocalClient)
  /\ fds' = [fds EXCEPT ![connectSocket] = "connected"]
  /\ UNCHANGED <<listenSocket, clientSocket, connectSocket, hit>>

\* Slip: a refused socket is closed, but its number kept.
RefusedKeepsNumber ==
  /\ connectSocket # INVALID
  /\ SetupRefused(LocalClient)
  /\ connectSocket' = IF cpc'[LocalClient] = "connect" THEN INVALID ELSE connectSocket
  /\ fds' = [fds EXCEPT ![connectSocket] = "free"]
  /\ UNCHANGED <<listenSocket, clientSocket, hit>>

\* A refused socket is overwritten and stays open.
FdRefused ==
  /\ connectSocket # INVALID
  /\ SetupRefused(LocalClient)
  /\ connectSocket' = INVALID
  /\ UNCHANGED <<fds, listenSocket, clientSocket, hit>>

FdClientClose ==
  /\ \/ ClientAt(LocalClient, "close") /\ ClientGoto(LocalClient, "dtor")
     \/ ClientAt(LocalClient, "dtor") /\ ClientGoto(LocalClient, "done")
  /\ CloseNumber(connectSocket, {"connected"})

FdClientStep ==
  \/ FdSocket \/ FdConnect \/ FdRefused \/ FdClientClose
  \/ /\ cpc[LocalClient] \notin {"connect", "close", "dtor"}
     /\ ClientStep(LocalClient)
     /\ UNCHANGED fdVars

-------------------------------------------------------------------------------
\* The end of a process frees its numbers.
FdReap == /\ LocalClient \in killed
          /\ Reap(LocalClient)
          /\ fds' = [n \in Numbers |-> "free"]
          /\ UNCHANGED <<listenSocket, clientSocket, connectSocket, hit>>

Elsewhere ==
  /\ \/ Main \/ Network
     \/ \E c \in Clients \ {LocalClient} : ClientThread(c) \/ StartRemote(c) \/ Reap(c)
  /\ UNCHANGED fdVars

FdNext ==
  \/ FdServerStep /\ UNCHANGED <<cfg, mpc, clientVars>>
  \/ FdClientStep /\ UNCHANGED <<cfg, mpc, serverVars>>
  \/ FdReap \/ Elsewhere

FdSpec == FdInit /\ [][FdNext]_<<vars, fdVars>>

-------------------------------------------------------------------------------
(* Properties *)

Unconnected == {n \in Numbers : fds[n] = "unconnected"}

\* Between socket and connect the client's number came to mean something else.
LostSocket == /\ ClientAt(LocalClient, "connect") /\ connectSocket # INVALID
              /\ Kind(connectSocket) # "unconnected"

\* Both objects close numbers again that they have closed before. Unless a
\* call has failed, no such close takes a listening or connected socket from
\* the other thread: the number of the listening socket is free only when
\* nobody can connect any more, and a client of mode 5 outlives the accept.
\* The socket a client is about to connect may be taken, but by then nobody
\* listens for it.
StaleCloseNeedsFailure ==
  faults = 0 => /\ hit = {}
                /\ LostSocket => listener # "listening"

\* With both threads done, nothing is open but sockets of refused addresses:
\* at most one for each address tried, less the one that was connected.
OnlyRefusedLeak ==
  (spc = "done" /\ cpc[LocalClient] = "done") =>
     /\ \A n \in Numbers : fds[n] \in {"free", "unconnected"}
     /\ Cardinality(Unconnected) <=
          IF verdict[LocalClient] = "unable" THEN attempt[LocalClient]
                                             ELSE attempt[LocalClient] - 1

\* As long as that is so, numbers change nothing: every step of the demo with
\* numbers is a step of TcpDemo.
ImplementsTcpDemo == Init /\ [][Next \/ hit' # {}]_vars
===============================================================================
